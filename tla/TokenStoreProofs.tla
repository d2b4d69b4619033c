-------------------------- MODULE TokenStoreProofs --------------------------
(***************************************************************************)
(* The JWT token store.  What it generates it accepts, until its ttl is    *)
(* over and no longer, for the subject, token id and session it was        *)
(* generated for; and the types of TokenRevocation, how long a revocation  *)
(* lasts, and what the entries of the storage stand for.                   *)
(***************************************************************************)
EXTENDS TokenClaims, TokenRevocation, TLAPS

-----------------------------------------------------------------------------
(* Claims.                                                                  *)

\* The times among the claims are numbers.
Timed(claims) ==
    \A name \in {"iat", "nbf"} \cap DOMAIN claims :
      claims[name].type \in {"seconds", "time"} => claims[name].of \in Int

\* A claim of the token that was taken over is no later than what it was made of.
NotLater(of, claims, name) ==
    name \in DOMAIN claims /\ InstantOf(claims[name]) \in Int
      /\ of <= InstantOf(claims[name])

\* The end of a token is its ttl's, cut to the second; without a ttl it has none.
EndOK ==
    /\ "exp" \in DOMAIN token.claims <=> made.ttl > 0
    /\ made.ttl > 0 => token.claims["exp"].of = WholeSecond(made.at + made.ttl)

\* The other times are those of the claims, or that of Generate.
TimesOK ==
    \A name \in {"iat", "nbf"} \cap DOMAIN token.claims :
      /\ token.claims[name].of \in Int
      /\ token.claims[name].of <= made.at \/ NotLater(token.claims[name].of, made.claims, name)

\* Issuer and audience are the configured ones unless the claims have others.
IssuerIs ==
    claimCfg.issuer # Unset =>
      \/ "iss" \in DOMAIN token.claims /\ token.claims["iss"] = Text(claimCfg.issuer)
      \/ "iss" \in DOMAIN made.claims /\ made.claims["iss"] # Text(claimCfg.issuer)

AudienceIs ==
    claimCfg.audience # Unset =>
      \/ /\ "aud" \in DOMAIN token.claims
         /\ token.claims["aud"] = List(<<claimCfg.audience>>)
      \/ /\ "aud" \in DOMAIN made.claims
         /\ made.claims["aud"] \notin {Text(claimCfg.audience), List(<<claimCfg.audience>>)}

\* The token is what Generate makes of the claims.
TokenOK ==
    token # NoToken =>
      /\ claimCfg.built
      /\ EndOK /\ TimesOK /\ IssuerIs /\ AudienceIs
      /\ Identity(token.claims) = Identity(made.claims)

\* What was accepted is the token there is, in time.
ValidatedOK ==
    /\ validated # NotAsked => token # NoToken
    /\ validated.is = "accepted" => Timely(token) /\ validated.claims = TokenToMap(token)
    /\ OwnTokensAccepted

ClaimsInv ==
    /\ now \in Nat
    /\ made.at \in Nat /\ made.at <= now
    /\ made.ttl \in Int
    /\ TokenOK
    /\ ValidatedOK

-----------------------------------------------------------------------------
(* Conversions.                                                             *)

\* Cutting to the second takes less than a second.
LEMMA WholeSecondIs ==
    ASSUME NEW t \in Int
    PROVE  WholeSecond(t) \in Int /\ WholeSecond(t) <= t /\ WholeSecond(t) > t - Second
  BY SecondAssumption DEF WholeSecond

\* What there is of a claim, set over others.
LEMMA OverIs ==
    ASSUME NEW f, NEW g, NEW x
    PROVE  /\ x \in DOMAIN Over(f, g) <=> x \in DOMAIN f \/ x \in DOMAIN g
           /\ x \in DOMAIN f => Over(f, g)[x] = f[x]
           /\ x \notin DOMAIN f /\ x \in DOMAIN g => Over(f, g)[x] = g[x]
  BY DEF Over

LEMMA AddedIs ==
    ASSUME NEW name, NEW value, NEW condition \in BOOLEAN, NEW x
    PROVE  /\ x \in DOMAIN Added(name, value, condition) <=> x = name /\ condition
           /\ condition => Added(name, value, condition)[name] = value
  BY DEF Added

\* What Generate puts into a token under a name.
LEMMA BuiltIs ==
    ASSUME NEW claims, NEW refresh \in BOOLEAN, NEW ttl \in Int, NEW name, name # "type"
    PROVE  /\ name \in DOMAIN Built(claims, refresh, ttl) <=>
                \/ name = "exp" /\ ttl > 0
                \/ name \in DOMAIN Issuing(claims)
                \/ name \in DOMAIN Carried(claims)
           /\ name = "exp" /\ ttl > 0 =>
                Built(claims, refresh, ttl)[name] = Time(WholeSecond(now + ttl))
           /\ name # "exp" /\ name \in DOMAIN Issuing(claims) =>
                Built(claims, refresh, ttl)[name] = Issuing(claims)[name]
           /\ name # "exp" /\ name \notin DOMAIN Issuing(claims) /\ name \in DOMAIN Carried(claims) =>
                Built(claims, refresh, ttl)[name] = Carried(claims)[name]
<1> DEFINE e == End(claims, ttl)
           i == Issuing(claims)
           c == Carried(claims)
           t == TokenType(refresh)
<1>1. name \notin DOMAIN t
  BY AddedIs DEF TokenType
<1>2. /\ name \in DOMAIN e <=> name = "exp" /\ ttl > 0
      /\ ttl > 0 => e["exp"] = Time(WholeSecond(now + ttl))
  <2>1. (ttl > 0) \in BOOLEAN
    OBVIOUS
  <2> QED
    BY <2>1, AddedIs DEF End
<1>3. Built(claims, refresh, ttl) = Over(t, Over(e, Over(i, c)))
  BY DEF Built
<1> HIDE DEF e, i, c, t
<1>4. /\ name \in DOMAIN Over(t, Over(e, Over(i, c))) <=> name \in DOMAIN Over(e, Over(i, c))
      /\ name \in DOMAIN Over(e, Over(i, c)) =>
           Over(t, Over(e, Over(i, c)))[name] = Over(e, Over(i, c))[name]
  BY <1>1, OverIs
<1>5. /\ name \in DOMAIN Over(e, Over(i, c)) <=> name \in DOMAIN e \/ name \in DOMAIN Over(i, c)
      /\ name \in DOMAIN e => Over(e, Over(i, c))[name] = e[name]
      /\ name \notin DOMAIN e /\ name \in DOMAIN Over(i, c) =>
           Over(e, Over(i, c))[name] = Over(i, c)[name]
  BY OverIs
<1>6. /\ name \in DOMAIN Over(i, c) <=> name \in DOMAIN i \/ name \in DOMAIN c
      /\ name \in DOMAIN i => Over(i, c)[name] = i[name]
      /\ name \notin DOMAIN i /\ name \in DOMAIN c => Over(i, c)[name] = c[name]
  BY OverIs
<1>7. /\ name \in DOMAIN Built(claims, refresh, ttl) <=>
           (name = "exp" /\ ttl > 0) \/ name \in DOMAIN i \/ name \in DOMAIN c
      /\ name = "exp" /\ ttl > 0 =>
           Built(claims, refresh, ttl)[name] = Time(WholeSecond(now + ttl))
      /\ name # "exp" /\ name \in DOMAIN i => Built(claims, refresh, ttl)[name] = i[name]
      /\ name # "exp" /\ name \notin DOMAIN i /\ name \in DOMAIN c =>
           Built(claims, refresh, ttl)[name] = c[name]
  BY <1>2, <1>3, <1>4, <1>5, <1>6
<1> QED
  BY <1>7 DEF i, c

\* What stands in for claims that are not there.
LEMMA IssuingIs ==
    ASSUME NEW claims, NEW x
    PROVE  /\ x \in DOMAIN Issuing(claims) <=>
                \/ x = "iss" /\ claimCfg.issuer # Unset /\ "iss" \notin DOMAIN claims
                \/ x = "aud" /\ claimCfg.audience # Unset /\ "aud" \notin DOMAIN claims
                \/ x = "iat" /\ "iat" \notin DOMAIN claims
           /\ x \in DOMAIN Issuing(claims) =>
                /\ x = "iss" => Issuing(claims)[x] = Text(claimCfg.issuer)
                /\ x = "aud" => Issuing(claims)[x] = List(<<claimCfg.audience>>)
                /\ x = "iat" => Issuing(claims)[x] = Time(WholeSecond(now))
<1> DEFINE p == claimCfg.issuer # Unset /\ "iss" \notin DOMAIN claims
           q == claimCfg.audience # Unset /\ "aud" \notin DOMAIN claims
           r == "iat" \notin DOMAIN claims
           f == Added("iss", Text(claimCfg.issuer), p)
           g == Added("aud", List(<<claimCfg.audience>>), q)
           h == Added("iat", Time(WholeSecond(now)), r)
<1>1. Issuing(claims) = Over(f, Over(g, h))
  BY DEF Issuing
<1>2. p \in BOOLEAN /\ q \in BOOLEAN /\ r \in BOOLEAN
  OBVIOUS
<1> HIDE DEF p, q, r
<1>3. (x \in DOMAIN f <=> x = "iss" /\ p) /\ (p => f["iss"] = Text(claimCfg.issuer))
  BY <1>2, AddedIs
<1>4. (x \in DOMAIN g <=> x = "aud" /\ q) /\ (q => g["aud"] = List(<<claimCfg.audience>>))
  BY <1>2, AddedIs
<1>5. (x \in DOMAIN h <=> x = "iat" /\ r) /\ (r => h["iat"] = Time(WholeSecond(now)))
  BY <1>2, AddedIs
<1> HIDE DEF f, g, h
<1>6. /\ x \in DOMAIN Over(g, h) <=> x \in DOMAIN g \/ x \in DOMAIN h
      /\ x \in DOMAIN g => Over(g, h)[x] = g[x]
      /\ x \notin DOMAIN g /\ x \in DOMAIN h => Over(g, h)[x] = h[x]
  BY OverIs
<1>7. /\ x \in DOMAIN Over(f, Over(g, h)) <=> x \in DOMAIN f \/ x \in DOMAIN Over(g, h)
      /\ x \in DOMAIN f => Over(f, Over(g, h))[x] = f[x]
      /\ x \notin DOMAIN f /\ x \in DOMAIN Over(g, h) => Over(f, Over(g, h))[x] = Over(g, h)[x]
  BY OverIs
<1>8. x \in DOMAIN Issuing(claims) <=> (x = "iss" /\ p) \/ (x = "aud" /\ q) \/ (x = "iat" /\ r)
  BY <1>1, <1>3, <1>4, <1>5, <1>6, <1>7
<1>9. ASSUME x = "iss", p PROVE Issuing(claims)[x] = Text(claimCfg.issuer)
  BY <1>1, <1>3, <1>7, <1>9
<1>10. ASSUME x = "aud", q PROVE Issuing(claims)[x] = List(<<claimCfg.audience>>)
  BY <1>1, <1>3, <1>4, <1>6, <1>7, <1>10
<1>11. ASSUME x = "iat", r PROVE Issuing(claims)[x] = Time(WholeSecond(now))
  BY <1>1, <1>3, <1>4, <1>5, <1>6, <1>7, <1>11
<1> QED
  BY <1>8, <1>9, <1>10, <1>11 DEF p, q, r

\* What is taken over.
LEMMA CarriedIs ==
    ASSUME NEW claims, NEW x
    PROVE  /\ x \in DOMAIN Carried(claims) <=>
                x \in DOMAIN claims /\ x # "exp" /\ Fits(x, claims[x])
           /\ x \in DOMAIN Carried(claims) => Carried(claims)[x] = InToken(x, claims[x])
  BY DEF Carried

-----------------------------------------------------------------------------
(* Generate.                                                                *)

\* The end.
LEMMA GeneratedEnd ==
    ASSUME NEW claims, NEW refresh \in BOOLEAN, NEW ttl \in Int
    PROVE  /\ "exp" \in DOMAIN Built(claims, refresh, ttl) <=> ttl > 0
           /\ ttl > 0 =>
                Built(claims, refresh, ttl)["exp"].of = WholeSecond(now + ttl)
<1>1. ASSUME NEW name \in {"exp"}
      PROVE  /\ name \in DOMAIN Built(claims, refresh, ttl) <=> ttl > 0
             /\ ttl > 0 => Built(claims, refresh, ttl)[name] = Time(WholeSecond(now + ttl))
  <2>1. name \notin DOMAIN Issuing(claims) /\ name \notin DOMAIN Carried(claims)
    BY IssuingIs, CarriedIs
  <2> QED
    BY <2>1, BuiltIs
<1> QED
  BY <1>1 DEF Time

\* The other times.
LEMMA GeneratedTimes ==
    ASSUME NEW claims, Timed(claims), NEW refresh \in BOOLEAN, NEW ttl \in Int,
           now \in Nat, NEW name \in {"iat", "nbf"},
           name \in DOMAIN Built(claims, refresh, ttl)
    PROVE  LET of == Built(claims, refresh, ttl)[name].of
           IN  of \in Int /\ (of <= now \/ NotLater(of, claims, name))
<1>1. CASE name \in DOMAIN Issuing(claims)
  <2>1. name = "iat" /\ name # "exp" /\ name # "type"
    BY <1>1, IssuingIs
  <2>2. Issuing(claims)[name] = Time(WholeSecond(now))
    BY <1>1, <2>1, IssuingIs
  <2>3. Built(claims, refresh, ttl)[name] = Time(WholeSecond(now))
    BY <1>1, <2>1, <2>2, BuiltIs
  <2> QED
    BY <2>3, WholeSecondIs DEF Time
<1>2. CASE name \notin DOMAIN Issuing(claims)
  <2> DEFINE value == claims[name]
  <2>1. name \in DOMAIN Carried(claims)
    BY <1>2, BuiltIs
  <2>2. /\ name \in DOMAIN claims /\ Fits(name, value)
        /\ Built(claims, refresh, ttl)[name] = InToken(name, value)
    BY <1>2, <2>1, BuiltIs, CarriedIs
  <2>3. value.type \in {"seconds", "time"} /\ value.of \in Int
    BY <2>2 DEF Fits, StandardClaims, TimeClaims, Timed
  <2>4. CASE value.type = "seconds"
    <3>1. InToken(name, value) = Time(value.of * Second)
      BY <2>4 DEF InToken, TimeClaims
    <3>2. InstantOf(value) = value.of * Second /\ value.of * Second \in Int
      BY <2>3, <2>4, SecondAssumption DEF InstantOf
    <3> QED
      BY <2>2, <3>1, <3>2 DEF NotLater, Time
  <2>5. CASE value.type = "time"
    <3>1. InToken(name, value) = Time(WholeSecond(value.of))
      BY <2>5 DEF InToken, TimeClaims
    <3>2. InstantOf(value) = value.of
      BY <2>5 DEF InstantOf
    <3>3. WholeSecond(value.of) \in Int /\ WholeSecond(value.of) <= value.of
      BY <2>3, WholeSecondIs
    <3> QED
      BY <2>2, <2>3, <3>1, <3>2, <3>3 DEF NotLater, Time
  <2> QED
    BY <2>3, <2>4, <2>5
<1> QED
  BY <1>1, <1>2

\* Issuer and audience.
LEMMA GeneratedIssuer ==
    ASSUME NEW claims, NEW refresh \in BOOLEAN, NEW ttl \in Int, claimCfg.issuer # Unset
    PROVE  LET b == Built(claims, refresh, ttl)
           IN  \/ "iss" \in DOMAIN b /\ b["iss"] = Text(claimCfg.issuer)
               \/ "iss" \in DOMAIN claims /\ claims["iss"] # Text(claimCfg.issuer)
<1>1. ASSUME NEW x \in {"iss"}, x \notin DOMAIN claims
      PROVE  /\ x \in DOMAIN Built(claims, refresh, ttl)
             /\ Built(claims, refresh, ttl)[x] = Text(claimCfg.issuer)
  <2>1. x \in DOMAIN Issuing(claims) /\ Issuing(claims)[x] = Text(claimCfg.issuer)
    BY <1>1, IssuingIs
  <2> QED
    BY <2>1, BuiltIs
<1>2. ASSUME NEW x \in {"iss"}, x \in DOMAIN claims, claims[x] = Text(claimCfg.issuer)
      PROVE  /\ x \in DOMAIN Built(claims, refresh, ttl)
             /\ Built(claims, refresh, ttl)[x] = Text(claimCfg.issuer)
  <2>1. x \notin DOMAIN Issuing(claims)
    BY <1>2, IssuingIs
  <2>2. ASSUME NEW v, v.type = "text" PROVE Fits(x, v) /\ InToken(x, v) = v
    BY <2>2 DEF Fits, InToken, TimeClaims
  <2>3. claims[x].type = "text"
    BY <1>2 DEF Text
  <2>4. x \in DOMAIN Carried(claims) /\ Carried(claims)[x] = Text(claimCfg.issuer)
    BY <1>2, <2>2, <2>3, CarriedIs
  <2> QED
    BY <2>1, <2>4, BuiltIs
<1> QED
  BY <1>1, <1>2

LEMMA GeneratedAudience ==
    ASSUME NEW claims, NEW refresh \in BOOLEAN, NEW ttl \in Int, claimCfg.audience # Unset
    PROVE  LET b == Built(claims, refresh, ttl)
           IN  \/ "aud" \in DOMAIN b /\ b["aud"] = List(<<claimCfg.audience>>)
               \/ /\ "aud" \in DOMAIN claims
                  /\ claims["aud"] \notin {Text(claimCfg.audience), List(<<claimCfg.audience>>)}
<1>1. ASSUME NEW x \in {"aud"}, x \notin DOMAIN claims
      PROVE  /\ x \in DOMAIN Built(claims, refresh, ttl)
             /\ Built(claims, refresh, ttl)[x] = List(<<claimCfg.audience>>)
  <2>1. x \in DOMAIN Issuing(claims) /\ Issuing(claims)[x] = List(<<claimCfg.audience>>)
    BY <1>1, IssuingIs
  <2> QED
    BY <2>1, BuiltIs
<1>2. ASSUME NEW x \in {"aud"}, x \in DOMAIN claims,
             claims[x] \in {Text(claimCfg.audience), List(<<claimCfg.audience>>)}
      PROVE  /\ x \in DOMAIN Built(claims, refresh, ttl)
             /\ Built(claims, refresh, ttl)[x] = List(<<claimCfg.audience>>)
  <2>1. x \notin DOMAIN Issuing(claims)
    BY <1>2, IssuingIs
  <2>2. ASSUME NEW v, v.type = "text"
        PROVE  Fits(x, v) /\ InToken(x, v) = List(<<v.of>>)
    BY <2>2 DEF Fits, InToken
  <2>3. ASSUME NEW v, v.type = "list"
        PROVE  Fits(x, v) /\ InToken(x, v) = v
    BY <2>3 DEF Fits, InToken, TimeClaims
  <2>4. ASSUME claims[x] = Text(claimCfg.audience)
        PROVE  Fits(x, claims[x]) /\ InToken(x, claims[x]) = List(<<claimCfg.audience>>)
    <3>1. claims[x].type = "text" /\ claims[x].of = claimCfg.audience
      BY <2>4 DEF Text
    <3> QED
      BY <2>2, <3>1
  <2>5. ASSUME claims[x] = List(<<claimCfg.audience>>)
        PROVE  Fits(x, claims[x]) /\ InToken(x, claims[x]) = List(<<claimCfg.audience>>)
    <3>1. claims[x].type = "list"
      BY <2>5 DEF List
    <3> QED
      BY <2>3, <2>5, <3>1
  <2>6. x \in DOMAIN Carried(claims) /\ Carried(claims)[x] = List(<<claimCfg.audience>>)
    BY <1>2, <2>4, <2>5, CarriedIs
  <2> QED
    BY <2>1, <2>6, BuiltIs
<1> QED
  BY <1>1, <1>2

\* The identity.
LEMMA GeneratedIdentity ==
    ASSUME NEW claims, NEW refresh \in BOOLEAN, NEW ttl \in Int
    PROVE  Identity(Built(claims, refresh, ttl)) = Identity(claims)
<1> DEFINE b == Built(claims, refresh, ttl)
<1>1. ASSUME NEW n \in {"sub", "jti", "sid"}
      PROVE  /\ n \in DOMAIN b /\ b[n].type = "text" <=> n \in DOMAIN claims /\ claims[n].type = "text"
             /\ n \in DOMAIN b => b[n] = claims[n]
  <2>1. n \notin DOMAIN Issuing(claims) /\ n # "type" /\ n # "exp"
    BY IssuingIs
  <2>2. InToken(n, claims[n]) = claims[n]
    BY DEF InToken, TimeClaims
  <2>3. n \in DOMAIN b <=> n \in DOMAIN claims /\ Fits(n, claims[n])
    BY <2>1, BuiltIs, CarriedIs
  <2>4. n \in DOMAIN b => b[n] = claims[n]
    BY <2>1, <2>2, BuiltIs, CarriedIs
  <2>5. claims[n].type = "text" => Fits(n, claims[n])
    BY DEF Fits, StandardClaims, TimeClaims
  <2> QED
    BY <2>3, <2>4, <2>5
<1> HIDE DEF b
<1>2. {n \in {"sub", "jti", "sid"} \cap DOMAIN b : b[n].type = "text"}
        = {n \in {"sub", "jti", "sid"} \cap DOMAIN claims : claims[n].type = "text"}
  BY <1>1
<1>3. Identity(b) = Identity(claims)
  BY <1>1, <1>2 DEF Identity
<1> QED
  BY <1>3 DEF b

-----------------------------------------------------------------------------
(* Validate.                                                                *)

\* Late enough to be refused for it.
Late == made.ttl > 0 /\ now > made.at + made.ttl - Second

\* A token of the store's own is accepted in time.
LEMMA OwnAccepted ==
    ASSUME ClaimsInv, token # NoToken, ~Late, keySet # <<>>, token.key = Head(keySet),
           ~Foreign(made.claims)
    PROVE  Verifies(token) /\ Timely(token) /\ IssuerOK(token) /\ AudienceOK(token)
<1> USE DEF ClaimsInv, TokenOK
<1>1. Verifies(token)
  BY DEF Verifies
<1>2. ASSUME "exp" \in DOMAIN token.claims PROVE now < token.claims["exp"].of
  <2>1. made.ttl > 0 /\ token.claims["exp"].of = WholeSecond(made.at + made.ttl)
    BY <1>2 DEF EndOK
  <2> DEFINE t == made.at + made.ttl
  <2>2. t \in Int
    OBVIOUS
  <2> HIDE DEF t
  <2>3. WholeSecond(t) \in Int /\ WholeSecond(t) > t - Second
    BY <2>2, WholeSecondIs
  <2>4. now <= t - Second
    BY <2>1, SecondAssumption DEF Late, t
  <2> QED
    BY <2>1, <2>2, <2>3, <2>4, SecondAssumption DEF t
<1>3. ASSUME NEW name \in {"iat", "nbf"}, name \in DOMAIN token.claims
      PROVE  now >= token.claims[name].of
  <2>1. /\ token.claims[name].of \in Int
        /\ \/ token.claims[name].of <= made.at
           \/ NotLater(token.claims[name].of, made.claims, name)
    BY <1>3 DEF TimesOK
  <2>2. NotLater(token.claims[name].of, made.claims, name) => InstantOf(made.claims[name]) <= now
    BY DEF NotLater, Foreign
  <2> QED
    BY <2>1, <2>2 DEF NotLater
<1>4. Timely(token)
  BY <1>2, <1>3 DEF Timely
<1>5. IssuerOK(token)
  BY DEF IssuerOK, IssuerIs, Foreign
<1>6. AudienceOK(token)
  <2>1. ASSUME claimCfg.validateAudience, claimCfg.audience # Unset
        PROVE  "aud" \in DOMAIN token.claims /\ token.claims["aud"] = List(<<claimCfg.audience>>)
    BY <2>1 DEF AudienceIs, Foreign
  <2>2. 1 \in DOMAIN List(<<claimCfg.audience>>).of
        /\ List(<<claimCfg.audience>>).of[1] = claimCfg.audience
    BY DEF List
  <2> QED
    BY <2>1, <2>2 DEF AudienceOK
<1> QED
  BY <1>1, <1>4, <1>5, <1>6

\* What was validated can be given to Generate.
LEMMA ValidatedTimed ==
    ASSUME ClaimsInv, validated.is = "accepted"
    PROVE  Timed(validated.claims)
<1>1. validated.claims = TokenToMap(token) /\ TimesOK
  BY DEF ClaimsInv, ValidatedOK, TokenOK, NotAsked
<1>2. ASSUME NEW name \in {"iat", "nbf"}, name \in DOMAIN validated.claims
      PROVE  validated.claims[name].of \in Int
  <2>1. name \in DOMAIN token.claims /\ validated.claims[name] = OutOfToken(name, token.claims[name])
    BY <1>1, <1>2 DEF TokenToMap
  <2>2. token.claims[name].of \in Int
    BY <1>1, <2>1 DEF TimesOK
  <2>3. token.claims[name].of \div Second \in Int
    BY <2>2, SecondAssumption
  <2>4. validated.claims[name] = Seconds(token.claims[name].of \div Second)
    BY <2>1 DEF OutOfToken, TimeClaims
  <2> QED
    BY <2>3, <2>4 DEF Seconds
<1> QED
  BY <1>2 DEF Timed

-----------------------------------------------------------------------------
(* The steps.                                                               *)

\* Generate, at a login and at a refresh.
LEMMA GeneratedStep ==
    ASSUME ClaimsInv, NEW claims, Timed(claims), NEW refresh \in BOOLEAN,
           NEW ttl \in TokenTTLs, NEW refreshed, Generated(claims, refresh, ttl, refreshed)
    PROVE  ClaimsInv'
<1> DEFINE b == Built(claims, refresh, ttl)
<1>1. /\ token' = [claims |-> b, key |-> Head(keySet)]
      /\ made' = [claims |-> claims, at |-> now, ttl |-> ttl, refreshed |-> refreshed]
      /\ validated' = NotAsked /\ claimCfg' = claimCfg /\ now' = now /\ claimCfg.built
  BY DEF Generated
<1>2. ttl \in Int /\ now \in Nat
  BY TokenTTLAssumption DEF ClaimsInv
<1>3. /\ token'.claims = b /\ made'.claims = claims /\ made'.at = now /\ made'.ttl = ttl
  BY <1>1
<1>4. EndOK'
  BY <1>2, <1>3, GeneratedEnd DEF EndOK
<1>5. TimesOK'
  <2>1. ASSUME NEW name \in {"iat", "nbf"}, name \in DOMAIN b
        PROVE  b[name].of \in Int /\ (b[name].of <= now \/ NotLater(b[name].of, claims, name))
    BY <1>2, <2>1, GeneratedTimes
  <2> HIDE DEF b
  <2> QED
    BY <1>3, <2>1 DEF TimesOK, NotLater
<1>6. IssuerIs'
  <2>1. claimCfg.issuer # Unset =>
          \/ "iss" \in DOMAIN b /\ b["iss"] = Text(claimCfg.issuer)
          \/ "iss" \in DOMAIN claims /\ claims["iss"] # Text(claimCfg.issuer)
    BY <1>2, GeneratedIssuer
  <2> HIDE DEF b
  <2> QED
    BY <1>1, <1>3, <2>1 DEF IssuerIs
<1>7. AudienceIs'
  <2>1. claimCfg.audience # Unset =>
          \/ "aud" \in DOMAIN b /\ b["aud"] = List(<<claimCfg.audience>>)
          \/ /\ "aud" \in DOMAIN claims
             /\ claims["aud"] \notin {Text(claimCfg.audience), List(<<claimCfg.audience>>)}
    BY <1>2, GeneratedAudience
  <2> HIDE DEF b
  <2> QED
    BY <1>1, <1>3, <2>1 DEF AudienceIs
<1>8. Identity(b) = Identity(claims)
  BY <1>2, GeneratedIdentity
<1>9. TokenOK'
  <2> HIDE DEF b
  <2> QED
    BY <1>1, <1>3, <1>4, <1>5, <1>6, <1>7, <1>8 DEF TokenOK, Identity
<1>10. ValidatedOK'
  BY <1>1 DEF ValidatedOK, OwnTokensAccepted, NotAsked, Rejected
<1> QED
  BY <1>1, <1>2, <1>3, <1>9, <1>10 DEF ClaimsInv

\* Validate: what is refused is late, of another key, or at odds with the store.
LEMMA ValidateStep ==
    ASSUME ClaimsInv, Validate
    PROVE  ClaimsInv'
<1> DEFINE verdict == Verifies(token) /\ Timely(token) /\ IssuerOK(token) /\ AudienceOK(token)
<1>1. /\ token # NoToken
      /\ validated' = IF verdict THEN [is |-> "accepted", claims |-> TokenToMap(token)] ELSE Rejected
      /\ claimCfg' = claimCfg /\ keySet' = keySet /\ now' = now
      /\ token' = token /\ made' = made
  BY DEF Validate
<1>2. CASE verdict
  <2>1. validated' # Rejected /\ validated'.is = "accepted" /\ validated'.claims = TokenToMap(token)
    BY <1>1, <1>2 DEF Rejected
  <2> QED
    BY <1>1, <1>2, <2>1
       DEF ClaimsInv, ValidatedOK, OwnTokensAccepted, TokenOK, EndOK, TimesOK, IssuerIs,
           AudienceIs, Timely
<1>3. CASE ~verdict
  <2>1. validated' = Rejected /\ validated'.is # "accepted"
    BY <1>1, <1>3 DEF Rejected
  <2>2. Late \/ keySet = <<>> \/ token.key # Head(keySet) \/ Foreign(made.claims)
    BY <1>1, <1>3, OwnAccepted
  <2>3. OwnTokensAccepted'
    BY <1>1, <2>2 DEF OwnTokensAccepted, Late, Foreign
  <2> QED
    BY <1>1, <2>1, <2>3
       DEF ClaimsInv, ValidatedOK, TokenOK, EndOK, TimesOK, IssuerIs, AudienceIs
<1> QED
  BY <1>2, <1>3

\* The other steps.
LEMMA OtherClaimsSteps ==
    ASSUME ClaimsInv,
           \/ ChangeKeys \/ ClaimsTick
           \/ \E cfg \in TokenConfigs, key \in SigningKeys : NewTokenStore(cfg, key)
    PROVE  ClaimsInv'
<1>1. CASE ChangeKeys \/ ClaimsTick
  <2>1. /\ claimCfg' = claimCfg /\ token' = token /\ made' = made /\ validated' = NotAsked
        /\ now' = now \/ now' = now + 1
    BY <1>1 DEF ChangeKeys, ClaimsTick
  <2>2. TokenOK'
    BY <2>1 DEF ClaimsInv, TokenOK, EndOK, TimesOK, IssuerIs, AudienceIs
  <2>3. ValidatedOK'
    BY <2>1 DEF ValidatedOK, OwnTokensAccepted, NotAsked, Rejected
  <2> QED
    BY <2>1, <2>2, <2>3 DEF ClaimsInv
<1>2. ASSUME NEW cfg \in TokenConfigs, NEW key \in SigningKeys, NewTokenStore(cfg, key)
      PROVE  ClaimsInv'
  <2>1. claimCfg = NotBuilt /\ UNCHANGED <<now, token, validated, made>>
    BY <1>2 DEF NewTokenStore
  <2>2. token = NoToken
    BY <2>1 DEF ClaimsInv, TokenOK, NotBuilt
  <2>3. validated = NotAsked
    BY <2>2 DEF ClaimsInv, ValidatedOK
  <2>4. TokenOK' /\ ValidatedOK'
    BY <2>1, <2>2, <2>3 DEF TokenOK, ValidatedOK, OwnTokensAccepted, NotAsked, Rejected
  <2> QED
    BY <2>1, <2>4 DEF ClaimsInv
<1> QED
  BY <1>1, <1>2

\* Nothing was generated at the start.
LEMMA ClaimsStart == ClaimsInit => ClaimsInv
  BY DEF ClaimsInit, ClaimsInv, TokenOK, ValidatedOK, OwnTokensAccepted, NotAsked, Rejected

\* The invariant holds in every state.
THEOREM ClaimsInvariance == ClaimsSpec => []ClaimsInv
<1>1. ASSUME ClaimsInv, ClaimsNext PROVE ClaimsInv'
  <2>1. ASSUME NEW refresh \in BOOLEAN, NEW ttl \in TokenTTLs, Generate(refresh, ttl)
        PROVE  ClaimsInv'
    <3>1. PICK claims \in CallerClaims : Generated(claims, refresh, ttl, FALSE)
      BY <2>1 DEF Generate
    <3>2. Timed(claims)
      BY CallerClaimsAssumption DEF Timed
    <3> QED
      BY <1>1, <3>1, <3>2, GeneratedStep
  <2>2. ASSUME NEW refresh \in BOOLEAN, NEW ttl \in TokenTTLs, Regenerate(refresh, ttl)
        PROVE  ClaimsInv'
    <3>1. validated.is = "accepted" /\ Generated(validated.claims, refresh, ttl, TRUE)
      BY <2>2 DEF Regenerate
    <3>2. Timed(validated.claims)
      BY <1>1, <3>1, ValidatedTimed
    <3> QED
      BY <1>1, <3>1, <3>2, GeneratedStep
  <2> QED
    BY <1>1, <2>1, <2>2, ValidateStep, OtherClaimsSteps DEF ClaimsNext
<1>2. ASSUME ClaimsInv, UNCHANGED tokenVars PROVE ClaimsInv'
  BY <1>2 DEF tokenVars, ClaimsInv, TokenOK, ValidatedOK, OwnTokensAccepted, EndOK, TimesOK,
              IssuerIs, AudienceIs, Timely, Foreign
<1>3. ClaimsInv /\ [ClaimsNext]_tokenVars => ClaimsInv'
  BY <1>1, <1>2
<1> QED
  BY <1>3, ClaimsStart, PTL DEF ClaimsSpec

\* The store refuses no token of its own in time: for all claims, configurations
\* and ttls, through any number of refreshes and changes of keys.
THEOREM OwnTokensAcceptedHolds == ClaimsSpec => []OwnTokensAccepted
<1>1. ClaimsInv => OwnTokensAccepted
  BY DEF ClaimsInv, ValidatedOK
<1> QED
  BY <1>1, ClaimsInvariance, PTL

\* No token is accepted when its ttl is over, whatever exp its claims had.
THEOREM EndsInTimeHolds == ClaimsSpec => []EndsInTime
<1>1. ASSUME ClaimsInv, validated.is = "accepted", made.ttl > 0
      PROVE  now < made.at + made.ttl
  <2>1. token # NoToken /\ Timely(token)
    BY <1>1 DEF ClaimsInv, ValidatedOK, NotAsked
  <2>2. "exp" \in DOMAIN token.claims /\ token.claims["exp"].of = WholeSecond(made.at + made.ttl)
    BY <1>1, <2>1 DEF ClaimsInv, TokenOK, EndOK
  <2>3. now < WholeSecond(made.at + made.ttl)
    BY <2>1, <2>2 DEF Timely
  <2>4. /\ WholeSecond(made.at + made.ttl) \in Int
        /\ WholeSecond(made.at + made.ttl) <= made.at + made.ttl
    BY <1>1, WholeSecondIs DEF ClaimsInv
  <2> QED
    BY <1>1, <2>3, <2>4 DEF ClaimsInv
<1>2. ClaimsInv => EndsInTime
  BY <1>1 DEF EndsInTime
<1> QED
  BY <1>2, ClaimsInvariance, PTL

\* Subject, token id and session of what is accepted are those of the claims.
THEOREM IdentityKeptHolds == ClaimsSpec => []IdentityKept
<1>1. ASSUME ClaimsInv, validated.is = "accepted"
      PROVE  Identity(validated.claims) = Identity(made.claims)
  <2>1. validated.claims = TokenToMap(token) /\ Identity(token.claims) = Identity(made.claims)
    BY <1>1 DEF ClaimsInv, ValidatedOK, TokenOK, NotAsked
  <2>2. DOMAIN validated.claims = DOMAIN token.claims
    BY <2>1 DEF TokenToMap
  <2>3. ASSUME NEW n \in {"sub", "jti", "sid"}, n \in DOMAIN token.claims
        PROVE  validated.claims[n] = token.claims[n]
    BY <2>1, <2>3 DEF TokenToMap, OutOfToken, TimeClaims
  <2>4. {n \in {"sub", "jti", "sid"} \cap DOMAIN validated.claims : validated.claims[n].type = "text"}
          = {n \in {"sub", "jti", "sid"} \cap DOMAIN token.claims : token.claims[n].type = "text"}
    BY <2>2, <2>3
  <2>5. Identity(validated.claims) = Identity(token.claims)
    BY <2>3, <2>4 DEF Identity
  <2> QED
    BY <2>1, <2>5
<1>2. ClaimsInv => IdentityKept
  BY <1>1 DEF IdentityKept
<1> QED
  BY <1>2, ClaimsInvariance, PTL

-----------------------------------------------------------------------------
(* Revocation.                                                              *)

USE DEF Absent, Forever

-----------------------------------------------------------------------------
(* Types.                                                                   *)

\* A token's names are names of the storage.
LEMMA NamesOfToken ==
    ASSUME NEW t \in Tokens
    PROVE  /\ TokenName(t) \in NamesOf(t)
           /\ HasSession(t) => SessionName(t) \in NamesOf(t)
           /\ NamesOf(t) \subseteq Names
BY DEF Names, NamesOf

\* calculateTTL gives a TTL within the horizon.
LEMMA CalculateTTLType ==
    ASSUME NEW t \in Tokens, life \in [Tokens -> Times]
    PROVE  CalculateTTL(t) \in 0 .. Horizon
BY HorizonAssumption DEF Times, CalculateTTL

\* What Set does to the storage.
LEMMA PutEffect ==
    ASSUME storage \in [Names -> Times],
           NEW name \in Names, NEW ttl \in 0 .. Horizon, Put(name, ttl)
    PROVE  /\ storage' \in [Names -> Times]
           /\ storage'[name] = IF ttl = 0 THEN Forever ELSE ttl
           /\ \A n \in Names : n # name => storage'[n] = storage[n]
<1>1. (IF ttl = 0 THEN Forever ELSE ttl) \in Times
    BY HorizonAssumption DEF Times
<1> QED BY <1>1 DEF Put

\* The name and the TTL that a caller is about to set.
LEMMA InHand ==
    ASSUME TypeOK, NEW c \in Callers, Setting(c)
    PROVE  /\ call[c].t \in Tokens
           /\ NameInHand(c) \in NamesOf(call[c].t)
           /\ NameInHand(c) \in Names
           /\ call[c].ttl \in 0 .. Horizon
<1>1. /\ call[c] \in Calls
      /\ call[c].pc # "idle" => call[c].t \in Tokens
      /\ call[c].pc = "setSession" => HasSession(call[c].t)
    BY DEF TypeOK
<1>2. call[c].t \in Tokens /\ call[c].ttl \in 0 .. Horizon
    BY <1>1 DEF Setting, Calls
<1>3. NameInHand(c) \in NamesOf(call[c].t)
    BY <1>1, <1>2, NamesOfToken DEF Setting, NameInHand
<1> QED BY <1>2, <1>3, NamesOfToken

\* A call of caller c that Set is done for.
Writes(c) == Setting(c) /\ Put(NameInHand(c), call[c].ttl)

\* Every step leaves storage and lives alone, is one Set, or is a tick.
LEMMA StorageStep ==
    ASSUME [Next]_vars
    PROVE  \/ Tick
           \/ UNCHANGED <<storage, life>>
           \/ UNCHANGED life /\ \E c \in Callers : Writes(c)
<1>1. CASE UNCHANGED vars BY <1>1 DEF vars
<1>2. CASE Tick BY <1>2
<1>3. ASSUME NEW c \in Callers, NEW t \in Tokens, Revoke(c, t) \/ IsRevoked(c, t)
      PROVE  UNCHANGED <<storage, life>>
    BY <1>3 DEF Revoke, IsRevoked
<1>4. ASSUME NEW c \in Callers,
             GetSession(c) \/ GetToken(c) \/ GetFails(c) \/ Crash(c)
      PROVE  UNCHANGED <<storage, life>>
    BY <1>4 DEF GetSession, GetToken, GetFails, Crash
<1>5. ASSUME NEW c \in Callers, SetToken(c) \/ SetSession(c) \/ SetRepeats(c)
      PROVE  UNCHANGED life /\ Writes(c)
    BY <1>5 DEF SetToken, SetSession, SetRepeats, Writes, Setting, NameInHand
<1>6. ASSUME NEW c \in Callers, SetFails(c)
      PROVE  UNCHANGED life /\ (UNCHANGED storage \/ Writes(c))
    BY <1>6 DEF SetFails, Writes
<1> QED BY <1>1, <1>2, <1>3, <1>4, <1>5, <1>6 DEF Next

LEMMA StorageTypes ==
    ASSUME TypeOK, [Next]_vars
    PROVE  storage' \in [Names -> Times] /\ life' \in [Tokens -> Times]
<1>0. storage \in [Names -> Times] /\ life \in [Tokens -> Times]
    BY DEF TypeOK
<1>1. CASE Tick
    <2>1. \A i \in Times : Less(i) \in Times
        BY HorizonAssumption DEF Times, Less
    <2> QED BY <1>0, <1>1, <2>1 DEF Tick
<1>2. CASE UNCHANGED <<storage, life>> BY <1>0, <1>2
<1>3. CASE UNCHANGED life /\ \E c \in Callers : Writes(c)
    <2>1. PICK c \in Callers : Writes(c) BY <1>3
    <2>2. /\ NameInHand(c) \in Names
          /\ call[c].ttl \in 0 .. Horizon
        BY <2>1, InHand DEF Writes
    <2> QED BY <1>0, <1>3, <2>1, <2>2, PutEffect DEF Writes
<1> QED BY <1>1, <1>2, <1>3, StorageStep

\* A call that has ended, or goes on with a token.
CallOK(k) ==
    /\ k \in Calls
    /\ k.pc # "idle" => k.t \in Tokens
    /\ k.pc \in {"setSession", "getSession"} => HasSession(k.t)

CallsOK ==
    /\ call \in [Callers -> Calls]
    /\ \A c \in Callers : CallOK(call[c])
    /\ reply \in Replies
    /\ begun \subseteq Tokens
    /\ revoked \subseteq Tokens

\* Every step gives at most one caller a new call, and replies and histories
\* keep their types.
LEMMA CallTypes ==
    ASSUME TypeOK, [Next]_vars
    PROVE  CallsOK'
<1> USE HorizonAssumption DEF CallsOK
<1>0. /\ call \in [Callers -> Calls]
      /\ \A c \in Callers : CallOK(call[c])
      /\ reply \in Replies
      /\ begun \subseteq Tokens
      /\ revoked \subseteq Tokens
      /\ life \in [Tokens -> Times]
    BY DEF TypeOK, CallOK
<1>1. CallOK(Idle) /\ NoReply \in Replies
    BY DEF CallOK, Idle, NoReply, Calls, Replies
<1>2. ASSUME NEW c \in Callers, NEW k, CallOK(k), call' = [call EXCEPT ![c] = k]
      PROVE  call' \in [Callers -> Calls] /\ \A d \in Callers : CallOK(call'[d])
    BY <1>0, <1>2 DEF CallOK
<1>3. ASSUME NEW c \in Callers, call[c].pc # "idle"
      PROVE  call[c].t \in Tokens /\ call[c].by \subseteq Tokens
    BY <1>0, <1>3 DEF CallOK, Calls
<1>4. ASSUME NEW c \in Callers, NEW r \in {"revoked", "valid", "error"},
             call[c].pc # "idle", Answer(c, r)
      PROVE  /\ call' \in [Callers -> Calls]
             /\ \A d \in Callers : CallOK(call'[d])
             /\ reply' \in Replies
    <2>1. reply' \in Replies BY <1>3, <1>4 DEF Answer, Replies
    <2> QED BY <1>1, <1>2, <1>4, <2>1 DEF Answer, Done
<1>5. CASE UNCHANGED vars \/ Tick
    BY <1>0, <1>1, <1>5 DEF vars, Tick
<1>6. ASSUME NEW c \in Callers, NEW t \in Tokens, Revoke(c, t)
      PROVE  CallsOK'
    <2> DEFINE k == [pc |-> "setToken", t |-> t, ttl |-> CalculateTTL(t), by |-> {}]
    <2>1. CallOK(k) BY <1>0, CalculateTTLType DEF CallOK, Calls
    <2>2. call' = [call EXCEPT ![c] = k] BY <1>6 DEF Revoke
    <2> HIDE DEF k
    <2> QED BY <1>0, <1>1, <1>2, <1>6, <2>1, <2>2 DEF Revoke
<1>7. ASSUME NEW c \in Callers, NEW t \in Tokens, IsRevoked(c, t)
      PROVE  CallsOK'
    <2> DEFINE k == [pc |-> IF HasSession(t) THEN "getSession" ELSE "getToken",
                     t |-> t, ttl |-> 0, by |-> {u \in revoked : Covers(u, t)}]
    <2>0. {u \in revoked : Covers(u, t)} \subseteq Tokens BY <1>0
    <2>1. CallOK(k) BY <2>0 DEF CallOK, Calls
    <2>2. call' = [call EXCEPT ![c] = k] BY <1>7 DEF IsRevoked
    <2> HIDE DEF k
    <2> QED BY <1>0, <1>1, <1>2, <1>7, <2>1, <2>2 DEF IsRevoked
<1>8. ASSUME NEW c \in Callers, SetToken(c)
      PROVE  CallsOK'
    <2> DEFINE t == call[c].t
               k == [pc |-> "setSession", t |-> t, ttl |-> CalculateTTL(t), by |-> {}]
    <2>0. t \in Tokens BY <1>3, <1>8 DEF SetToken
    <2>1. HasSession(t) => CallOK(k) BY <1>0, <2>0, CalculateTTLType DEF CallOK, Calls
    <2>2. \/ call' = [call EXCEPT ![c] = Idle] /\ revoked' = revoked \cup {t}
          \/ HasSession(t) /\ call' = [call EXCEPT ![c] = k] /\ UNCHANGED revoked
        BY <1>8 DEF SetToken, Done
    <2>3. reply' = NoReply /\ UNCHANGED begun BY <1>8 DEF SetToken
    <2> HIDE DEF k, t
    <2> QED BY <1>0, <1>1, <1>2, <2>0, <2>1, <2>2, <2>3
<1>9. ASSUME NEW c \in Callers, SetSession(c)
      PROVE  CallsOK'
    <2>1. call[c].t \in Tokens BY <1>3, <1>9 DEF SetSession
    <2> QED BY <1>0, <1>1, <1>2, <1>9, <2>1 DEF SetSession, Done
<1>10. ASSUME NEW c \in Callers, GetSession(c)
      PROVE  CallsOK'
    <2>1. UNCHANGED <<begun, revoked>> /\ call[c].pc # "idle" BY <1>10 DEF GetSession
    <2>2. CASE Answer(c, "revoked") BY <1>0, <1>4, <2>1, <2>2
    <2>3. CASE call' = [call EXCEPT ![c].pc = "getToken"] /\ reply' = NoReply
        <3> DEFINE k == [call[c] EXCEPT !.pc = "getToken"]
        <3>1. CallOK(k) BY <1>0, <1>3, <2>1 DEF CallOK, Calls
        <3>2. call' = [call EXCEPT ![c] = k] BY <1>0, <2>3
        <3> HIDE DEF k
        <3> QED BY <1>0, <1>1, <1>2, <2>1, <2>3, <3>1, <3>2
    <2> QED BY <1>10, <2>2, <2>3 DEF GetSession
<1>11. ASSUME NEW c \in Callers, GetToken(c) \/ GetFails(c)
      PROVE  CallsOK'
    <2>1. UNCHANGED <<begun, revoked>> /\ call[c].pc # "idle"
        BY <1>11 DEF GetToken, GetFails
    <2>2. \E r \in {"revoked", "valid", "error"} : Answer(c, r)
        BY <1>11 DEF GetToken, GetFails
    <2> QED BY <1>0, <1>4, <2>1, <2>2
<1>12. ASSUME NEW c \in Callers, SetFails(c) \/ SetRepeats(c) \/ Crash(c)
      PROVE  CallsOK'
    <2>1. /\ reply' = NoReply
          /\ UNCHANGED <<begun, revoked>>
          /\ call' = [call EXCEPT ![c] = Idle] \/ UNCHANGED call
        BY <1>12 DEF SetFails, SetRepeats, Crash, Done
    <2> QED BY <1>0, <1>1, <1>2, <2>1
<1> QED BY <1>5, <1>6, <1>7, <1>8, <1>9, <1>10, <1>11, <1>12 DEF Next

LEMMA TypeStep == TypeOK /\ [Next]_vars => TypeOK'
BY StorageTypes, CallTypes DEF TypeOK, CallsOK, CallOK, HasSession

LEMMA TypeInit == Init => TypeOK
<1> SUFFICES ASSUME Init PROVE TypeOK
    OBVIOUS
<1>1. Absent \in Times /\ Forever \in Times /\ \A t \in Tokens : t.exp # None => t.exp \in Times
    BY HorizonAssumption, TokensAssumption DEF Times
<1>2. Idle \in Calls /\ NoReply \in Replies
    BY HorizonAssumption DEF Idle, NoReply, Calls, Replies
<1>3. storage \in [Names -> Times] /\ life \in [Tokens -> Times]
    BY <1>1 DEF Init
<1>4. call \in [Callers -> Calls] /\ \A c \in Callers : call[c].pc = "idle"
    BY <1>2 DEF Init, Idle
<1> QED BY <1>2, <1>3, <1>4 DEF Init, TypeOK

\* The variables of TokenRevocation keep their types, whatever fails: every
\* TTL and every life is between 0 and the horizon, or endless.
THEOREM TypeCorrectness == Spec => []TypeOK
BY TypeInit, TypeStep, PTL DEF Spec
-----------------------------------------------------------------------------
(* A revocation lasts.                                                      *)

\* Tokens with one exp have one life.
LivesAgree == \A t, u \in Tokens : t.exp = u.exp => life[t] = life[u]

\* The TTL in a caller's hand is at least the life of its token.
CallTTL(c) ==
    Setting(c) =>
        IF call[c].ttl = 0
          THEN life[call[c].t] \in {0, Forever}
          ELSE life[call[c].t] # Forever /\ call[c].ttl >= life[call[c].t]

\* The entry stays at least as long as the token lives.
Lasts(n, u) ==
    Alive(u) => \/ storage[n] = Forever
                \/ life[u] > 0 /\ storage[n] >= life[u]

\* What an invariant of RevocationLasts has to say of a caller: the entry of
\* a token lasts when its session's is about to be set; IsRevoked knows only
\* tokens that were revoked and share an entry; and once it has missed the
\* session's entry, only its own token can be alive.
CallerInv(c) ==
    /\ CallTTL(c)
    /\ call[c].pc = "setSession" => Lasts(TokenName(call[c].t), call[c].t)
    /\ call[c].pc \in {"getSession", "getToken"} =>
         \A u \in call[c].by : u \in revoked /\ Covers(u, call[c].t)
    /\ call[c].pc = "getToken" =>
         \A u \in call[c].by : u = call[c].t \/ ~Alive(u)

LastingInv ==
    /\ LivesAgree
    /\ \A u \in revoked : \A n \in NamesOf(u) : Lasts(n, u)
    /\ \A c \in Callers : CallerInv(c)
    /\ RevocationLasts

\* A Set whose TTL is enough for its token is enough for every token of the
\* name it sets.
LEMMA WrittenLasts ==
    ASSUME EntriesAgree, TypeOK, LivesAgree, UNCHANGED life,
           NEW c \in Callers, Writes(c), CallTTL(c),
           NEW u \in Tokens, NEW n \in NamesOf(u), n = NameInHand(c)
    PROVE  Lasts(n, u)'
<1> DEFINE t == call[c].t
           ttl == call[c].ttl
<1>1. t \in Tokens /\ n \in NamesOf(t) /\ n \in Names /\ ttl \in 0 .. Horizon
    BY InHand DEF Writes
<1>2. life[u] = life[t]
    BY <1>1 DEF EntriesAgree, LivesAgree
<1>3. storage'[n] = IF ttl = 0 THEN Forever ELSE ttl
    BY <1>1, PutEffect DEF Writes, TypeOK
<1>4. IF ttl = 0 THEN life[t] \in {0, Forever}
                 ELSE life[t] # Forever /\ ttl >= life[t]
    BY DEF CallTTL, Writes
<1>5. life[u] \in Times
    BY DEF TypeOK
<1> HIDE DEF t, ttl
<1> QED BY <1>1, <1>2, <1>3, <1>4, <1>5, HorizonAssumption DEF Lasts, Alive, Times

\* An entry that lasts as long as a token goes on to do so.
LEMMA LastsStep ==
    ASSUME EntriesAgree, TypeOK, LivesAgree, [Next]_vars,
           \A c \in Callers : CallTTL(c),
           NEW u \in Tokens, NEW n \in NamesOf(u), Lasts(n, u)
    PROVE  Lasts(n, u)'
<1>0. n \in Names /\ storage \in [Names -> Times] /\ life \in [Tokens -> Times]
    BY NamesOfToken DEF TypeOK
<1>1. CASE Tick
    <2>1. storage'[n] = Less(storage[n]) /\ life'[u] = Less(life[u])
        BY <1>0, <1>1 DEF Tick
    <2>2. storage[n] \in Int /\ life[u] \in Int /\ life[u] >= -1
        BY <1>0, HorizonAssumption DEF Times
    <2> QED BY <2>1, <2>2 DEF Lasts, Alive, Less
<1>2. CASE UNCHANGED <<storage, life>>
    BY <1>2 DEF Lasts, Alive
<1>3. CASE UNCHANGED life /\ \E c \in Callers : Writes(c)
    <2>1. PICK c \in Callers : Writes(c) BY <1>3
    <2>2. CASE n = NameInHand(c) BY <1>3, <2>1, <2>2, WrittenLasts
    <2>3. CASE n # NameInHand(c)
        <3>1. storage'[n] = storage[n]
            BY <1>0, <2>1, <2>3, InHand, PutEffect DEF Writes
        <3> QED BY <1>3, <3>1 DEF Lasts, Alive
    <2> QED BY <2>2, <2>3
<1> QED BY <1>1, <1>2, <1>3, StorageStep

LEMMA LivesStep == ASSUME TypeOK, LivesAgree, [Next]_vars PROVE LivesAgree'
<1>1. CASE UNCHANGED life BY <1>1 DEF LivesAgree
<1>2. CASE Tick BY <1>2 DEF Tick, LivesAgree, TypeOK
<1> QED BY <1>1, <1>2, StorageStep

\* Lives only get shorter, and a dead token stays dead.
LEMMA LifeStep ==
    ASSUME TypeOK, [Next]_vars, NEW t \in Tokens
    PROVE  /\ life[t] \in Times /\ life'[t] \in Times
           /\ life'[t] <= life[t]
           /\ life[t] \in {0, Forever} => life'[t] = life[t]
           /\ life[t] # Forever => life'[t] # Forever
<1>1. life[t] \in Times /\ life'[t] \in Times
    BY StorageTypes DEF TypeOK
<1>2. CASE UNCHANGED life BY <1>1, <1>2, HorizonAssumption DEF Times
<1>3. CASE Tick
    <2>1. life'[t] = Less(life[t]) BY <1>3 DEF Tick
    <2> QED BY <1>1, <2>1, HorizonAssumption DEF Times, Less
<1> QED BY <1>1, <1>2, <1>3, StorageStep

\* A call that a step leaves alone keeps its invariant.
LEMMA CallerKept ==
    ASSUME EntriesAgree, TypeOK, LivesAgree, [Next]_vars,
           \A c \in Callers : CallTTL(c), revoked \subseteq revoked',
           NEW c \in Callers, CallerInv(c), call'[c] = call[c]
    PROVE  CallerInv(c)'
<1>0. /\ call[c].pc # "idle" => call[c].t \in Tokens
      /\ Setting(c) => call[c].ttl \in Nat
      /\ call[c].by \subseteq Tokens
    BY InHand DEF TypeOK, Calls
<1>1. CallTTL(c)'
    <2> SUFFICES ASSUME Setting(c) PROVE CallTTL(c)'
        BY DEF CallTTL, Setting
    <2>1. call[c].t \in Tokens BY InHand
    <2>2. CallTTL(c) BY DEF CallerInv
    <2> QED BY <1>0, <2>1, <2>2, LifeStep, HorizonAssumption DEF CallTTL, Setting, Times
<1>2. (call[c].pc = "setSession" => Lasts(TokenName(call[c].t), call[c].t))'
    <2> SUFFICES ASSUME call[c].pc = "setSession"
                 PROVE  Lasts(TokenName(call[c].t), call[c].t)'
        OBVIOUS
    <2>1. PICK t \in Tokens : t = call[c].t BY <1>0
    <2>2. Lasts(TokenName(t), t) BY <2>1 DEF CallerInv
    <2>3. Lasts(TokenName(t), t)' BY <2>2, NamesOfToken, LastsStep
    <2> QED BY <2>1, <2>3 DEF Lasts, Alive
<1>3. (call[c].pc \in {"getSession", "getToken"} =>
         \A u \in call[c].by : u \in revoked /\ Covers(u, call[c].t))'
    BY DEF CallerInv
<1>4. (call[c].pc = "getToken" => \A u \in call[c].by : u = call[c].t \/ ~Alive(u))'
    BY <1>0, LifeStep DEF CallerInv, Alive
<1> QED BY <1>1, <1>2, <1>3, <1>4 DEF CallerInv

LEMMA LastingInit == Init => LastingInv
BY DEF Init, Idle, NoReply, LastingInv, LivesAgree, CallerInv, CallTTL, Setting, RevocationLasts

\* calculateTTL gives a TTL that is enough for its token.
LEMMA CalculateTTLEnough ==
    ASSUME NEW t \in Tokens, life[t] \in Times
    PROVE  IF CalculateTTL(t) = 0
             THEN life[t] \in {0, Forever}
             ELSE life[t] # Forever /\ CalculateTTL(t) >= life[t]
BY HorizonAssumption DEF CalculateTTL, Times

LEMMA LastingStep ==
    ASSUME EntriesAgree, TypeOK, LastingInv, [Next]_vars
    PROVE  LastingInv'
<1>0. /\ LivesAgree
      /\ \A c \in Callers : CallerInv(c) /\ CallTTL(c)
      /\ RevocationLasts
      /\ revoked \subseteq Tokens
      /\ life \in [Tokens -> Times]
      /\ call \in [Callers -> Calls]
      /\ \A c \in Callers : call[c].pc # "idle" => call[c].t \in Tokens
    BY DEF LastingInv, CallerInv, TypeOK
<1>1. LivesAgree' BY <1>0, LivesStep
<1>2. \A u \in revoked : \A n \in NamesOf(u) : Lasts(n, u)'
    BY <1>0, LastsStep DEF LastingInv
<1>3. ASSUME NEW c \in Callers, call'[c] = call[c], revoked \subseteq revoked'
      PROVE  CallerInv(c)'
    BY <1>0, <1>3, CallerKept
<1>4. ASSUME NEW c \in Callers, call'[c].pc = "idle"
      PROVE  CallerInv(c)'
    BY <1>4 DEF CallerInv, CallTTL, Setting
<1>5. NoReply.result # "valid" BY DEF NoReply
<1>6. ASSUME reply' = NoReply \/ (reply' = reply /\ UNCHANGED life) PROVE RevocationLasts'
    BY <1>0, <1>5, <1>6 DEF RevocationLasts, Alive
<1>7. CASE UNCHANGED vars \/ Tick
    <2>1. /\ UNCHANGED <<call, revoked>>
          /\ reply' = NoReply \/ (reply' = reply /\ UNCHANGED life)
        BY <1>7 DEF vars, Tick
    <2> QED BY <1>1, <1>2, <1>3, <1>6, <2>1 DEF LastingInv
\* Steps that end a call, or leave all calls alone, and revoke nothing.
<1>8. ASSUME NEW c \in Callers, SetFails(c) \/ SetRepeats(c) \/ Crash(c)
      PROVE  LastingInv'
    <2>1. /\ UNCHANGED revoked
          /\ reply' = NoReply
          /\ call' = [call EXCEPT ![c] = Idle] \/ UNCHANGED call
        BY <1>8 DEF SetFails, SetRepeats, Crash, Done
    <2>2. \A d \in Callers : call'[d] = call[d] \/ call'[d].pc = "idle"
        BY <1>0, <2>1 DEF Idle
    <2> QED BY <1>1, <1>2, <1>3, <1>4, <1>6, <2>1, <2>2 DEF LastingInv
<1>9. ASSUME NEW c \in Callers, NEW r, Answer(c, r), UNCHANGED <<life, revoked>>,
             r = "valid" => \A u \in call[c].by : ~Alive(u)
      PROVE  LastingInv'
    <2>1. \A d \in Callers : call'[d] = call[d] \/ call'[d].pc = "idle"
        BY <1>0, <1>9 DEF Answer, Done, Idle
    <2>2. RevocationLasts' BY <1>9 DEF Answer, RevocationLasts, Alive
    <2> QED BY <1>1, <1>2, <1>3, <1>4, <1>9, <2>1, <2>2 DEF LastingInv
<1>10. ASSUME NEW c \in Callers, NEW t \in Tokens, Revoke(c, t)
      PROVE  LastingInv'
    <2>1. /\ UNCHANGED <<life, revoked>> /\ reply' = NoReply
          /\ call'[c] = [pc |-> "setToken", t |-> t, ttl |-> CalculateTTL(t), by |-> {}]
          /\ \A d \in Callers : d # c => call'[d] = call[d]
        BY <1>0, <1>10 DEF Revoke
    <2>2. CallerInv(c)'
        BY <1>0, <2>1, CalculateTTLEnough DEF CallerInv, CallTTL, Setting
    <2> QED BY <1>1, <1>2, <1>3, <1>6, <2>1, <2>2 DEF LastingInv
<1>11. ASSUME NEW c \in Callers, NEW t \in Tokens, IsRevoked(c, t)
      PROVE  LastingInv'
    <2>1. /\ UNCHANGED revoked /\ reply' = NoReply
          /\ call'[c] = [pc |-> IF HasSession(t) THEN "getSession" ELSE "getToken",
                         t |-> t, ttl |-> 0, by |-> {u \in revoked : Covers(u, t)}]
          /\ \A d \in Callers : d # c => call'[d] = call[d]
        BY <1>0, <1>11 DEF IsRevoked
    <2>2. ~HasSession(t) => \A u \in revoked : Covers(u, t) => u = t
        BY DEF Covers, SameSession, HasSession
    <2>3. CallerInv(c)'
        BY <2>1, <2>2 DEF CallerInv, CallTTL, Setting
    <2> QED BY <1>1, <1>2, <1>3, <1>6, <2>1, <2>3 DEF LastingInv
<1>12. ASSUME NEW c \in Callers, SetToken(c)
      PROVE  LastingInv'
    <2>1. PICK t \in Tokens : t = call[c].t BY <1>0, <1>12 DEF SetToken
    <2>2. Writes(c) /\ NameInHand(c) = TokenName(t) /\ UNCHANGED life /\ reply' = NoReply
        BY <1>12, <2>1 DEF SetToken, Writes, Setting, NameInHand
    <2>3. Lasts(TokenName(t), t)'
        BY <1>0, <2>1, <2>2, NamesOfToken, WrittenLasts
    <2>4. CASE HasSession(t)
        <3>1. /\ UNCHANGED revoked
              /\ call'[c] = [pc |-> "setSession", t |-> t, ttl |-> CalculateTTL(t), by |-> {}]
              /\ \A d \in Callers : d # c => call'[d] = call[d]
            BY <1>0, <1>12, <2>1, <2>4 DEF SetToken
        <3>2. CallTTL(c)'
            BY <1>0, <2>2, <3>1, CalculateTTLEnough DEF CallTTL, Setting
        <3>3. Lasts(TokenName(call[c].t), call[c].t)'
            BY <2>3, <3>1 DEF Lasts, Alive
        <3>4. CallerInv(c)' BY <3>1, <3>2, <3>3 DEF CallerInv
        <3> QED BY <1>1, <1>2, <1>3, <1>6, <2>2, <3>1, <3>4 DEF LastingInv
    <2>5. CASE ~HasSession(t)
        <3>1. /\ revoked' = revoked \cup {t}
              /\ \A d \in Callers : call'[d] = call[d] \/ call'[d].pc = "idle"
            BY <1>0, <1>12, <2>1, <2>5 DEF SetToken, Done, Idle
        <3>2. \A n \in NamesOf(t) : Lasts(n, t)' BY <2>3, <2>5 DEF NamesOf
        <3> QED BY <1>1, <1>2, <1>3, <1>4, <1>6, <2>2, <3>1, <3>2 DEF LastingInv
    <2> QED BY <2>4, <2>5
<1>13. ASSUME NEW c \in Callers, SetSession(c)
      PROVE  LastingInv'
    <2>1. PICK t \in Tokens : t = call[c].t BY <1>0, <1>13 DEF SetSession
    <2>2. /\ Writes(c) /\ NameInHand(c) = SessionName(t)
          /\ UNCHANGED life /\ reply' = NoReply
          /\ revoked' = revoked \cup {t}
          /\ \A d \in Callers : call'[d] = call[d] \/ call'[d].pc = "idle"
        BY <1>0, <1>13, <2>1 DEF SetSession, Writes, Setting, NameInHand, Done, Idle
    <2>3. HasSession(t) BY <1>13, <2>1 DEF SetSession, TypeOK
    <2>4. Lasts(SessionName(t), t)'
        BY <1>0, <2>1, <2>2, <2>3, NamesOfToken, WrittenLasts
    <2>5. Lasts(TokenName(t), t) BY <1>0, <1>13, <2>1 DEF SetSession, CallerInv
    <2>6. Lasts(TokenName(t), t)' BY <1>0, <2>5, NamesOfToken, LastsStep
    <2>7. \A n \in NamesOf(t) : Lasts(n, t)' BY <2>4, <2>6 DEF NamesOf
    <2> QED BY <1>1, <1>2, <1>3, <1>4, <1>6, <2>2, <2>7 DEF LastingInv
<1>14. ASSUME NEW c \in Callers, GetSession(c)
      PROVE  LastingInv'
    <2>1. UNCHANGED <<storage, life, revoked>> /\ call[c].pc = "getSession"
        BY <1>14 DEF GetSession
    <2>2. CASE Present(SessionName(call[c].t))
        BY <1>9, <1>14, <2>1, <2>2 DEF GetSession
    <2>3. CASE ~Present(SessionName(call[c].t))
        <3>1. /\ reply' = NoReply
              /\ call'[c] = [call[c] EXCEPT !.pc = "getToken"]
              /\ \A d \in Callers : d # c => call'[d] = call[d]
            BY <1>0, <1>14, <2>3 DEF GetSession
        <3>2. /\ call'[c].pc = "getToken"
              /\ call'[c].t = call[c].t /\ call'[c].by = call[c].by
            BY <1>0, <3>1 DEF Calls
        <3>3. ASSUME NEW u \in call[c].by PROVE u = call[c].t \/ ~Alive(u)
            <4> SUFFICES ASSUME u # call[c].t, Alive(u) PROVE FALSE
                OBVIOUS
            <4>1. u \in revoked /\ Covers(u, call[c].t)
                BY <1>0, <2>1 DEF CallerInv
            <4>2. HasSession(u) /\ SessionName(u) = SessionName(call[c].t)
                BY <4>1 DEF Covers, SameSession, SessionName
            <4>3. Lasts(SessionName(u), u)
                BY <1>0, <4>1, <4>2, NamesOfToken DEF LastingInv
            <4>4. life[u] \in Int
                BY <1>0, <4>1, HorizonAssumption DEF Times
            <4> QED BY <2>3, <4>2, <4>3, <4>4 DEF Lasts, Present
        <3>4. CallerInv(c)'
            BY <1>0, <2>1, <3>2, <3>3 DEF CallerInv, CallTTL, Setting, Alive
        <3> QED BY <1>1, <1>2, <1>3, <1>6, <2>1, <3>1, <3>4 DEF LastingInv
    <2> QED BY <2>2, <2>3
<1>15. ASSUME NEW c \in Callers, GetToken(c)
      PROVE  LastingInv'
    <2>1. UNCHANGED <<storage, life, revoked>> /\ call[c].pc = "getToken"
        BY <1>15 DEF GetToken
    <2>2. ASSUME ~Present(TokenName(call[c].t)), NEW u \in call[c].by PROVE ~Alive(u)
        <3> SUFFICES ASSUME Alive(u) PROVE FALSE
            OBVIOUS
        <3>1. u = call[c].t /\ u \in revoked
            BY <1>0, <2>1 DEF CallerInv
        <3>2. Lasts(TokenName(u), u)
            BY <1>0, <3>1, NamesOfToken DEF LastingInv
        <3>3. life[u] \in Int
            BY <1>0, <3>1, HorizonAssumption DEF Times
        <3> QED BY <2>2, <3>1, <3>2, <3>3 DEF Lasts, Present
    <2>3. PICK r : Answer(c, r) /\ (r = "valid" => ~Present(TokenName(call[c].t)))
        BY <1>15 DEF GetToken
    <2> QED BY <1>9, <2>1, <2>2, <2>3
<1>16. ASSUME NEW c \in Callers, GetFails(c)
      PROVE  LastingInv'
    BY <1>9, <1>16 DEF GetFails
<1> QED
    BY <1>7, <1>8, <1>10, <1>11, <1>12, <1>13, <1>14, <1>15, <1>16 DEF Next

\* Where tokens that share an entry expire together, a token that Revoke was
\* done for, and its session, are never said to be valid before they expire,
\* however calls interleave and whatever fails.  (Without that, Revoke of one
\* token of a session can cut short what Revoke of another one did.)
THEOREM RevocationHolds ==
    ASSUME EntriesAgree
    PROVE  Spec => []RevocationLasts
<1>1. Init => TypeOK /\ LastingInv
    BY TypeInit, LastingInit
<1>2. TypeOK /\ LastingInv /\ [Next]_vars => (TypeOK /\ LastingInv)'
    BY TypeStep, LastingStep
<1>3. TypeOK /\ LastingInv => RevocationLasts
    BY DEF LastingInv
<1> QED BY <1>1, <1>2, <1>3, PTL DEF Spec
-----------------------------------------------------------------------------
(* What entries stand for.                                                  *)

\* A caller about to set an entry was asked to revoke its token; a TTL of 0 is
\* that of a token without exp, or past it.
AskedInv(c) ==
    Setting(c) => /\ call[c].t \in begun
                  /\ call[c].ttl = 0 => life[call[c].t] \in {0, Forever}

\* Every entry is one of a token somebody asked to revoke.
EntryAsked(n) == storage[n] # Absent => \E u \in begun : n \in NamesOf(u)

EternalExpired(n) ==
    storage[n] = Forever => \E u \in begun : n \in NamesOf(u) /\ life[u] \in {0, Forever}

AskedAll == \A c \in Callers : AskedInv(c)
EntriesAsked == \A n \in Names : EntryAsked(n) /\ EternalExpired(n)

LEMMA AskedStep == ASSUME TypeOK, AskedAll, [Next]_vars PROVE AskedAll'
<1>0. /\ call \in [Callers -> Calls]
      /\ life \in [Tokens -> Times]
      /\ \A c \in Callers : call[c].pc # "idle" => call[c].t \in Tokens
      /\ \A c \in Callers : AskedInv(c)
    BY DEF TypeOK, AskedAll
<1>1. ASSUME NEW c \in Callers, call'[c] = call[c], begun \subseteq begun'
      PROVE  AskedInv(c)'
    <2> SUFFICES ASSUME Setting(c) PROVE AskedInv(c)'
        BY <1>1 DEF AskedInv, Setting
    <2>1. PICK t \in Tokens : t = call[c].t BY InHand
    <2>2. life[t] \in {0, Forever} => life'[t] = life[t] BY LifeStep
    <2> QED BY <1>0, <1>1, <2>1, <2>2 DEF AskedInv
<1>2. ASSUME NEW c \in Callers, call'[c].pc \in {"idle", "getSession", "getToken"}
      PROVE  AskedInv(c)'
    BY <1>2 DEF AskedInv, Setting
<1>3. CASE UNCHANGED vars \/ Tick
    <2>1. UNCHANGED <<call, begun>> BY <1>3 DEF vars, Tick
    <2> QED BY <1>1, <2>1 DEF AskedAll
<1>4. ASSUME NEW c \in Callers, NEW t \in Tokens, Revoke(c, t)
      PROVE  AskedAll'
    <2>1. /\ call'[c] = [pc |-> "setToken", t |-> t, ttl |-> CalculateTTL(t), by |-> {}]
          /\ \A d \in Callers : d # c => call'[d] = call[d]
          /\ begun' = begun \cup {t} /\ UNCHANGED life
        BY <1>0, <1>4 DEF Revoke
    <2>2. AskedInv(c)' BY <1>0, <2>1, CalculateTTLEnough DEF AskedInv
    <2> QED BY <1>1, <2>1, <2>2 DEF AskedAll
<1>5. ASSUME NEW c \in Callers, SetToken(c)
      PROVE  AskedAll'
    <2>1. call[c].pc = "setToken" /\ UNCHANGED <<life, begun>> BY <1>5 DEF SetToken
    <2>2. PICK t \in Tokens : t = call[c].t BY <1>0, <2>1
    <2>3. t \in begun BY <1>0, <2>1, <2>2 DEF AskedInv, Setting
    <2>4. /\ \/ call'[c] = [pc |-> "setSession", t |-> t, ttl |-> CalculateTTL(t), by |-> {}]
             \/ call'[c] = Idle
          /\ \A d \in Callers : d # c => call'[d] = call[d]
        BY <1>0, <1>5, <2>2 DEF SetToken, Done
    <2>5. AskedInv(c)'
        BY <1>0, <1>2, <2>1, <2>3, <2>4, CalculateTTLEnough DEF AskedInv, Idle
    <2> QED BY <1>1, <2>1, <2>4, <2>5 DEF AskedAll
<1>6. ASSUME NEW c \in Callers,
             \/ \E t \in Tokens : IsRevoked(c, t)
             \/ SetSession(c) \/ GetSession(c) \/ GetToken(c)
             \/ SetFails(c) \/ SetRepeats(c) \/ GetFails(c) \/ Crash(c)
      PROVE  AskedAll'
    <2>1. UNCHANGED begun
        BY <1>6 DEF IsRevoked, SetSession, GetSession, GetToken, SetFails, SetRepeats,
                    GetFails, Crash
    <2>2. \A d \in Callers : \/ call'[d] = call[d]
                             \/ call'[d].pc \in {"idle", "getSession", "getToken"}
        <3>1. CASE \E t \in Tokens : IsRevoked(c, t) BY <1>0, <3>1 DEF IsRevoked
        <3>2. CASE GetSession(c)
            BY <1>0, <3>2 DEF GetSession, Answer, Done, Idle, Calls
        <3>3. CASE \/ SetSession(c) \/ GetToken(c) \/ GetFails(c)
                   \/ SetFails(c) \/ SetRepeats(c) \/ Crash(c)
            <4>1. call' = [call EXCEPT ![c] = Idle] \/ UNCHANGED call
                BY <3>3 DEF SetSession, GetToken, GetFails, SetFails, SetRepeats, Crash,
                            Answer, Done
            <4> QED BY <1>0, <4>1 DEF Idle
        <3> QED BY <1>6, <3>1, <3>2, <3>3
    <2> QED BY <1>1, <1>2, <2>1, <2>2 DEF AskedAll
<1> QED BY <1>3, <1>4, <1>5, <1>6 DEF Next

\* No step forgets what was asked for.
LEMMA BegunGrows == [Next]_vars => begun \subseteq begun'
BY DEF Next, vars, Revoke, IsRevoked, SetToken, SetSession, GetSession, GetToken,
       SetFails, SetRepeats, GetFails, Crash, Tick

LEMMA EntriesStep ==
    ASSUME TypeOK, AskedAll, EntriesAsked, [Next]_vars
    PROVE  EntriesAsked'
<1>0. /\ storage \in [Names -> Times]
      /\ begun \subseteq Tokens
      /\ begun \subseteq begun'
    BY BegunGrows DEF TypeOK
<1>1. ASSUME NEW n \in Names,
             storage'[n] # Absent => storage[n] # Absent,
             storage'[n] = Forever => storage[n] = Forever
      PROVE  (EntryAsked(n) /\ EternalExpired(n))'
    <2>1. EntryAsked(n) /\ EternalExpired(n) BY DEF EntriesAsked
    <2>2. EntryAsked(n)' BY <1>0, <1>1, <2>1 DEF EntryAsked
    <2>3. \A u \in begun : life[u] \in {0, Forever} => life'[u] = life[u]
        BY <1>0, LifeStep
    <2>4. EternalExpired(n)' BY <1>0, <1>1, <2>1, <2>3 DEF EternalExpired
    <2> QED BY <2>2, <2>4
<1>2. CASE Tick
    <2>1. ASSUME NEW n \in Names
          PROVE  /\ storage'[n] # Absent => storage[n] # Absent
                 /\ storage'[n] = Forever => storage[n] = Forever
        <3>1. storage'[n] = Less(storage[n]) BY <1>2 DEF Tick
        <3>2. storage[n] \in Int BY <1>0, HorizonAssumption DEF Times
        <3> QED BY <3>1, <3>2 DEF Less
    <2> QED BY <1>1, <2>1 DEF EntriesAsked
<1>3. CASE UNCHANGED <<storage, life>> BY <1>1, <1>3 DEF EntriesAsked
<1>4. CASE UNCHANGED life /\ \E c \in Callers : Writes(c)
    <2>1. PICK c \in Callers : Writes(c) BY <1>4
    <2>2. PICK t \in Tokens : t = call[c].t BY <2>1, InHand DEF Writes
    <2>3. /\ t \in begun
          /\ call[c].ttl = 0 => life[t] \in {0, Forever}
        BY <2>1, <2>2 DEF AskedAll, AskedInv, Writes
    <2>4. /\ NameInHand(c) \in NamesOf(t) /\ NameInHand(c) \in Names
          /\ call[c].ttl \in 0 .. Horizon
        BY <2>1, <2>2, InHand DEF Writes
    <2>5. /\ storage'[NameInHand(c)] = IF call[c].ttl = 0 THEN Forever ELSE call[c].ttl
          /\ \A n \in Names : n # NameInHand(c) => storage'[n] = storage[n]
        BY <1>0, <2>1, <2>4, PutEffect DEF Writes
    <2>6. ASSUME NEW n \in Names, n = NameInHand(c)
          PROVE  (EntryAsked(n) /\ EternalExpired(n))'
        <3>1. t \in begun' /\ n \in NamesOf(t) BY <1>0, <2>3, <2>4, <2>6
        <3>2. storage'[n] = Forever => call[c].ttl = 0
            BY <2>4, <2>5, <2>6, HorizonAssumption
        <3> QED BY <1>4, <2>3, <3>1, <3>2 DEF EntryAsked, EternalExpired
    <2> QED BY <1>1, <2>5, <2>6 DEF EntriesAsked
<1> QED BY <1>2, <1>3, <1>4, StorageStep

LEMMA AskedInit == Init => AskedAll /\ EntriesAsked
BY DEF Init, Idle, AskedAll, AskedInv, Setting, EntriesAsked, EntryAsked, EternalExpired

\* A token that is revoked in its life leaves nothing in the storage for ever,
\* however Revokes of other tokens interleave and whatever fails.
THEOREM EternalOnlyExpiredHolds == Spec => []EternalOnlyExpired
<1>1. EntriesAsked => EternalOnlyExpired
    BY DEF EntriesAsked, EternalExpired, EternalOnlyExpired
<1>2. TypeOK /\ AskedAll /\ EntriesAsked /\ [Next]_vars => (TypeOK /\ AskedAll /\ EntriesAsked)'
    BY TypeStep, AskedStep, EntriesStep
<1>3. Init => TypeOK /\ AskedAll /\ EntriesAsked
    BY TypeInit, AskedInit
<1> QED BY <1>1, <1>2, <1>3, PTL DEF Spec

\* No claim of one kind reads like a claim of another.
ClaimsApart ==
    \A t, u \in Tokens :
        /\ t.jti # None => t.jti # u.sid /\ t.jti \notin Int
        /\ t.sid # None => t.sid \notin Int

\* Claims that cannot be mixed up give tokens an entry in common only if their
\* precedence does not tell them apart.
LEMMA TokenNamesApart ==
    ASSUME ClaimsApart, NEW t \in Tokens, NEW u \in Tokens, TokenName(t) \in NamesOf(u)
    PROVE  Alike(u, t)
<1>1. TokenKey(t) = TokenKey(u)
    BY DEF NamesOf, TokenName, SessionName
<1>2. \A v \in Tokens : v.exp = None \/ v.exp \in 1 .. Horizon
    BY TokensAssumption
<1> QED BY <1>1, <1>2, NoneAssumption, HorizonAssumption DEF ClaimsApart, TokenKey, Alike

LEMMA OnlyStep ==
    ASSUME ClaimsApart, TypeOK, EntriesAsked, OnlyRevoked, [Next]_vars
    PROVE  OnlyRevoked'
<1>0. /\ begun \subseteq Tokens /\ begun \subseteq begun'
      /\ \A c \in Callers : call[c].pc # "idle" => call[c].t \in Tokens
      /\ \A c \in Callers : call[c].pc = "getSession" => HasSession(call[c].t)
      /\ \A n \in Names : EntryAsked(n)
    BY BegunGrows DEF TypeOK, EntriesAsked
<1>1. CASE reply' = reply BY <1>0, <1>1 DEF OnlyRevoked
<1>2. CASE reply'.result # "revoked" BY <1>2 DEF OnlyRevoked
<1>3. ASSUME NEW c \in Callers, GetSession(c), reply'.result = "revoked"
      PROVE  OnlyRevoked'
    <2> DEFINE t == call[c].t
    <2>1. /\ Present(SessionName(t)) /\ reply'.t = t
          /\ t \in Tokens /\ HasSession(t)
        BY <1>0, <1>3 DEF GetSession, Answer, NoReply
    <2>2. PICK u \in begun : SessionName(t) \in NamesOf(u)
        BY <1>0, <2>1, NamesOfToken DEF Present, EntryAsked
    <2>3. SameSession(u, t)
        BY <2>1, <2>2 DEF NamesOf, SessionName, TokenName, SameSession, HasSession
    <2> QED BY <1>0, <2>1, <2>2, <2>3 DEF OnlyRevoked
<1>4. ASSUME NEW c \in Callers, GetToken(c), reply'.result = "revoked"
      PROVE  OnlyRevoked'
    <2> DEFINE t == call[c].t
    <2>1. Present(TokenName(t)) /\ reply'.t = t /\ t \in Tokens
        BY <1>0, <1>4 DEF GetToken, Answer
    <2>2. PICK u \in begun : TokenName(t) \in NamesOf(u)
        BY <1>0, <2>1, NamesOfToken DEF Present, EntryAsked
    <2>3. Alike(u, t) BY <1>0, <2>1, <2>2, TokenNamesApart
    <2> QED BY <1>0, <2>1, <2>2, <2>3 DEF OnlyRevoked
<1>5. ASSUME NEW c \in Callers,
             \/ \E t \in Tokens : Revoke(c, t) \/ IsRevoked(c, t)
             \/ SetToken(c) \/ SetSession(c) \/ SetFails(c) \/ SetRepeats(c)
             \/ GetFails(c) \/ Crash(c)
      PROVE  reply'.result # "revoked"
    BY <1>5 DEF Revoke, IsRevoked, SetToken, SetSession, SetFails, SetRepeats, GetFails,
                Crash, Answer, NoReply
<1>6. CASE UNCHANGED vars \/ Tick
    BY <1>1, <1>2, <1>6 DEF vars, Tick, NoReply
<1> QED BY <1>2, <1>3, <1>4, <1>5, <1>6 DEF Next

\* If a jti never reads like a sid, and neither like a number, a token is said
\* to be revoked only after Revoke was called for it, for a token it shares its
\* key with, or for its session.
THEOREM OnlyRevokedHolds ==
    ASSUME ClaimsApart
    PROVE  Spec => []OnlyRevoked
<1> DEFINE IInv == TypeOK /\ AskedAll /\ EntriesAsked /\ OnlyRevoked
<1>1. Init => IInv
    <2>1. Init => OnlyRevoked BY DEF Init, NoReply, OnlyRevoked
    <2> QED BY <2>1, TypeInit, AskedInit
<1>2. IInv /\ [Next]_vars => IInv'
    BY TypeStep, AskedStep, EntriesStep, OnlyStep
<1>3. IInv => OnlyRevoked
    OBVIOUS
<1> HIDE DEF IInv
<1> QED BY <1>1, <1>2, <1>3, PTL DEF Spec
=============================================================================
