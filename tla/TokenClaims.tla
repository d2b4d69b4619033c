---------------------------- MODULE TokenClaims ----------------------------
(***************************************************************************)
(* Tokens and claims of the JWT token store,                               *)
(* src/middleware/jwtauth/token_store.go: NewTokenStore, Generate and      *)
(* Validate, with the conversions between a caller's claims and a token.   *)
(*                                                                         *)
(* Claims are a function from the names that are there to tagged values:   *)
(* "text", "list" (of texts), "seconds" (a number), "time" (an instant, in *)
(* ticks) or "other".  A token has the same claims with its times in       *)
(* ticks, on whole seconds, and the key that signed it.  The caller may    *)
(* give Generate the claims that Validate returned, as a refresh does, and *)
(* changes the key set, which it shares with the store.                    *)
(***************************************************************************)
EXTENDS Clock, Sequences

CONSTANTS
    TokenConfigs,   \* what matters of Config: issuer, audience, and whether
                    \* each is validated
    CallerClaims,   \* the claims of a login
    TokenTTLs,      \* the ttls of Generate, in ticks
    SigningKeys,    \* the keys that may be in the key set
    LastInstant     \* bound: where the clock of the model stops

ASSUME InstantAssumption == LastInstant \in Nat
ASSUME TokenTTLAssumption == TokenTTLs \subseteq Int

\* A number of seconds and an instant are numbers.
ASSUME CallerClaimsAssumption ==
    \A claims \in CallerClaims : \A name \in DOMAIN claims :
      claims[name].type \in {"seconds", "time"} => claims[name].of \in Int

VARIABLES
    claimCfg,   \* the store's configuration, once NewTokenStore is done
    keySet,     \* the keys, in their order
    now,        \* the time
    token,      \* the token that was generated last
    validated,  \* what the last Validate returned
    made        \* history: what the token was generated from, and when

tokenVars == <<claimCfg, keySet, now, token, validated, made>>

\* An issuer or audience that is not configured.
Unset == ""

NotBuilt == [built |-> FALSE]
NoClaims == <<>>
NoToken == [claims |-> NoClaims, key |-> "none"]
NotAsked == [is |-> "none", claims |-> NoClaims]
Rejected == [is |-> "rejected", claims |-> NoClaims]

Text(t) == [type |-> "text", of |-> t]
List(s) == [type |-> "list", of |-> s]
Seconds(n) == [type |-> "seconds", of |-> n]
Time(n) == [type |-> "time", of |-> n]

WholeSecond(t) == (t \div Second) * Second

TimeClaims == {"exp", "iat", "nbf"}
StandardClaims == {"sub", "iss", "aud", "jti"} \cup TimeClaims

-----------------------------------------------------------------------------
(* From claims to a token.                                                  *)

\* A value of a type that Generate does not know for the claim is left out.
Fits(name, value) ==
    \/ name \in {"sub", "iss", "jti"} /\ value.type = "text"
    \/ name = "aud" /\ value.type \in {"text", "list"}
    \/ name \in {"iat", "nbf"} /\ value.type \in {"seconds", "time"}
    \/ name \notin StandardClaims

\* One audience is a list of one, and a time is cut to the second when the token
\* is written.  A private claim is one that JSON leaves as it is, as it does text;
\* of what it turns into text (an instant, a type with a name) see the README.
InToken(name, value) ==
    CASE name = "aud" /\ value.type = "text" -> List(<<value.of>>)
      [] name \in TimeClaims /\ value.type = "seconds" -> Time(value.of * Second)
      [] name \in TimeClaims /\ value.type = "time" -> Time(WholeSecond(value.of))
      [] OTHER -> value

\* The claims that go into the token as they are; exp never does.
Carried(claims) ==
    [name \in {n \in DOMAIN claims \ {"exp"} : Fits(n, claims[n])} |->
       InToken(name, claims[name])]

\* A claim that Generate adds on a condition.
Added(name, value, condition) == [n \in {m \in {name} : condition} |-> value]

\* Claims set over others.
Over(claims, others) ==
    [n \in DOMAIN claims \cup DOMAIN others |->
       IF n \in DOMAIN claims THEN claims[n] ELSE others[n]]

\* (Mutation of End: the caller's exp wins.)
EndKept(claims, ttl) ==
    IF "exp" \in DOMAIN claims
      THEN Added("exp", InToken("exp", claims["exp"]), TRUE)
      ELSE Added("exp", Time(WholeSecond(now + ttl)), ttl > 0)

\* The end of the token; without a positive ttl it has none.
End(claims, ttl) == Added("exp", Time(WholeSecond(now + ttl)), ttl > 0)

\* (Mutation of Issuing: the configured audience is forgotten.)
IssuingIssuer(claims) ==
    Added("iss", Text(claimCfg.issuer), claimCfg.issuer # Unset /\ "iss" \notin DOMAIN claims)

\* The configured issuer and audience and the time stand in for claims that the
\* caller does not name; one that it names with a wrong type is missing.
Issuing(claims) ==
    Over(Added("iss", Text(claimCfg.issuer),
               claimCfg.issuer # Unset /\ "iss" \notin DOMAIN claims),
    Over(Added("aud", List(<<claimCfg.audience>>),
               claimCfg.audience # Unset /\ "aud" \notin DOMAIN claims),
         Added("iat", Time(WholeSecond(now)), "iat" \notin DOMAIN claims)))

\* The token type is a claim of refresh tokens only; what was there stays.
TokenType(refresh) == Added("type", Text("refresh"), refresh)

Built(claims, refresh, ttl) ==
    Over(TokenType(refresh), Over(End(claims, ttl), Over(Issuing(claims), Carried(claims))))

-----------------------------------------------------------------------------
(* From a token to claims.                                                  *)

\* Times are returned as whole numbers of seconds.
OutOfToken(name, value) ==
    IF name \in TimeClaims THEN Seconds(value.of \div Second) ELSE value

\* (Mutation of TokenToMap: private claims are left out.)
TokenToMapStandard(t) ==
    [name \in DOMAIN t.claims \cap StandardClaims |-> OutOfToken(name, t.claims[name])]

\* tokenToMap: the standard claims and all others.
TokenToMap(t) == [name \in DOMAIN t.claims |-> OutOfToken(name, t.claims[name])]

\* The library's own checks of the times, which it makes whether or not
\* ValidateExpiration asks for them.
Timely(t) ==
    /\ "exp" \in DOMAIN t.claims => now < t.claims["exp"].of
    /\ "iat" \in DOMAIN t.claims => now >= t.claims["iat"].of
    /\ "nbf" \in DOMAIN t.claims => now >= t.claims["nbf"].of

IssuerOK(t) ==
    claimCfg.validateIssuer /\ claimCfg.issuer # Unset =>
      "iss" \in DOMAIN t.claims /\ t.claims["iss"] = Text(claimCfg.issuer)

AudienceOK(t) ==
    claimCfg.validateAudience /\ claimCfg.audience # Unset =>
      /\ "aud" \in DOMAIN t.claims
      /\ \E i \in DOMAIN t.claims["aud"].of : t.claims["aud"].of[i] = claimCfg.audience

\* getJWKKey(0): only ever the first key.
Verifies(t) == keySet # <<>> /\ t.key = Head(keySet)

-----------------------------------------------------------------------------
ClaimsInit ==
    /\ claimCfg = NotBuilt
    /\ keySet = <<>>
    /\ now = 0
    /\ token = NoToken
    /\ validated = NotAsked
    /\ made = [claims |-> NoClaims, at |-> 0, ttl |-> 0, refreshed |-> FALSE]

\* A missing key set, storage or key is a panic: there is no store then.
NewTokenStore(cfg, key) ==
    /\ claimCfg = NotBuilt
    /\ claimCfg' = cfg
    /\ keySet' = <<key>>
    /\ UNCHANGED <<now, token, validated, made>>

\* Generate, for given claims.  Without a key there is no token.
Generated(claims, refresh, ttl, refreshed) ==
    /\ claimCfg.built
    /\ keySet # <<>>
    /\ token' = [claims |-> Built(claims, refresh, ttl), key |-> Head(keySet)]
    /\ made' = [claims |-> claims, at |-> now, ttl |-> ttl, refreshed |-> refreshed]
    /\ validated' = NotAsked
    /\ UNCHANGED <<claimCfg, keySet, now>>

\* At a login: any claims.  normalizeClaims makes the empty map of nil; claims that
\* are no map are refused before anything is done, which is no step.
Generate(refresh, ttl) ==
    \E claims \in CallerClaims : Generated(claims, refresh, ttl, FALSE)

\* At a refresh: the claims that Validate returned, from a map of its own.
Regenerate(refresh, ttl) ==
    validated.is = "accepted" /\ Generated(validated.claims, refresh, ttl, TRUE)

Validate ==
    /\ token # NoToken
    /\ validated' =
         IF Verifies(token) /\ Timely(token) /\ IssuerOK(token) /\ AudienceOK(token)
           THEN [is |-> "accepted", claims |-> TokenToMap(token)]
           ELSE Rejected
    /\ UNCHANGED <<claimCfg, keySet, now, token, made>>

\* The owner of the key set adds a key, at its end, or removes the first one.
ChangeKeys ==
    /\ claimCfg.built
    /\ keySet' \in {Append(keySet, k) : k \in SigningKeys} \cup {Tail(s) : s \in {keySet} \ {<<>>}}
    /\ Len(keySet') <= 2
    /\ validated' = NotAsked
    /\ UNCHANGED <<claimCfg, now, token, made>>

ClaimsTick ==
    /\ claimCfg.built
    /\ now < LastInstant
    /\ now' = now + 1
    /\ validated' = NotAsked
    /\ UNCHANGED <<claimCfg, keySet, token, made>>

ClaimsNext ==
    \/ \E cfg \in TokenConfigs, key \in SigningKeys : NewTokenStore(cfg, key)
    \/ \E refresh \in BOOLEAN, ttl \in TokenTTLs :
         Generate(refresh, ttl) \/ Regenerate(refresh, ttl)
    \/ Validate \/ ChangeKeys \/ ClaimsTick

ClaimsSpec == ClaimsInit /\ [][ClaimsNext]_tokenVars

-----------------------------------------------------------------------------
(* Properties.                                                              *)

\* The instant a claim names.
InstantOf(value) ==
    CASE value.type = "seconds" -> value.of * Second
      [] value.type = "time" -> value.of
      [] OTHER -> 0

\* Claims the store cannot make a valid token of: they name an issuer or an
\* audience of their own, or an instant to come.
Foreign(claims) ==
    \/ /\ claimCfg.validateIssuer /\ claimCfg.issuer # Unset
       /\ "iss" \in DOMAIN claims /\ claims["iss"] # Text(claimCfg.issuer)
    \/ /\ claimCfg.validateAudience /\ claimCfg.audience # Unset
       /\ "aud" \in DOMAIN claims
       /\ claims["aud"] \notin {Text(claimCfg.audience), List(<<claimCfg.audience>>)}
    \/ \E name \in {"iat", "nbf"} \cap DOMAIN claims : InstantOf(claims[name]) > now

\* The store accepts what it generated, at once and until a second before the
\* ttl is over, through any number of refreshes, unless the claims it was given
\* are at odds with its configuration or the first key is another one by then:
\* what Generate adds is what Validate looks for.
OwnTokensAccepted ==
    validated = Rejected =>
      \/ made.ttl > 0 /\ now > made.at + made.ttl - Second
      \/ keySet = <<>> \/ token.key # Head(keySet)
      \/ Foreign(made.claims)

\* No token is accepted when its ttl is over, whatever exp came with the claims
\* it was made from: a refresh does not inherit the end of the old token, and no
\* rounding adds to the ttl.
EndsInTime ==
    validated.is = "accepted" /\ made.ttl > 0 => now < made.at + made.ttl

\* The claims that a revocation goes by.
Identity(claims) ==
    LET names == {n \in {"sub", "jti", "sid"} \cap DOMAIN claims : claims[n].type = "text"}
    IN  [n \in names |-> claims[n]]

\* Subject, token id and session of an accepted token are those it was made
\* from, no more and no less, also through refreshes: a revoked session stays
\* the session of all tokens that come of it.
IdentityKept ==
    validated.is = "accepted" => Identity(validated.claims) = Identity(made.claims)
=============================================================================
