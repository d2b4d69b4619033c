----------------------------- MODULE MCPackages -----------------------------
(***************************************************************************)
(* Instances of the packages that work for themselves, checked in one run: *)
(* the initial state says which one runs (part), and the others stay as    *)
(* they are.                                                               *)
(***************************************************************************)
EXTENDS RedisStorage, CacheStore, SharedRedis, TokenClaims, HumaAdapter,
        ZerologLogger, Tracer, TlsServers, FixedWindow

VARIABLE part

MCStorageKeys == {<<"a">>, <<"b">>}
MCStorageTTLs == {-1, 2}
MCStorageConfigs == {[keyPrefix |-> <<"app:">>, lockTTL |-> 5]}

MCCallerKeys == {<<"a">>, <<"a", ":", "b">>, <<"token", ":", "a">>}
MCUserConfigs ==
    {[prefix |-> <<>>, algorithm |-> "", lockTTL |-> 0],
     [prefix |-> <<"x">>, algorithm |-> "sliding_window", lockTTL |-> -1],
     [prefix |-> <<"y", ":">>, algorithm |-> "fixed_window", lockTTL |-> 5],
     [prefix |-> <<"z">>, algorithm |-> "other", lockTTL |-> 5]}

Config(issuer, audience, validateAudience) ==
    [built |-> TRUE, issuer |-> issuer, audience |-> audience,
     validateIssuer |-> TRUE, validateAudience |-> validateAudience]
MCTokenConfigs == {Config("", "app", TRUE), Config("us", "web", FALSE)}
MCCallerClaims ==
    {[sub |-> Text("u"), sid |-> Text("s")],
     [sub |-> Text("u"), jti |-> Text("j"), aud |-> Text("app"), exp |-> Seconds(1)],
     [sub |-> Text("u"), iss |-> [type |-> "other", of |-> 0], iat |-> Time(1)],
     [sub |-> Text("u"), aud |-> List(<<"web", "app">>), nbf |-> Seconds(1), exp |-> Seconds(9)]}

Ch(c, layers) == [c |-> c, layers |-> layers]
\* /%2F/%2525, /a/%2561, /%20/%2525, /!/a%2525 and /%2F/%2561%25.
MCPaths ==
    {<<<<Ch("/", 1)>>, <<Ch("%", 2)>>>>,
     <<<<Ch("a", 0)>>, <<Ch("a", 2)>>>>,
     <<<<Ch(" ", 1)>>, <<Ch("%", 2)>>>>,
     <<<<Ch("!", 0)>>, <<Ch("a", 0), Ch("%", 2)>>>>,
     <<<<Ch("/", 1)>>, <<Ch("a", 2), Ch("%", 1)>>>>}
MCOperations == {[method |-> "get"], [method |-> "TRACE"]}

MCHosts == <<"a", "B", "*.a">>
MCOtherHosts == <<"a", "c">>

\* What idna makes of the hostnames: a wildcard is not one.
MCToASCII ==
    [h \in {"a", "B", "*.a", "c"} |->
       CASE h = "B" -> "b" [] h = "*.a" -> Refused [] OTHER -> h]

MCFieldLists ==
    {<<>>, <<[key |-> "user", type |-> "string"]>>,
     <<[key |-> "cause", type |-> "error"], [key |-> "n", type |-> "struct"]>>}
MCLoggerLevels == {-1, 1, 7}

\* vars and Init, Next and Spec without a name of their package are those of
\* FixedWindow.
Others(vars1, vars2, vars3, vars4, vars5, vars6, vars7, vars8) ==
    UNCHANGED <<vars1, vars2, vars3, vars4, vars5, vars6, vars7, vars8, part>>

Parts ==
    {"storage", "cache", "names", "claims", "huma", "log", "tracer", "servers", "window"}

PackagesInit ==
    /\ part \in Parts
    /\ StorageInit /\ CacheInit /\ SharedInit /\ ClaimsInit
    /\ HumaInit /\ LogInit /\ TraceInit /\ ServersInit /\ Init

PackagesNext ==
    \/ /\ part = "storage" /\ StorageNext
       /\ Others(cacheVars, sharedVars, tokenVars, humaVars,
                 logVars, traceVars, serverVars, vars)
    \/ /\ part = "cache" /\ CacheNext
       /\ Others(storageVars, sharedVars, tokenVars, humaVars,
                 logVars, traceVars, serverVars, vars)
    \/ /\ part = "names" /\ SharedNext
       /\ Others(storageVars, cacheVars, tokenVars, humaVars,
                 logVars, traceVars, serverVars, vars)
    \/ /\ part = "claims" /\ ClaimsNext
       /\ Others(storageVars, cacheVars, sharedVars, humaVars,
                 logVars, traceVars, serverVars, vars)
    \/ /\ part = "huma" /\ HumaNext
       /\ Others(storageVars, cacheVars, sharedVars, tokenVars,
                 logVars, traceVars, serverVars, vars)
    \/ /\ part = "log" /\ LogNext
       /\ Others(storageVars, cacheVars, sharedVars, tokenVars,
                 humaVars, traceVars, serverVars, vars)
    \/ /\ part = "tracer" /\ TraceNext
       /\ Others(storageVars, cacheVars, sharedVars, tokenVars,
                 humaVars, logVars, serverVars, vars)
    \/ /\ part = "servers" /\ ServersNext
       /\ Others(storageVars, cacheVars, sharedVars, tokenVars,
                 humaVars, logVars, traceVars, vars)
    \/ /\ part = "window" /\ Next
       /\ Others(storageVars, cacheVars, sharedVars, tokenVars,
                 humaVars, logVars, traceVars, serverVars)

packageVars ==
    <<storageVars, cacheVars, sharedVars, tokenVars, humaVars, logVars, traceVars,
      serverVars, vars, part>>

\* The fairness of a package asks nothing where it does not run: none of these
\* actions is possible before its first step.
PackagesSpec ==
    /\ PackagesInit /\ [][PackagesNext]_packageVars
    /\ StorageFairness /\ CacheFairness /\ WindowFairness
=============================================================================
