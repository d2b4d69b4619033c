----------------------------- MODULE TlsServers -----------------------------
(***************************************************************************)
(* The HTTP/3 and WebTransport servers and the autocert manager,           *)
(* src/extensions/http3, webtransport and autocert.  Both servers wrap one *)
(* http3.Server, and goroutines start it, through either, from files or    *)
(* with a manager of certificates, while it may be stopped.  A manager     *)
(* keeps the slice of hostnames that its caller gave it.                   *)
(***************************************************************************)
EXTENDS Integers, Sequences

CONSTANTS
    Starters,       \* the goroutines that start the server
    CertManagers,   \* the autocert managers there are
    Hosts,          \* the hostnames that callers give to New
    OtherHosts,     \* and what they change them to
    ToASCII         \* for each hostname what idna makes of it, Refused if nothing

\* No manager reads like a TLSConfig that is not there.
ASSUME CertManagersAssumption == "unset" \notin CertManagers

HostsIn(array) == {array[i] : i \in DOMAIN array}

\* Stands for an error.
Refused == ""

ASSUME HostsAssumption ==
    HostsIn(Hosts) \cup HostsIn(OtherHosts) \subseteq DOMAIN ToASCII

VARIABLES
    h3,         \* the http3.Server: open or closed, its TLSConfig, and whether a
                \* WebTransport server is made of it
    starter,    \* each goroutine: its next step, its manager, and what the
                \* listener it has presents
    firstConfig,    \* history: the first TLSConfig the server had
    overlapped,     \* history: two starts found no TLSConfig and both set one
    manager,    \* each manager: the hosts of its policy, the array its last
                \* Hostnames returned and, as history, the hosts in it then
    arrays,     \* the contents of these arrays
    altered     \* history: the managers whose caller changed the slice it gave

serverVars == <<h3, starter, firstConfig, overlapped, manager, arrays, altered>>

NoServer == [is |-> "none", config |-> "unset", wt |-> FALSE]
AtRest == [pc |-> "idle", with |-> "none", presents |-> "none"]
NoManager == [made |-> FALSE, policy |-> {}, returned |-> "none", reported |-> {}]

-----------------------------------------------------------------------------
(* The autocert manager.                                                    *)

\* HostWhitelist: hosts are converted, and those that cannot be are dropped
\* without a word.
Policy(hosts) == {ToASCII[h] : h \in hosts} \ {Refused}

\* New: the policy has a set of its own, hostnames is the slice.
NewManager(m) ==
    /\ ~manager[m].made
    /\ manager' = [manager EXCEPT ![m] = [NoManager EXCEPT !.made = TRUE, !.policy = Policy(HostsIn(Hosts))]]
    /\ arrays' = [arrays EXCEPT ![m] = [given |-> Hosts, copy |-> <<>>]]
    /\ UNCHANGED <<h3, starter, firstConfig, overlapped, altered>>

\* (Mutation of Result: the slice itself.)
ResultItself == "given"

\* A new slice with the same hosts.
Result == "copy"

Hostnames(m) ==
    /\ manager[m].made
    /\ manager' = [manager EXCEPT ![m].returned = Result,
                                   ![m].reported = HostsIn(arrays[m].given)]
    /\ arrays' = [arrays EXCEPT ![m][Result] = arrays[m].given]
    /\ UNCHANGED <<h3, starter, firstConfig, overlapped, altered>>

\* A caller of Hostnames changes what it got.
AlterResult(m) ==
    /\ manager[m].returned # "none"
    /\ arrays' = [arrays EXCEPT ![m][manager[m].returned] = OtherHosts]
    /\ UNCHANGED <<h3, starter, firstConfig, overlapped, manager, altered>>

\* The caller of New changes the slice it gave.
AlterGiven(m) ==
    /\ manager[m].made
    /\ arrays' = [arrays EXCEPT ![m].given = OtherHosts]
    /\ altered' = altered \cup {m}
    /\ UNCHANGED <<h3, starter, firstConfig, overlapped, manager>>

-----------------------------------------------------------------------------
(* Servers.                                                                 *)

ServersInit ==
    /\ h3 = NoServer
    /\ starter = [t \in Starters |-> AtRest]
    /\ firstConfig = "unset"
    /\ overlapped = FALSE
    /\ manager = [m \in CertManagers |-> NoManager]
    /\ arrays = [m \in CertManagers |-> [given |-> <<>>, copy |-> <<>>]]
    /\ altered = {}

\* What is set stays the first configuration.
First(config) == IF firstConfig = "unset" THEN config ELSE firstConfig

MadeWith(config) ==
    /\ h3 = NoServer
    /\ h3' = [h3 EXCEPT !.is = "open", !.config = config]
    /\ firstConfig' = config
    /\ UNCHANGED <<starter, overlapped, manager, arrays, altered>>

\* http3.New, after which the caller may set a TLSConfig of its own.
NewH3 == \E config \in {"unset", "own"} : MadeWith(config)

NewWithAutocert(m) == manager[m].made /\ MadeWith(m)

\* webtransport.New: of an http3.Server that is there; of none it panics.
NewWT ==
    /\ h3.is = "open"
    /\ h3' = [h3 EXCEPT !.wt = TRUE]
    /\ UNCHANGED <<starter, firstConfig, overlapped, manager, arrays, altered>>

\* (Mutation of Unconfigured: the manager's configuration replaces what is set.)
UnconfiguredAlways == TRUE

Unconfigured == h3.config = "unset"

AutocertBegins(t, m) ==
    /\ h3.is # "none"
    /\ starter[t].pc = "idle"
    /\ manager[m].made
    /\ starter' = [starter EXCEPT ![t] = [pc |-> IF Unconfigured THEN "configure" ELSE "listen",
                                          with |-> m, presents |-> "none"]]
    /\ UNCHANGED <<h3, firstConfig, overlapped, manager, arrays, altered>>

\* ListenAndServeTLSWithAutocert of the HTTP/3 server: is there a TLSConfig?
AutocertH3(t, m) == AutocertBegins(t, m)

\* That of the WebTransport server, for the http3.Server in it.
AutocertWT(t, m) == h3.wt /\ AutocertBegins(t, m)

\* There was none: set one.
SetTLSConfig(t) ==
    /\ starter[t].pc = "configure"
    /\ h3' = [h3 EXCEPT !.config = starter[t].with]
    /\ firstConfig' = First(starter[t].with)
    /\ overlapped' = (overlapped \/ \E u \in Starters \ {t} : starter[u].pc = "configure")
    /\ starter' = [starter EXCEPT ![t].pc = "listen"]
    /\ UNCHANGED <<manager, arrays, altered>>

AddressFree == \A u \in Starters : starter[u].pc # "serving"

\* A start ends with an error: the server is closed, or its address is in use.
StartFails(t) ==
    /\ starter[t].pc = "listen"
    /\ starter' = [starter EXCEPT ![t] = AtRest]
    /\ UNCHANGED <<h3, firstConfig, overlapped, manager, arrays, altered>>

Serving(t, config) ==
    /\ h3.is = "open"
    /\ AddressFree
    /\ starter' = [starter EXCEPT ![t].pc = "serving", ![t].presents = config]
    /\ UNCHANGED <<h3, firstConfig, overlapped, manager, arrays, altered>>

\* ListenAndServe: with the TLSConfig there is by now, for as long as it listens.
ListenAndServe(t) == starter[t].pc = "listen" /\ Serving(t, h3.config)

\* ListenAndServeTLS: certificates from files, the TLSConfig neither read nor set.
\* Files that cannot be read are an error, and change nothing.
ListenAndServeTLS(t) == starter[t].pc = "idle" /\ Serving(t, "files")

\* The same through the WebTransport server.
ListenAndServeTLSWT(t) == h3.wt /\ ListenAndServeTLS(t)

\* Shutdown, which waits for requests, and Close: no listener
\* is left and none will be.  What becomes of connections is the library's.
StopServer ==
    /\ h3.is = "open"
    /\ h3' = [h3 EXCEPT !.is = "closed"]
    /\ starter' = [t \in Starters |-> IF starter[t].pc = "serving" THEN AtRest ELSE starter[t]]
    /\ UNCHANGED <<firstConfig, overlapped, manager, arrays, altered>>

\* The same through the WebTransport server, whose Shutdown is that of the
\* http3.Server alone.
StopWT == h3.wt /\ StopServer

\* The listener of a start fails while it serves.
ListenerFails(t) ==
    /\ starter[t].pc = "serving"
    /\ starter' = [starter EXCEPT ![t] = AtRest]
    /\ UNCHANGED <<h3, firstConfig, overlapped, manager, arrays, altered>>

ServersNext ==
    \/ \E m \in CertManagers :
         \/ NewManager(m) \/ Hostnames(m) \/ AlterResult(m) \/ AlterGiven(m)
         \/ NewWithAutocert(m)
         \/ \E t \in Starters : AutocertH3(t, m) \/ AutocertWT(t, m)
    \/ \E t \in Starters :
         \/ SetTLSConfig(t) \/ StartFails(t) \/ ListenAndServe(t) \/ ListenAndServeTLS(t)
         \/ ListenAndServeTLSWT(t) \/ ListenerFails(t)
    \/ NewH3 \/ NewWT \/ StopServer \/ StopWT

ServersSpec == ServersInit /\ [][ServersNext]_serverVars

-----------------------------------------------------------------------------
(* Properties.                                                              *)

\* A listener that was started with a manager presents the certificates of the
\* first TLSConfig the server had: the caller's own, that of NewWithAutocert, or
\* that of the first start, even if that start failed and this one is a retry
\* with another manager.  Only two starts at once can put one for another.
FirstConfigServed ==
    \A t \in Starters :
      starter[t].pc = "serving" /\ starter[t].presents # "files" =>
        starter[t].presents = firstConfig \/ overlapped

\* What a manager reported last comes to the policy it has, host for host as far
\* as the policy takes them, and so to what it gets certificates for, whatever
\* callers did before with the slices it returned; unless the caller of New
\* changed the slice it gave.
HostsKept ==
    \A m \in CertManagers :
      manager[m].returned # "none" /\ m \notin altered =>
        Policy(manager[m].reported) = manager[m].policy
=============================================================================
