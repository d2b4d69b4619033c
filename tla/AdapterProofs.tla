---------------------------- MODULE AdapterProofs ----------------------------
(***************************************************************************)
(* What the servers, the tracer and the two adapters promise, for every    *)
(* number of goroutines, managers, spans, loggers, fields and statuses.    *)
(***************************************************************************)
EXTENDS TlsServers, Tracer, HumaAdapter, ZerologLogger, SequenceTheorems, TLAPS

-----------------------------------------------------------------------------
(* The tracer.                                                              *)

\* The forms that attributes and events are written in.
Forms == AttributeTypes \cup {"empty", "exception"}

SpanRecords ==
    [is : {"none", "started", "ended"}, status : {"Unset", "Error", "Ok"}, wrote : SUBSET Forms]

\* The types, as far as the proofs need them.
TraceTypeOK ==
    /\ provider \in [is : {"none", "up", "failed", "stopping", "over"}, cancelled : BOOLEAN]
    /\ span \in [Spans -> SpanRecords]
    /\ batch \subseteq Spans
    /\ due \subseteq Spans

Ended(s) == span[s].is = "ended"

Exported(s) == \E e \in exported : e.span = s /\ e.status = span[s].status

\* A span that is due is on its way or exported, as it ended.
DueTaken == \A s \in due : Ended(s) /\ (s \in batch \/ Exported(s))

\* What is on its way has ended, so its status stays what it is.
BatchEnded == \A s \in batch : Ended(s)

\* When the program ends, nothing is on its way any more.
BatchEmptied == provider.is = "over" /\ ~provider.cancelled => batch = {}

TraceInv == TraceTypeOK /\ DueTaken /\ BatchEnded /\ BatchEmptied

\* The conversions: a status is one of OpenTelemetry's, an attribute has a form.
LEMMA ConversionTypes ==
    /\ \A code : \A old \in {"Unset", "Error", "Ok"} :
         StatusAfter(old, ToOtelCode(code)) \in {"Unset", "Error", "Ok"}
    /\ \A type \in AttributeTypes : ToOtelAttribute(type) \in Forms
<1>1. \A code : ToOtelCode(code) \in {"Unset", "Error", "Ok"}
  BY DEF ToOtelCode
<1> QED
  BY <1>1 DEF StatusAfter, ToOtelAttribute, Forms

\* Nobody has a span at the start.
LEMMA TraceStart == TraceInit => TraceInv
<1> SUFFICES ASSUME TraceInit PROVE TraceInv
  OBVIOUS
<1>1. Fresh \in SpanRecords
  BY DEF Fresh, SpanRecords
<1>2. [is |-> "none", cancelled |-> FALSE]
        \in [is : {"none", "up", "failed", "stopping", "over"}, cancelled : BOOLEAN]
  OBVIOUS
<1>3. provider.is = "none"
  BY DEF TraceInit
<1> QED
  BY <1>1, <1>2, <1>3 DEF TraceInit, TraceInv, TraceTypeOK, DueTaken, BatchEnded, BatchEmptied

\* A step that writes in a span that has not ended, and does nothing else.
LEMMA SpanStep ==
    ASSUME TraceInv, NEW s \in Spans, ~Ended(s), NEW rec \in SpanRecords,
           span' = [span EXCEPT ![s] = rec],
           UNCHANGED <<provider, batch, exported, due>>
    PROVE  TraceInv'
<1>1. TraceTypeOK'
  BY DEF TraceInv, TraceTypeOK
<1>2. s \notin due /\ s \notin batch
  BY DEF TraceInv, DueTaken, BatchEnded
<1>3. \A q \in due \cup batch : span'[q] = span[q]
  BY <1>2 DEF TraceInv, TraceTypeOK
<1>4. DueTaken' /\ BatchEnded'
  BY <1>3 DEF TraceInv, DueTaken, BatchEnded, Ended, Exported
<1> QED
  BY <1>1, <1>4 DEF TraceInv, BatchEmptied

\* The steps of a span before it ends.
LEMMA RunningSpanSteps ==
    ASSUME TraceInv, NEW s \in Spans,
           \/ StartSpan(s) \/ RecordError(s)
           \/ \E code \in SpanCodes : SetSpanStatus(s, code)
           \/ \E type \in AttributeTypes : SetAttribute(s, type)
    PROVE  TraceInv'
<1> DEFINE rec == span'[s]
<1>1. span[s] \in SpanRecords /\ DOMAIN span = Spans
  BY DEF TraceInv, TraceTypeOK
<1>2. CASE StartSpan(s)
  <2>1. span' = [span EXCEPT ![s] = [span[s] EXCEPT !.is = "started"]]
    BY <1>2 DEF StartSpan
  <2>2. [span[s] EXCEPT !.is = "started"] \in SpanRecords
    BY <1>1 DEF SpanRecords
  <2>3. ~Ended(s)
    BY <1>2 DEF StartSpan, Fresh, Ended
  <2> QED
    BY <1>2, <2>1, <2>2, <2>3, SpanStep DEF StartSpan
<1>3. CASE RecordError(s)
  <2>1. span' = [span EXCEPT ![s] = [span[s] EXCEPT !.wrote = @ \cup {"exception"}]]
    BY <1>3 DEF RecordError
  <2>2. [span[s] EXCEPT !.wrote = @ \cup {"exception"}] \in SpanRecords
    BY <1>1 DEF SpanRecords, Forms
  <2> QED
    BY <1>3, <2>1, <2>2, SpanStep DEF RecordError, Ended
<1>4. ASSUME NEW code \in SpanCodes, SetSpanStatus(s, code) PROVE TraceInv'
  <2>1. span' = [span EXCEPT ![s] = [span[s] EXCEPT !.status = StatusAfter(@, ToOtelCode(code))]]
    BY <1>4 DEF SetSpanStatus
  <2>2. [span[s] EXCEPT !.status = StatusAfter(@, ToOtelCode(code))] \in SpanRecords
    BY <1>1, ConversionTypes DEF SpanRecords
  <2> QED
    BY <1>4, <2>1, <2>2, SpanStep DEF SetSpanStatus, Ended
<1>5. ASSUME NEW type \in AttributeTypes, SetAttribute(s, type) PROVE TraceInv'
  <2>1. span' = [span EXCEPT ![s] = [span[s] EXCEPT !.wrote = @ \cup {ToOtelAttribute(type)}]]
    BY <1>5 DEF SetAttribute
  <2>2. [span[s] EXCEPT !.wrote = @ \cup {ToOtelAttribute(type)}] \in SpanRecords
    BY <1>1, ConversionTypes DEF SpanRecords
  <2> QED
    BY <1>5, <2>1, <2>2, SpanStep DEF SetAttribute, Ended
<1> QED
  BY <1>2, <1>3, <1>4, <1>5

\* End, and what the batcher does with the span afterwards.
LEMMA EndedSpanSteps ==
    ASSUME TraceInv, NEW s \in Spans, EndSpan(s) \/ Export(s) \/ ExportFails(s)
    PROVE  TraceInv'
<1>1. CASE EndSpan(s)
  <2>1. span' = [span EXCEPT ![s] = [span[s] EXCEPT !.is = "ended"]]
    BY <1>1 DEF EndSpan
  <2>2. span[s] \in SpanRecords /\ [span[s] EXCEPT !.is = "ended"] \in SpanRecords
    BY DEF TraceInv, TraceTypeOK, SpanRecords
  <2>3. /\ \A q \in Spans \ {s} : span'[q] = span[q]
        /\ span'[s] = [span[s] EXCEPT !.is = "ended"] /\ span'[s].is = "ended"
    BY <2>1, <2>2 DEF TraceInv, TraceTypeOK, SpanRecords
  <2>4. /\ batch' = batch \cup {s} /\ due' = due \cup {s} /\ provider.is = "up"
        \/ UNCHANGED <<batch, due>>
    BY <1>1 DEF EndSpan
  <2>5. TraceTypeOK'
    BY <1>1, <2>1, <2>2, <2>4 DEF EndSpan, TraceInv, TraceTypeOK
  <2>6. s \notin due /\ s \notin batch
    BY <1>1 DEF EndSpan, TraceInv, DueTaken, BatchEnded, Ended
  <2>7. DueTaken' /\ BatchEnded'
    BY <1>1, <2>3, <2>4, <2>6
    DEF EndSpan, TraceInv, TraceTypeOK, DueTaken, BatchEnded, Ended, Exported
  <2>8. BatchEmptied'
    BY <1>1, <2>4 DEF EndSpan, TraceInv, BatchEmptied
  <2> QED
    BY <2>5, <2>7, <2>8 DEF TraceInv
<1>2. CASE Export(s)
  <2>1. Exported(s)'
    <3>1. [span |-> s, status |-> span[s].status, wrote |-> span[s].wrote] \in exported'
      BY <1>2 DEF Export
    <3>2. span' = span
      BY <1>2 DEF Export
    <3> QED
      BY <3>1, <3>2 DEF Exported
  <2>2. \A q \in due : Exported(q) => Exported(q)'
    BY <1>2 DEF Export, Exported
  <2>3. DueTaken'
    BY <1>2, <2>1, <2>2 DEF Export, TraceInv, DueTaken, Ended
  <2> QED
    BY <1>2, <2>3 DEF Export, TraceInv, TraceTypeOK, BatchEnded, Ended, BatchEmptied
<1>3. CASE ExportFails(s)
  BY <1>3
  DEF ExportFails, TraceInv, TraceTypeOK, DueTaken, BatchEnded, Ended, Exported, BatchEmptied
<1> QED
  BY <1>1, <1>2, <1>3

\* The constructors, the owner of their context, and shutdown.
LEMMA ProviderSteps ==
    ASSUME TraceInv, NewDefault \/ CancelStart \/ ShutdownBegins \/ ShutdownReturns
    PROVE  TraceInv'
<1>1. /\ UNCHANGED <<span, batch, exported, due>>
      /\ provider' \in [is : {"none", "up", "failed", "stopping", "over"}, cancelled : BOOLEAN]
  BY DEF TraceInv, TraceTypeOK, NewDefault, CancelStart, ShutdownBegins, ShutdownReturns
<1>2. BatchEmptied'
  BY DEF TraceInv, TraceTypeOK, BatchEmptied, NewDefault, CancelStart, ShutdownBegins,
         ShutdownReturns, Flushed, Up
<1> QED
  BY <1>1, <1>2 DEF TraceInv, TraceTypeOK, DueTaken, BatchEnded, Ended, Exported

\* The invariant holds in every state of the tracer.
THEOREM TraceInvariance == TraceSpec => []TraceInv
<1>1. TraceInv /\ [TraceNext]_traceVars => TraceInv'
  <2>1. ASSUME TraceInv, TraceNext PROVE TraceInv'
    BY <2>1, RunningSpanSteps, EndedSpanSteps, ProviderSteps DEF TraceNext
  <2>2. ASSUME TraceInv, UNCHANGED traceVars PROVE TraceInv'
    BY <2>2
    DEF TraceInv, TraceTypeOK, DueTaken, BatchEnded, Ended, Exported, BatchEmptied, traceVars
  <2> QED
    BY <2>1, <2>2
<1> QED
  BY <1>1, TraceStart, PTL DEF TraceSpec

\* Shutdown flushes: for every number of spans, size of the batch and order of
\* ends, exports, failures and the shutdown, what was due is exported with the
\* status it ended with, if the constructor's context was not cancelled.
THEOREM FlushedAtEndHolds == TraceSpec => []FlushedAtEnd
<1>1. TraceInv => FlushedAtEnd
  BY DEF TraceInv, DueTaken, BatchEmptied, Exported, FlushedAtEnd
<1> QED
  BY <1>1, TraceInvariance, PTL

-----------------------------------------------------------------------------
(* The servers and the autocert managers.                                   *)

\* What a TLSConfig may be.
TLSConfigs == CertManagers \cup {"unset", "own"}

StarterStates ==
    [pc : {"idle", "configure", "listen", "serving"}, with : CertManagers \cup {"none"},
     presents : TLSConfigs \cup {"none", "files"}]

\* The types, as far as the proofs need them.
ServersTypeOK ==
    /\ h3 \in [is : {"none", "open", "closed"}, config : TLSConfigs, wt : BOOLEAN]
    /\ starter \in [Starters -> StarterStates]
    /\ firstConfig \in TLSConfigs
    /\ overlapped \in BOOLEAN

\* Nobody starts a server that is not made.
StartsLater == h3.is = "none" => h3 = NoServer /\ \A t \in Starters : starter[t].pc = "idle"

\* The server has the first configuration it got.
FirstKept ==
    /\ h3.config = "unset" <=> firstConfig = "unset"
    /\ h3.config = firstConfig \/ overlapped

\* A goroutine that is about to set a TLSConfig has a manager, and found none set.
ConfiguresFirst ==
    \A t \in Starters :
      starter[t].pc = "configure" =>
        starter[t].with \in CertManagers /\ (h3.config = "unset" \/ overlapped)

\* A goroutine that is about to listen, or listens with a manager, follows a configuration.
ListensConfigured ==
    \A t \in Starters :
      starter[t].pc = "listen" \/ (starter[t].pc = "serving" /\ starter[t].presents # "files") =>
        h3.config # "unset"

ServersInv ==
    /\ ServersTypeOK /\ StartsLater /\ FirstKept /\ ConfiguresFirst /\ ListensConfigured
    /\ FirstConfigServed

\* There is no server at the start.
LEMMA ServersStart == ServersInit => ServersInv
<1> SUFFICES ASSUME ServersInit PROVE ServersInv
  OBVIOUS
<1>1. AtRest \in StarterStates /\ AtRest.pc = "idle"
  BY DEF AtRest, StarterStates
<1>2. /\ NoServer \in [is : {"none", "open", "closed"}, config : TLSConfigs, wt : BOOLEAN]
      /\ NoServer.config = "unset"
  BY DEF NoServer, TLSConfigs
<1>3. ServersTypeOK
  BY <1>1, <1>2 DEF ServersInit, ServersTypeOK, TLSConfigs
<1>4. \A t \in Starters : starter[t].pc = "idle"
  BY <1>1 DEF ServersInit
<1> QED
  BY <1>2, <1>3, <1>4
  DEF ServersInit, ServersInv, StartsLater, FirstKept, ConfiguresFirst, ListensConfigured,
      FirstConfigServed

\* A server is made, with or without a configuration.
LEMMA MakeStep ==
    ASSUME ServersInv, NEW config \in TLSConfigs, MadeWith(config)
    PROVE  ServersInv'
<1>1. /\ h3' = [NoServer EXCEPT !.is = "open", !.config = config]
      /\ firstConfig' = config /\ starter' = starter /\ overlapped' = overlapped
  BY DEF MadeWith
<1>2. h3'.is = "open" /\ h3'.config = config /\ h3'.wt = FALSE
  BY <1>1 DEF NoServer
<1>3. ServersTypeOK'
  BY <1>1 DEF ServersInv, ServersTypeOK, NoServer
<1>4. \A t \in Starters : starter'[t].pc = "idle"
  BY <1>1 DEF MadeWith, ServersInv, StartsLater, NoServer
<1> QED
  BY <1>1, <1>2, <1>3, <1>4
  DEF ServersInv, StartsLater, FirstKept, ConfiguresFirst, ListensConfigured, FirstConfigServed

\* A goroutine takes a step that changes no configuration.
LEMMA StarterStep ==
    ASSUME ServersInv, h3.is # "none", NEW t \in Starters, NEW state \in StarterStates,
           starter' = [starter EXCEPT ![t] = state],
           UNCHANGED <<h3, firstConfig, overlapped>>,
           state.pc = "configure" => state.with \in CertManagers /\ h3.config = "unset",
           state.pc = "listen" => h3.config # "unset",
           state.pc = "serving" =>
             state.presents = "files" \/ (state.presents = h3.config /\ h3.config # "unset")
    PROVE  ServersInv'
<1>1. starter'[t] = state /\ \A u \in Starters \ {t} : starter'[u] = starter[u]
  BY DEF ServersInv, ServersTypeOK
<1>2. ServersTypeOK' /\ StartsLater' /\ FirstKept'
  BY DEF ServersInv, ServersTypeOK, StartsLater, FirstKept
<1>3. ConfiguresFirst'
  BY <1>1 DEF ServersInv, ConfiguresFirst
<1>4. ListensConfigured'
  BY <1>1 DEF ServersInv, ListensConfigured
<1>5. FirstConfigServed'
  BY <1>1 DEF ServersInv, FirstKept, FirstConfigServed
<1> QED
  BY <1>2, <1>3, <1>4, <1>5 DEF ServersInv

\* A goroutine sets the manager's configuration: the first one, or two overlapped.
LEMMA SetStep ==
    ASSUME ServersInv, NEW t \in Starters, SetTLSConfig(t)
    PROVE  ServersInv'
<1> DEFINE m == starter[t].with
<1>1. /\ starter[t].pc = "configure" /\ m \in CertManagers /\ m # "unset"
      /\ h3.config = "unset" \/ overlapped
  BY CertManagersAssumption DEF SetTLSConfig, ServersInv, ConfiguresFirst
<1>2. h3' = [h3 EXCEPT !.config = m] /\ h3'.config = m /\ h3'.is = h3.is
  BY DEF SetTLSConfig, ServersInv, ServersTypeOK
<1>3. starter' = [starter EXCEPT ![t] = [starter[t] EXCEPT !.pc = "listen"]]
  BY DEF SetTLSConfig
<1>4. /\ [starter[t] EXCEPT !.pc = "listen"] \in StarterStates
      /\ [starter[t] EXCEPT !.pc = "listen"].pc = "listen"
  BY DEF ServersInv, ServersTypeOK, StarterStates
<1>5. starter'[t].pc = "listen" /\ \A u \in Starters \ {t} : starter'[u] = starter[u]
  BY <1>3, <1>4 DEF ServersInv, ServersTypeOK
<1>6. /\ firstConfig = "unset" => firstConfig' = m
      /\ firstConfig # "unset" => firstConfig' = firstConfig
  BY DEF SetTLSConfig, First
<1>7. /\ overlapped' \in BOOLEAN
      /\ overlapped => overlapped'
      /\ \A u \in Starters \ {t} : starter[u].pc = "configure" => overlapped'
  BY DEF SetTLSConfig, ServersInv, ServersTypeOK
<1>8. ServersTypeOK'
  BY <1>1, <1>2, <1>3, <1>4, <1>6, <1>7 DEF ServersInv, ServersTypeOK, TLSConfigs
<1>9. StartsLater'
  BY <1>1, <1>2 DEF ServersInv, StartsLater
<1>10. FirstKept'
  BY <1>1, <1>2, <1>6, <1>7 DEF ServersInv, FirstKept
<1>11. ConfiguresFirst' /\ ListensConfigured'
  BY <1>1, <1>2, <1>5, <1>7 DEF ServersInv, ConfiguresFirst, ListensConfigured
<1>12. FirstConfigServed'
  BY <1>1, <1>5, <1>6, <1>7
  DEF ServersInv, FirstKept, ListensConfigured, FirstConfigServed
<1> QED
  BY <1>8, <1>9, <1>10, <1>11, <1>12 DEF ServersInv

\* The goroutines' steps.
LEMMA StarterSteps ==
    ASSUME ServersInv, NEW t \in Starters,
           \/ \E m \in CertManagers : AutocertH3(t, m) \/ AutocertWT(t, m)
           \/ SetTLSConfig(t) \/ StartFails(t) \/ ListenAndServe(t) \/ ListenAndServeTLS(t)
           \/ ListenAndServeTLSWT(t) \/ ListenerFails(t)
    PROVE  ServersInv'
<1>1. starter[t] \in StarterStates
  BY DEF ServersInv, ServersTypeOK
<1>2. ASSUME NEW m \in CertManagers, AutocertBegins(t, m) PROVE ServersInv'
  <2> DEFINE state == [pc |-> IF Unconfigured THEN "configure" ELSE "listen",
                       with |-> m, presents |-> "none"]
  <2>1. starter' = [starter EXCEPT ![t] = state]
    BY <1>2 DEF AutocertBegins
  <2>2. state \in StarterStates
    BY DEF StarterStates
  <2>3. /\ state.pc = "configure" => state.with \in CertManagers /\ h3.config = "unset"
        /\ state.pc = "listen" => h3.config # "unset"
        /\ state.pc # "serving"
    BY DEF Unconfigured
  <2> QED
    BY <1>2, <2>1, <2>2, <2>3, StarterStep DEF AutocertBegins
<1>3. CASE SetTLSConfig(t)
  BY <1>3, SetStep
<1>4. CASE StartFails(t) \/ ListenerFails(t)
  <2>1. AtRest \in StarterStates /\ AtRest.pc = "idle"
    BY DEF AtRest, StarterStates
  <2>2. h3.is # "none"
    BY <1>4 DEF StartFails, ListenerFails, ServersInv, StartsLater
  <2> QED
    BY <1>4, <2>1, <2>2, StarterStep DEF StartFails, ListenerFails
<1>5. ASSUME NEW config \in TLSConfigs \cup {"files"}, Serving(t, config),
             config = "files" \/ (config = h3.config /\ h3.config # "unset")
      PROVE  ServersInv'
  <2> DEFINE state == [starter[t] EXCEPT !.pc = "serving", !.presents = config]
  <2>1. starter' = [starter EXCEPT ![t] = state]
    BY <1>5 DEF Serving
  <2>2. state \in StarterStates /\ state.pc = "serving" /\ state.presents = config
    BY <1>1 DEF StarterStates
  <2> QED
    BY <1>5, <2>1, <2>2, StarterStep DEF Serving
<1>6. CASE ListenAndServe(t)
  BY <1>5, <1>6 DEF ListenAndServe, ServersInv, ServersTypeOK, ListensConfigured
<1>7. CASE ListenAndServeTLS(t) \/ ListenAndServeTLSWT(t)
  BY <1>5, <1>7 DEF ListenAndServeTLS, ListenAndServeTLSWT
<1> QED
  BY <1>2, <1>3, <1>4, <1>6, <1>7 DEF AutocertH3, AutocertWT

\* The steps that are not a goroutine's: constructors, and the end of the server.
LEMMA ServerSteps ==
    ASSUME ServersInv,
           \/ NewH3 \/ NewWT \/ StopServer \/ StopWT
           \/ \E m \in CertManagers : NewWithAutocert(m)
    PROVE  ServersInv'
<1>1. CASE NewH3 \/ \E m \in CertManagers : NewWithAutocert(m)
  BY <1>1, MakeStep DEF NewH3, NewWithAutocert, TLSConfigs
<1>2. CASE NewWT
  <2>1. /\ h3' \in [is : {"none", "open", "closed"}, config : TLSConfigs, wt : BOOLEAN]
        /\ h3'.is = "open" /\ h3'.config = h3.config
    BY <1>2 DEF NewWT, ServersInv, ServersTypeOK
  <2> QED
    BY <1>2, <2>1
    DEF NewWT, ServersInv, ServersTypeOK, StartsLater, FirstKept, ConfiguresFirst,
        ListensConfigured, FirstConfigServed
<1>3. CASE StopServer \/ StopWT
  <2>1. /\ h3' \in [is : {"none", "open", "closed"}, config : TLSConfigs, wt : BOOLEAN]
        /\ h3'.is = "closed" /\ h3'.config = h3.config
    BY <1>3 DEF StopServer, StopWT, ServersInv, ServersTypeOK
  <2>2. AtRest \in StarterStates /\ AtRest.pc = "idle"
    BY DEF AtRest, StarterStates
  <2>3. /\ starter' \in [Starters -> StarterStates]
        /\ \A t \in Starters : starter'[t] = starter[t] \/ starter'[t].pc = "idle"
    BY <1>3, <2>2 DEF StopServer, StopWT, ServersInv, ServersTypeOK
  <2>4. UNCHANGED <<firstConfig, overlapped>>
    BY <1>3 DEF StopServer, StopWT
  <2> QED
    BY <2>1, <2>3, <2>4
    DEF ServersInv, ServersTypeOK, StartsLater, FirstKept, ConfiguresFirst,
        ListensConfigured, FirstConfigServed
<1> QED
  BY <1>1, <1>2, <1>3

\* What the invariant is about is not the managers'.
LEMMA ServersStay ==
    ASSUME ServersInv, UNCHANGED <<h3, starter, firstConfig, overlapped>>
    PROVE  ServersInv'
  BY DEF ServersInv, ServersTypeOK, StartsLater, FirstKept, ConfiguresFirst,
         ListensConfigured, FirstConfigServed

\* The invariant holds in every state of the servers.
THEOREM ServersInvariance == ServersSpec => []ServersInv
<1>1. ASSUME ServersInv, ServersNext PROVE ServersInv'
  <2>1. ASSUME NEW m \in CertManagers,
               NewManager(m) \/ Hostnames(m) \/ AlterResult(m) \/ AlterGiven(m)
        PROVE  ServersInv'
    BY <1>1, <2>1, ServersStay DEF NewManager, Hostnames, AlterResult, AlterGiven
  <2> QED
    BY <1>1, <2>1, StarterSteps, ServerSteps DEF ServersNext
<1>2. ASSUME ServersInv, UNCHANGED serverVars PROVE ServersInv'
  BY <1>2, ServersStay DEF serverVars
<1>3. ServersInv /\ [ServersNext]_serverVars => ServersInv'
  BY <1>1, <1>2
<1> QED
  BY <1>3, ServersStart, PTL DEF ServersSpec

\* A listener presents the certificates of the first TLSConfig, for every number of
\* goroutines and managers, through failed starts, retries and stops: unless two
\* starts overlapped.
THEOREM FirstConfigServedHolds == ServersSpec => []FirstConfigServed
<1>1. ServersInv => FirstConfigServed
  BY DEF ServersInv
<1> QED
  BY <1>1, ServersInvariance, PTL

\* The contents an array of hostnames may have.
HostLists == {<<>>, Hosts, OtherHosts}

ManagerRecords ==
    [made : BOOLEAN, policy : {{}, Policy(HostsIn(Hosts))}, returned : {"none", "copy"},
     reported : {HostsIn(list) : list \in HostLists}]

\* The types of managers; what Hostnames returned is never the slice itself.
ManagersTypeOK ==
    /\ manager \in [CertManagers -> ManagerRecords]
    /\ arrays \in [CertManagers -> [given : HostLists, copy : HostLists]]

\* A manager has the hosts it was given and the policy made of them, and what it
\* reported are the hosts it has.
GivenKept(m) ==
    /\ manager[m].made =>
         arrays[m].given = Hosts /\ manager[m].policy = Policy(HostsIn(Hosts))
    /\ manager[m].returned # "none" =>
         manager[m].made /\ manager[m].reported = HostsIn(Hosts)

ManagersInv == ManagersTypeOK /\ \A m \in CertManagers \ altered : GivenKept(m)

\* There is no manager at the start.
LEMMA ManagersStart == ServersInit => ManagersInv
<1>1. NoManager \in ManagerRecords
  <2>1. HostsIn(<<>>) = {} /\ <<>> \in HostLists
    BY DEF HostsIn, HostLists
  <2> QED
    BY <2>1 DEF NoManager, ManagerRecords
<1>2. [given |-> <<>>, copy |-> <<>>] \in [given : HostLists, copy : HostLists]
  BY DEF HostLists
<1>3. ~NoManager.made /\ NoManager.returned = "none"
  BY DEF NoManager
<1> QED
  BY <1>1, <1>2, <1>3 DEF ServersInit, ManagersInv, ManagersTypeOK, GivenKept

\* The steps of one manager, and of its callers.
LEMMA ManagerSteps ==
    ASSUME ManagersInv, NEW m \in CertManagers,
           NewManager(m) \/ Hostnames(m) \/ AlterResult(m) \/ AlterGiven(m)
    PROVE  ManagersInv'
<1> DEFINE Lists == [given : HostLists, copy : HostLists]
<1>1. manager[m] \in ManagerRecords /\ arrays[m] \in Lists
  BY DEF ManagersInv, ManagersTypeOK
<1>2. Hosts \in HostLists /\ OtherHosts \in HostLists
  BY DEF HostLists
<1>3. CASE NewManager(m)
  <2> DEFINE rec == [NoManager EXCEPT !.made = TRUE, !.policy = Policy(HostsIn(Hosts))]
             lists == [given |-> Hosts, copy |-> <<>>]
  <2>1. /\ manager' = [manager EXCEPT ![m] = rec]
        /\ arrays' = [arrays EXCEPT ![m] = lists] /\ altered' = altered
    BY <1>3 DEF NewManager
  <2>2. /\ rec \in ManagerRecords
        /\ rec.policy = Policy(HostsIn(Hosts)) /\ rec.returned = "none"
    <3>1. HostsIn(<<>>) = {} /\ <<>> \in HostLists
      BY DEF HostsIn, HostLists
    <3> QED
      BY <3>1 DEF NoManager, ManagerRecords
  <2>3. lists \in Lists /\ lists.given = Hosts
    BY <1>2 DEF HostLists
  <2> HIDE DEF rec, lists
  <2> QED
    BY <2>1, <2>2, <2>3 DEF ManagersInv, ManagersTypeOK, GivenKept
<1>4. CASE Hostnames(m)
  <2> DEFINE list == arrays[m].given
             rec == [manager[m] EXCEPT !.returned = "copy", !.reported = HostsIn(list)]
             lists == [arrays[m] EXCEPT !["copy"] = list]
  <2>1. /\ manager' = [manager EXCEPT ![m] = rec] /\ manager[m].made
        /\ arrays' = [arrays EXCEPT ![m] = lists] /\ altered' = altered
    BY <1>4 DEF Hostnames, Result
  <2>2. list \in HostLists
    BY <1>1
  <2>3. lists \in Lists /\ lists.given = list
    BY <1>1
  <2> HIDE DEF list, lists
  <2>4. /\ rec \in ManagerRecords /\ rec.reported = HostsIn(list)
        /\ rec.policy = manager[m].policy /\ rec.made = manager[m].made
    BY <1>1, <2>2 DEF ManagerRecords
  <2>5. list = arrays[m].given
    BY DEF list
  <2> HIDE DEF rec
  <2> QED
    BY <2>1, <2>3, <2>4, <2>5 DEF ManagersInv, ManagersTypeOK, GivenKept
<1>5. CASE AlterResult(m)
  <2> DEFINE lists == [arrays[m] EXCEPT !["copy"] = OtherHosts]
  <2>1. arrays' = [arrays EXCEPT ![m] = lists] /\ manager' = manager /\ altered' = altered
    BY <1>1, <1>5 DEF AlterResult, ManagerRecords
  <2>2. lists \in Lists /\ lists.given = arrays[m].given
    BY <1>1, <1>2
  <2> HIDE DEF lists
  <2> QED
    BY <2>1, <2>2 DEF ManagersInv, ManagersTypeOK, GivenKept
<1>6. CASE AlterGiven(m)
  <2> DEFINE lists == [arrays[m] EXCEPT !.given = OtherHosts]
  <2>1. /\ arrays' = [arrays EXCEPT ![m] = lists]
        /\ manager' = manager /\ altered' = altered \cup {m}
    BY <1>6 DEF AlterGiven
  <2>2. lists \in Lists
    BY <1>1, <1>2
  <2> HIDE DEF lists
  <2> QED
    BY <2>1, <2>2 DEF ManagersInv, ManagersTypeOK, GivenKept
<1> QED
  BY <1>3, <1>4, <1>5, <1>6

\* What a manager has is not the servers'.
LEMMA ManagersStay ==
    ASSUME ManagersInv, UNCHANGED <<manager, arrays, altered>>
    PROVE  ManagersInv'
  BY DEF ManagersInv, ManagersTypeOK, GivenKept

\* The hostnames a manager reports come to its policy, for every conversion that
\* the policy makes and whatever hosts it drops, and whatever callers do with the
\* slices that were returned, unless the caller of New changed the one it gave.
THEOREM HostsKeptHolds == ServersSpec => []HostsKept
<1>1. ASSUME ManagersInv, ServersNext PROVE ManagersInv'
  <2>1. ASSUME NEW t \in Starters,
               \/ \E m \in CertManagers : AutocertH3(t, m) \/ AutocertWT(t, m)
               \/ SetTLSConfig(t) \/ StartFails(t) \/ ListenAndServe(t) \/ ListenAndServeTLS(t)
               \/ ListenAndServeTLSWT(t) \/ ListenerFails(t)
        PROVE  ManagersInv'
    BY <1>1, <2>1, ManagersStay
    DEF AutocertH3, AutocertWT, AutocertBegins, SetTLSConfig, StartFails, ListenAndServe,
        ListenAndServeTLS, ListenAndServeTLSWT, ListenerFails, Serving
  <2>2. ASSUME \/ NewH3 \/ NewWT \/ StopServer \/ StopWT
               \/ \E m \in CertManagers : NewWithAutocert(m)
        PROVE  ManagersInv'
    BY <1>1, <2>2, ManagersStay DEF NewH3, NewWT, StopServer, StopWT, NewWithAutocert, MadeWith
  <2> QED
    BY <1>1, <2>1, <2>2, ManagerSteps DEF ServersNext
<1>2. ASSUME ManagersInv, UNCHANGED serverVars PROVE ManagersInv'
  BY <1>2, ManagersStay DEF serverVars
<1>3. ManagersInv /\ [ServersNext]_serverVars => ManagersInv'
  BY <1>1, <1>2
<1>4. ManagersInv => HostsKept
  BY DEF ManagersInv, GivenKept, HostsKept
<1> QED
  BY <1>3, <1>4, ManagersStart, PTL DEF ServersSpec

-----------------------------------------------------------------------------
(* The Huma adapter.                                                        *)

Contexts ==
    [is : {"none", "running", "over"}, status : Int, wraps : Seq({"open", "opaque"}),
     path : Paths \cup {<<>>}]

\* The types, as far as the proofs need them; a request that is served has a path.
HumaTypeOK ==
    /\ ctx \in Contexts
    /\ Running => ctx.path \in Paths
    /\ misused \in BOOLEAN

\* What a middleware reads is what went to the client.
Agree ==
    /\ sent.header = header
    /\ \/ sent.code = Status
       \/ sent.code = 200 /\ (Status = 0 \/ Informational(Status))

\* As long as nothing is sent no final status was set; once it is, all agrees.
AgreeSoFar ==
    Running /\ ~misused =>
      /\ Committed => Agree
      /\ ~Committed => Status = 0 \/ Informational(Status)

HumaInv == HumaTypeOK /\ AgreeSoFar /\ StatusAsSent

\* There is no request at the start.
LEMMA HumaStart == HumaInit => HumaInv
<1> SUFFICES ASSUME HumaInit PROVE HumaInv
  OBVIOUS
<1>1. NoContext \in Contexts /\ NoContext.is = "none"
  BY DEF NoContext, Contexts
<1> QED
  BY <1>1 DEF HumaInit, HumaInv, HumaTypeOK, AgreeSoFar, StatusAsSent, Running

\* WriteHeader leaves a status that is sent as it is, and sends a final one.
LEMMA CommitIs ==
    ASSUME NEW code \in Codes \cup {200}
    PROVE  /\ Committed \/ Informational(code) => Commit(code) = sent
           /\ ~Committed /\ ~Informational(code) =>
                /\ Commit(code).code = code
                /\ Commit(code).header = header
                /\ Commit(code) # NotSent
<1>1. code # 0
  BY CodesAssumption
<1> QED
  BY <1>1 DEF Commit, Committed, NotSent

\* The handler sets a status.
LEMMA SetStatusStep ==
    ASSUME HumaInv, NEW code \in Codes, SetStatus(code)
    PROVE  HumaInv'
<1>1. /\ ctx' = [ctx EXCEPT !.status = code] /\ ctx.is = "running"
      /\ sent' = Commit(code) /\ header' = header
  BY DEF SetStatus, Running
<1>2. misused' = (misused \/ Committed)
  BY DEF SetStatus
<1>3. code \in Int
  BY CodesAssumption
<1>4. ctx' \in Contexts /\ ctx'.is = "running" /\ ctx'.status = code /\ ctx'.path = ctx.path
  BY <1>1, <1>3 DEF HumaInv, HumaTypeOK, Contexts
<1>5. HumaTypeOK'
  BY <1>1, <1>2, <1>4 DEF HumaInv, HumaTypeOK, Running
<1>6. ASSUME ~misused' PROVE (Committed => Agree)' /\ (~Committed => Status = 0 \/ Informational(Status))'
  <2>1. ~Committed
    BY <1>2, <1>6
  <2>2. CASE Informational(code)
    <3>1. sent' = sent
      BY <1>1, <2>1, <2>2, CommitIs
    <3> QED
      BY <1>4, <2>1, <2>2, <3>1 DEF Committed, Status, Informational
  <2>3. CASE ~Informational(code)
    <3>1. sent'.code = code /\ sent'.header = header
      BY <1>1, <2>1, <2>3, CommitIs
    <3>2. Agree'
      BY <1>1, <1>4, <3>1 DEF Agree, Status
    <3>3. Committed'
      BY <1>1, <2>1, <2>3, CommitIs DEF Committed, NotSent
    <3> QED
      BY <3>2, <3>3
  <2> QED
    BY <2>2, <2>3
<1> QED
  BY <1>4, <1>5, <1>6 DEF HumaInv, AgreeSoFar, StatusAsSent

\* The status is fixed to 200 unless it is already: by the first byte of the body,
\* and when the handler returns.
LEMMA Commit200 ==
    ASSUME HumaInv, Running, ~misused, sent' = Commit(200), header' = header,
           ctx'.status = ctx.status
    PROVE  Agree' /\ Committed'
<1>1. ~Informational(200)
  BY DEF Informational
<1>2. CASE Committed
  BY <1>2, CommitIs DEF HumaInv, AgreeSoFar, Agree, Status, Committed, NotSent, Informational
<1>3. CASE ~Committed
  <2>1. sent'.code = 200 /\ sent'.header = header'
    BY <1>1, <1>3, CommitIs
  <2>2. Committed'
    BY <1>1, <1>3, CommitIs DEF Committed, NotSent
  <2>3. Status' = 0 \/ Informational(Status')
    BY <1>3 DEF HumaInv, AgreeSoFar, Status, Informational
  <2> QED
    BY <2>1, <2>2, <2>3 DEF Agree, Informational
<1> QED
  BY <1>2, <1>3

\* The other steps of a handler.
LEMMA HandlerSteps ==
    ASSUME HumaInv,
           \/ \E kind \in {"open", "opaque"} : Wrap(kind)
           \/ \E code \in Codes : Unwrap(code)
           \/ \E value \in {"v", "w"} : SetHeader(value) \/ AppendHeader(value)
           \/ WriteBody \/ HandlerReturns
    PROVE  HumaInv'
<1>1. ctx \in Contexts /\ ctx.is = "running" /\ ctx.path \in Paths
  BY DEF HumaInv, HumaTypeOK, Running, Wrap, Unwrap, SetHeader, AppendHeader, HeaderTo,
         WriteBody, HandlerReturns
<1>2. ASSUME NEW kind \in {"open", "opaque"}, Wrap(kind) PROVE HumaInv'
  <2>1. /\ ctx' \in Contexts /\ ctx'.is = "running"
        /\ ctx'.status = ctx.status /\ ctx'.path = ctx.path
    <3> DEFINE wraps == Append(ctx.wraps, kind)
    <3>1. wraps \in Seq({"open", "opaque"})
      BY <1>1, AppendProperties DEF Contexts
    <3>2. ctx' = [ctx EXCEPT !.wraps = wraps]
      BY <1>2 DEF Wrap
    <3> HIDE DEF wraps
    <3> QED
      BY <1>1, <3>1, <3>2 DEF Contexts
  <2> QED
    BY <1>1, <1>2, <2>1
    DEF Wrap, HumaInv, HumaTypeOK, AgreeSoFar, StatusAsSent, Running, Committed, Agree, Status,
        NotSent, Informational
<1>3. ASSUME NEW code \in Codes, Unwrap(code) PROVE HumaInv'
  <2>1. misused' = TRUE
    BY <1>3 DEF Unwrap
  <2>2. ctx' \in Contexts /\ ctx'.path \in Paths
    BY <1>1, <1>3 DEF Unwrap, Contexts
  <2> QED
    BY <2>1, <2>2 DEF HumaInv, HumaTypeOK, AgreeSoFar, StatusAsSent
<1>4. ASSUME NEW values, HeaderTo(values) PROVE HumaInv'
  <2>1. /\ ctx' = ctx /\ sent' = sent
        /\ misused' \in BOOLEAN
        /\ ~misused' => ~misused /\ ~Committed
    BY <1>4 DEF HeaderTo, HumaInv, HumaTypeOK
  <2> QED
    BY <1>1, <2>1
    DEF HumaInv, HumaTypeOK, AgreeSoFar, StatusAsSent, Running, Committed, NotSent, Status,
        Informational
<1>5. CASE WriteBody
  <2>1. ctx' = ctx /\ header' = header /\ misused' = misused /\ sent' = Commit(200) /\ Running
    BY <1>5 DEF WriteBody
  <2>2. ~misused => Agree' /\ Committed'
    BY <2>1, Commit200
  <2> QED
    BY <1>1, <2>1, <2>2 DEF HumaInv, HumaTypeOK, AgreeSoFar, StatusAsSent, Running
<1>6. CASE HandlerReturns
  <2>1. /\ ctx' = [ctx EXCEPT !.is = "over"] /\ header' = header
        /\ misused' = misused /\ sent' = Commit(200) /\ Running
    BY <1>6 DEF HandlerReturns
  <2>2. /\ ctx' \in Contexts /\ ctx'.is = "over"
        /\ ctx'.status = ctx.status
    BY <1>1, <2>1 DEF Contexts
  <2>3. ~misused => Agree'
    BY <2>1, <2>2, Commit200
  <2> QED
    BY <2>1, <2>2, <2>3 DEF HumaInv, HumaTypeOK, AgreeSoFar, StatusAsSent, Running, Agree
<1> QED
  BY <1>2, <1>3, <1>4, <1>5, <1>6 DEF SetHeader, AppendHeader

\* Registration, and the beginning and the end of a request.
LEMMA RouterSteps ==
    ASSUME HumaInv,
           \/ NewAdapter \/ NextRequest
           \/ \E op \in Operations :
                Handle(op) \/ \E path \in Paths : ServeHTTP(op, path)
    PROVE  HumaInv'
<1>1. CASE NewAdapter \/ \E op \in Operations : Handle(op)
  BY <1>1
  DEF NewAdapter, Handle, HumaInv, HumaTypeOK, AgreeSoFar, StatusAsSent, Running, Committed,
      Agree, Status, NotSent, Informational
<1>2. NoContext \in Contexts /\ NoContext.is = "none"
  BY DEF NoContext, Contexts
<1>3. CASE NextRequest
  BY <1>2, <1>3
  DEF NextRequest, HumaInv, HumaTypeOK, AgreeSoFar, StatusAsSent, Running
<1>4. ASSUME NEW op \in Operations, NEW path \in Paths, ServeHTTP(op, path)
      PROVE  HumaInv'
  <2>1. CASE op \in routes
    <3>1. /\ ctx' = [NoContext EXCEPT !.is = "running", !.path = path]
          /\ sent' = NotSent /\ misused' = FALSE
      BY <1>4, <2>1 DEF ServeHTTP
    <3>2. /\ ctx' \in Contexts /\ ctx'.is = "running"
          /\ ctx'.status = 0 /\ ctx'.path = path
      <4>1. NoContext.status = 0
        BY DEF NoContext
      <4> QED
        BY <1>2, <3>1, <4>1 DEF Contexts
    <3> QED
      BY <3>1, <3>2 DEF HumaInv, HumaTypeOK, AgreeSoFar, StatusAsSent, Running, Committed, Status,
                        NotSent
  <2>2. CASE op \notin routes
    <3>1. ctx' = NoContext /\ misused' = FALSE
      BY <1>4, <2>2 DEF ServeHTTP
    <3> QED
      BY <1>2, <3>1 DEF HumaInv, HumaTypeOK, AgreeSoFar, StatusAsSent, Running
  <2> QED
    BY <2>1, <2>2
<1> QED
  BY <1>1, <1>3, <1>4

\* The invariant holds in every state of the adapter.
THEOREM HumaInvariance == HumaSpec => []HumaInv
<1>1. ASSUME HumaInv, HumaNext PROVE HumaInv'
  BY <1>1, SetStatusStep, HandlerSteps, RouterSteps DEF HumaNext
<1>2. ASSUME HumaInv, UNCHANGED humaVars PROVE HumaInv'
  BY <1>2 DEF humaVars, HumaInv, HumaTypeOK, AgreeSoFar, StatusAsSent, Running, Committed, Agree,
              Status, NotSent, Informational
<1>3. HumaInv /\ [HumaNext]_humaVars => HumaInv'
  BY <1>1, <1>2
<1> QED
  BY <1>3, HumaStart, PTL DEF HumaSpec

\* The status that middlewares read and the headers are those the client got, for
\* all statuses, headers and orders of a handler's calls that are not misuse.
THEOREM StatusAsSentHolds == HumaSpec => []StatusAsSent
<1>1. HumaInv => StatusAsSent
  BY DEF HumaInv
<1> QED
  BY <1>1, HumaInvariance, PTL

\* Unescaping a segment again changes it just when it has an escape left.
LEMMA UnescapedAgain ==
    ASSUME NEW v \in Seq([c : STRING, layers : Nat])
    PROVE  PathUnescape(v) # v <=> \E j \in DOMAIN v : v[j].layers > 0
<1> DEFINE Chars == [c : STRING, layers : Nat]
           less(ch) == [ch EXCEPT !.layers = IF @ = 0 THEN 0 ELSE @ - 1]
<1>1. \A j \in DOMAIN v : v[j] \in Chars
  <2> HIDE DEF Chars
  <2>1. v \in Seq(Chars)
    BY DEF Chars
  <2> QED
    BY <2>1, ElementOfSeq, LenProperties
<1>2. \A j \in DOMAIN v : less(v[j]) = v[j] <=> v[j].layers = 0
  <2> SUFFICES ASSUME NEW ch \in Chars PROVE less(ch) = ch <=> ch.layers = 0
    BY <1>1
  <2>1. ch.layers \in Nat /\ less(ch).layers = IF ch.layers = 0 THEN 0 ELSE ch.layers - 1
    OBVIOUS
  <2>2. CASE ch.layers = 0
    BY <2>2
  <2>3. CASE ch.layers # 0
    BY <2>1, <2>3
  <2> QED
    BY <2>2, <2>3
<1>3. PathUnescape(v) = [j \in DOMAIN v |-> less(v[j])]
  BY DEF PathUnescape
<1>4. v = [j \in DOMAIN v |-> v[j]]
  OBVIOUS
<1>5. \A j \in DOMAIN v : v[j].layers \in Nat
  BY <1>1
<1> HIDE DEF less
<1>6. PathUnescape(v) = v <=> \A j \in DOMAIN v : less(v[j]) = v[j]
  BY <1>3, <1>4
<1> QED
  BY <1>2, <1>5, <1>6

\* What ServeMux has for a parameter is a segment again.
LEMMA SegmentUnescaped ==
    ASSUME NEW path \in Paths, NEW i \in DOMAIN path
    PROVE  PathUnescape(path[i]) \in Seq([c : STRING, layers : Nat])
<1> DEFINE Chars == [c : STRING, layers : Nat]
<1>1. path[i] \in Seq(Chars)
  <2> DEFINE Segments == Seq(Chars)
  <2>1. path \in Seq(Segments)
    BY PathsAssumption
  <2> HIDE DEF Segments
  <2>2. path[i] \in Segments
    BY <2>1, ElementOfSeq, LenProperties
  <2> QED
    BY <2>2 DEF Segments
<1>2. PICK segment \in Seq(Chars) : segment = path[i]
  BY <1>1
<1>3. DOMAIN segment = 1 .. Len(segment) /\ Len(segment) \in Nat
  BY LenProperties
<1>4. \A j \in DOMAIN segment : segment[j] \in Chars
  <2> HIDE DEF Chars
  <2> QED
    BY ElementOfSeq, <1>3
<1>5. \A ch \in Chars : [ch EXCEPT !.layers = IF @ = 0 THEN 0 ELSE @ - 1] \in Chars
  OBVIOUS
<1>6. PathUnescape(segment) \in [1 .. Len(segment) -> Chars]
  <2> HIDE DEF Chars
  <2> QED
    BY <1>3, <1>4, <1>5 DEF PathUnescape
<1> HIDE DEF Chars
<1>7. PathUnescape(segment) \in Seq(Chars)
  BY <1>3, <1>6
<1> QED
  BY <1>2, <1>7 DEF Chars

\* A parameter is unescaped twice in just the requests that the property names, and
\* once in all others, for all paths.
THEOREM ParamUnescapedOnceHolds == HumaSpec => []ParamUnescapedOnce
<1>1. ASSUME HumaInv, Running, NEW i \in DOMAIN ctx.path
      PROVE  LET once == PathUnescape(ctx.path[i])
             IN  Param(ctx.path, i) # once <=>
                   /\ HasRawPath(ctx.path)
                   /\ \E j \in DOMAIN once : once[j].layers > 0
                   /\ ~BarePercent(once)
  <2> DEFINE once == PathUnescape(ctx.path[i])
  <2>1. ctx.path \in Paths
    BY <1>1 DEF HumaInv, HumaTypeOK
  <2>2. once \in Seq([c : STRING, layers : Nat])
    BY <1>1, <2>1, SegmentUnescaped
  <2>3. Param(ctx.path, i) =
          IF ~HasRawPath(ctx.path) \/ BarePercent(once) THEN once ELSE PathUnescape(once)
    BY DEF Param, PathValue
  <2> HIDE DEF once
  <2>4. PathUnescape(once) # once <=> \E j \in DOMAIN once : once[j].layers > 0
    BY <2>2, UnescapedAgain
  <2>5. Param(ctx.path, i) # once <=>
          /\ HasRawPath(ctx.path)
          /\ \E j \in DOMAIN once : once[j].layers > 0
          /\ ~BarePercent(once)
    BY <2>3, <2>4
  <2> QED
    BY <2>5 DEF once
<1>2. HumaInv => ParamUnescapedOnce
  BY <1>1 DEF ParamUnescapedOnce
<1> QED
  BY <1>2, HumaInvariance, PTL

-----------------------------------------------------------------------------
(* The zerolog adapter.                                                     *)

Fields == [key : STRING, type : STRING]
WrittenFields == [key : STRING \cup {"error"}, form : {"plain", "text", "json"}]
Loggers == [buffer : Nat, level : LoggerLevels, context : {"none", "request"}, given : Seq(Fields)]

\* The types, as far as the proofs need them.
LogTypeOK ==
    /\ loggers \in Seq(Loggers)
    /\ buffers \in Seq(Seq(WrittenFields))
    /\ loggers = <<>> => entry = Silent

\* A buffer has the fields that were given, in their order and under their keys.
Holds(written, given) ==
    /\ Len(written) = Len(given)
    /\ \A i \in 1 .. Len(given) : written[i].key = given[i].key

\* Each logger has a buffer, with its own fields and those of its ancestors.
BuffersHold ==
    \A l \in 1 .. Len(loggers) :
      /\ loggers[l].buffer \in 1 .. Len(buffers)
      /\ Holds(buffers[loggers[l].buffer], loggers[l].given)

LogInv ==
    /\ LogTypeOK /\ BuffersHold /\ EntryWhole
    /\ entry # Silent => entry.logger \in 1 .. Len(loggers)

\* A function on 1 .. n is a sequence of that length.
LEMMA FunctionIsSeq ==
    ASSUME NEW S, NEW n \in Nat, NEW f \in [1 .. n -> S]
    PROVE  f \in Seq(S) /\ Len(f) = n
<1>1. f \in Seq(S)
  BY SeqDef
<1>2. Len(f) \in Nat /\ DOMAIN f = 1 .. Len(f)
  BY <1>1, LenProperties
<1>3. 1 .. Len(f) = 1 .. n
  BY <1>2
<1> QED
  BY <1>1, <1>2, <1>3

\* The fields of a call or of WithFields.
LEMMA FieldListIs ==
    ASSUME NEW fields, fields \in FieldLists \/ fields \in Seq(Fields)
    PROVE  /\ fields \in Seq(Fields)
           /\ Len(fields) \in Nat
           /\ DOMAIN fields = 1 .. Len(fields)
           /\ \A i \in 1 .. Len(fields) : fields[i] \in Fields
<1>1. fields \in Seq(Fields)
  BY FieldsAssumption DEF Fields
<1> QED
  BY <1>1, LenProperties, ElementOfSeq

\* WithFields keeps every key, and addFields all keys but those of errors.
LEMMA FieldForms ==
    ASSUME NEW field \in Fields
    PROVE  /\ Kept(field) \in WrittenFields /\ Kept(field).key = field.key
           /\ Written(field) \in WrittenFields
           /\ Written(field).key = field.key \/ field.type = "error"
  BY DEF Fields, WrittenFields, Kept, Written, Interface

\* The fields of a logger with more fields.
LEMMA KeptFields ==
    ASSUME NEW written \in Seq(WrittenFields), NEW given \in Seq(Fields), Holds(written, given),
           NEW fields \in Seq(Fields)
    PROVE  /\ written \o [i \in DOMAIN fields |-> Kept(fields[i])] \in Seq(WrittenFields)
           /\ given \o fields \in Seq(Fields)
           /\ Holds(written \o [i \in DOMAIN fields |-> Kept(fields[i])], given \o fields)
<1> DEFINE kept == [i \in DOMAIN fields |-> Kept(fields[i])]
<1>1. /\ fields \in Seq(Fields) /\ Len(fields) \in Nat /\ DOMAIN fields = 1 .. Len(fields)
      /\ \A i \in 1 .. Len(fields) : fields[i] \in Fields
  BY FieldListIs
<1>2. \A i \in 1 .. Len(fields) : kept[i] \in WrittenFields /\ kept[i].key = fields[i].key
  BY <1>1, FieldForms
<1>3. kept \in [1 .. Len(fields) -> WrittenFields]
  BY <1>1, <1>2
<1> HIDE DEF kept
<1>4. kept \in Seq(WrittenFields) /\ Len(kept) = Len(fields)
  BY <1>1, <1>3, FunctionIsSeq
<1>5. Len(written) \in Nat /\ Len(given) \in Nat /\ Len(written) = Len(given)
  BY LenProperties DEF Holds
<1>6. /\ written \o kept \in Seq(WrittenFields)
      /\ Len(written \o kept) = Len(written) + Len(kept)
      /\ \A i \in 1 .. Len(written) + Len(kept) :
           (written \o kept)[i] = IF i <= Len(written) THEN written[i] ELSE kept[i - Len(written)]
  BY <1>4, ConcatProperties
<1>7. /\ given \o fields \in Seq(Fields)
      /\ Len(given \o fields) = Len(given) + Len(fields)
      /\ \A i \in 1 .. Len(given) + Len(fields) :
           (given \o fields)[i] = IF i <= Len(given) THEN given[i] ELSE fields[i - Len(given)]
  BY <1>1, ConcatProperties
<1>8. ASSUME NEW i \in 1 .. Len(given) + Len(fields)
      PROVE  (written \o kept)[i].key = (given \o fields)[i].key
  <2>1. CASE i <= Len(given)
    <3>1. i \in 1 .. Len(given)
      BY <1>5, <2>1
    <3> QED
      BY <1>1, <1>4, <1>5, <1>6, <1>7, <2>1, <3>1 DEF Holds
  <2>2. CASE ~(i <= Len(given))
    <3>1. i - Len(given) \in 1 .. Len(fields)
      BY <1>1, <1>5, <2>2
    <3> QED
      BY <1>1, <1>2, <1>4, <1>5, <1>6, <1>7, <2>2, <3>1
  <2> QED
    BY <2>1, <2>2
<1>9. Holds(written \o kept, given \o fields)
  BY <1>1, <1>4, <1>5, <1>6, <1>7, <1>8 DEF Holds
<1> QED
  BY <1>6, <1>7, <1>9 DEF kept

\* The fields of an entry.
LEMMA EntryFields ==
    ASSUME NEW written \in Seq(WrittenFields), NEW given \in Seq(Fields), Holds(written, given),
           NEW fields \in FieldLists
    PROVE  /\ Len(AddFields(written, fields)) = Len(given \o fields)
           /\ DOMAIN (given \o fields) = 1 .. Len(given) + Len(fields)
           /\ \A i \in 1 .. Len(given) + Len(fields) :
                \/ AddFields(written, fields)[i].key = (given \o fields)[i].key
                \/ i > Len(given) /\ (given \o fields)[i].type = "error"
<1> DEFINE forms == [i \in DOMAIN fields |-> Written(fields[i])]
<1>1. /\ fields \in Seq(Fields) /\ Len(fields) \in Nat /\ DOMAIN fields = 1 .. Len(fields)
      /\ \A i \in 1 .. Len(fields) : fields[i] \in Fields
  BY FieldListIs
<1>2. \A i \in 1 .. Len(fields) :
        forms[i] \in WrittenFields /\ (forms[i].key = fields[i].key \/ fields[i].type = "error")
  BY <1>1, FieldForms
<1>3. forms \in [1 .. Len(fields) -> WrittenFields]
  BY <1>1, <1>2
<1>4. AddFields(written, fields) = written \o forms
  BY DEF AddFields
<1> HIDE DEF forms
<1>5. forms \in Seq(WrittenFields) /\ Len(forms) = Len(fields)
  BY <1>1, <1>3, FunctionIsSeq
<1>6. Len(written) \in Nat /\ Len(given) \in Nat /\ Len(written) = Len(given)
  BY LenProperties DEF Holds
<1>7. /\ Len(written \o forms) = Len(written) + Len(forms)
      /\ \A i \in 1 .. Len(written) + Len(forms) :
           (written \o forms)[i] = IF i <= Len(written) THEN written[i] ELSE forms[i - Len(written)]
  BY <1>5, ConcatProperties
<1>8. /\ given \o fields \in Seq(Fields)
      /\ Len(given \o fields) = Len(given) + Len(fields)
      /\ \A i \in 1 .. Len(given) + Len(fields) :
           (given \o fields)[i] = IF i <= Len(given) THEN given[i] ELSE fields[i - Len(given)]
  BY <1>1, ConcatProperties
<1>9. DOMAIN (given \o fields) = 1 .. Len(given) + Len(fields)
  BY <1>8, LenProperties
<1>10. ASSUME NEW i \in 1 .. Len(given) + Len(fields)
       PROVE  \/ (written \o forms)[i].key = (given \o fields)[i].key
              \/ i > Len(given) /\ (given \o fields)[i].type = "error"
  <2>1. CASE i <= Len(given)
    <3>1. i \in 1 .. Len(given)
      BY <1>6, <2>1
    <3> QED
      BY <1>1, <1>5, <1>6, <1>7, <1>8, <2>1, <3>1 DEF Holds
  <2>2. CASE ~(i <= Len(given))
    <3>1. i - Len(given) \in 1 .. Len(fields) /\ i > Len(given)
      BY <1>1, <1>6, <2>2
    <3> QED
      BY <1>1, <1>2, <1>5, <1>6, <1>7, <1>8, <2>2, <3>1
  <2> QED
    BY <2>1, <2>2
<1> QED
  BY <1>4, <1>5, <1>6, <1>7, <1>8, <1>9, <1>10

\* A logger and its buffer.
LEMMA LoggerIs ==
    ASSUME LogInv, NEW l \in 1 .. Len(loggers)
    PROVE  /\ loggers[l] \in Loggers
           /\ loggers[l].given \in Seq(Fields)
           /\ loggers[l].buffer \in 1 .. Len(buffers)
           /\ buffers[loggers[l].buffer] \in Seq(WrittenFields)
           /\ Holds(buffers[loggers[l].buffer], loggers[l].given)
<1>1. loggers \in Seq(Loggers) /\ buffers \in Seq(Seq(WrittenFields))
  BY DEF LogInv, LogTypeOK
<1>2. loggers[l] \in Loggers
  BY <1>1, ElementOfSeq
<1>3. loggers[l].given \in Seq(Fields)
  BY <1>2 DEF Loggers
<1>4. loggers[l].buffer \in 1 .. Len(buffers) /\ Holds(buffers[loggers[l].buffer], loggers[l].given)
  BY DEF LogInv, BuffersHold
<1>5. \A b \in 1 .. Len(buffers) : buffers[b] \in Seq(WrittenFields)
  BY <1>1, ElementOfSeq
<1> QED
  BY <1>2, <1>3, <1>4, <1>5

\* A logger with another buffer, context and fields.
Changed(logger, buffer, context, given) ==
    [logger EXCEPT !.buffer = buffer, !.context = context, !.given = given]

\* It has those.
LEMMA ChangedFields ==
    ASSUME NEW logger \in Loggers, NEW buffer, NEW context, NEW given
    PROVE  /\ Changed(logger, buffer, context, given).buffer = buffer
           /\ Changed(logger, buffer, context, given).given = given
  BY DEF Changed, Loggers

\* It is a logger.
LEMMA ChangedLogger ==
    ASSUME NEW logger \in Loggers, NEW buffer \in Nat, NEW context \in {"none", "request"},
           NEW given \in Seq(Fields)
    PROVE  Changed(logger, buffer, context, given) \in Loggers
<1> DEFINE Sequences == Seq(Fields)
<1>1. given \in Sequences /\ Loggers = [buffer : Nat, level : LoggerLevels,
                                       context : {"none", "request"}, given : Sequences]
  BY DEF Loggers
<1> HIDE DEF Sequences
<1> QED
  BY <1>1 DEF Changed

\* There is no logger at the start.
LEMMA LogStart == LogInit => LogInv
<1> SUFFICES ASSUME LogInit PROVE LogInv
  OBVIOUS
<1>1. loggers = <<>> /\ buffers = <<>> /\ entry = Silent
  BY DEF LogInit
<1>2. LogTypeOK
  BY <1>1, EmptySeq DEF LogTypeOK
<1>3. BuffersHold
  BY <1>1, EmptySeq DEF BuffersHold
<1>4. EntryWhole
  BY <1>1 DEF EntryWhole
<1> QED
  BY <1>1, <1>2, <1>3, <1>4 DEF LogInv

\* A logger is made of nothing.
LEMMA NewLoggerStep ==
    ASSUME LogInv, NEW level \in LoggerLevels, NewLogger(level)
    PROVE  LogInv'
<1> DEFINE rec == [buffer |-> 1, level |-> level, context |-> "none", given |-> <<>>]
           none == <<>>
<1>1. loggers' = <<rec>> /\ buffers' = <<none>> /\ entry' = entry
  BY DEF NewLogger
<1>2. entry = Silent
  BY DEF NewLogger, LogInv, LogTypeOK
<1>3. rec \in Loggers
  BY EmptySeq DEF Loggers
<1>4. rec.buffer = 1 /\ rec.given = none
  OBVIOUS
<1>5. none \in Seq(WrittenFields) /\ Len(none) = 0
  BY EmptySeq
<1> HIDE DEF rec, none
<1>6. loggers' \in Seq(Loggers) /\ Len(loggers') = 1 /\ loggers'[1] = rec
  BY <1>1, <1>3
<1>7. buffers' \in Seq(Seq(WrittenFields)) /\ Len(buffers') = 1 /\ buffers'[1] = none
  BY <1>1, <1>5
<1>8. LogTypeOK'
  BY <1>1, <1>2, <1>6, <1>7 DEF LogTypeOK, Silent
<1>9. BuffersHold'
  BY <1>4, <1>5, <1>6, <1>7 DEF BuffersHold, Holds
<1> QED
  BY <1>1, <1>2, <1>8, <1>9 DEF LogInv, EntryWhole, Silent

\* A logger is made of another one, whose buffer and fields stay as they are.
LEMMA DerivedStep ==
    ASSUME LogInv, NEW l \in 1 .. Len(loggers), NEW fields \in Seq(Fields),
           NEW context \in {"none", "request"}, Derived(l, fields, context),
           UNCHANGED <<entry, process>>
    PROVE  LogInv'
<1> DEFINE old == buffers[loggers[l].buffer]
           new == old \o [i \in DOMAIN fields |-> Kept(fields[i])]
           rec == [loggers[l] EXCEPT !.buffer = Len(buffers) + 1, !.context = context,
                                     !.given = @ \o fields]
<1>1. loggers \in Seq(Loggers) /\ buffers \in Seq(Seq(WrittenFields))
  BY DEF LogInv, LogTypeOK
<1>2. Len(loggers) \in Nat /\ Len(buffers) \in Nat
  BY <1>1, LenProperties
<1>3. /\ loggers[l] \in Loggers /\ old \in Seq(WrittenFields)
      /\ loggers[l].given \in Seq(Fields) /\ Holds(old, loggers[l].given)
  BY LoggerIs
<1>4. /\ new \in Seq(WrittenFields)
      /\ loggers[l].given \o fields \in Seq(Fields)
      /\ Holds(new, loggers[l].given \o fields)
  BY <1>3, KeptFields
<1>5. rec \in Loggers /\ rec.buffer = Len(buffers) + 1 /\ rec.given = loggers[l].given \o fields
  <2>1. PICK n \in Nat : n = Len(buffers) + 1
    BY <1>2
  <2>2. PICK all \in Seq(Fields) : all = loggers[l].given \o fields
    BY <1>4
  <2>3. PICK old_logger \in Loggers : old_logger = loggers[l]
    BY <1>3
  <2>4. rec = Changed(old_logger, n, context, all)
    BY <2>1, <2>2, <2>3 DEF Changed
  <2> HIDE DEF rec
  <2> QED
    <3>1. rec.buffer = n
      BY <2>4, ChangedFields
    <3>2. rec.given = all
      BY <2>4, ChangedFields
    <3>3. rec \in Loggers
      BY <2>4, ChangedLogger
    <3> QED
      BY <2>1, <2>2, <3>1, <3>2, <3>3
<1>6. buffers' = Append(buffers, new) /\ loggers' = Append(loggers, rec)
  BY DEF Derived
<1> HIDE DEF old, new, rec
<1>7. /\ buffers' \in Seq(Seq(WrittenFields)) /\ Len(buffers') = Len(buffers) + 1
      /\ buffers'[Len(buffers) + 1] = new
      /\ \A b \in 1 .. Len(buffers) : buffers'[b] = buffers[b]
  BY <1>1, <1>4, <1>6, AppendProperties
<1>8. /\ loggers' \in Seq(Loggers) /\ Len(loggers') = Len(loggers) + 1
      /\ loggers'[Len(loggers) + 1] = rec
      /\ \A k \in 1 .. Len(loggers) : loggers'[k] = loggers[k]
  BY <1>1, <1>5, <1>6, AppendProperties
<1>9. LogTypeOK'
  <2>1. loggers' # <<>>
    BY <1>2, <1>8, EmptySeq
  <2> QED
    BY <1>7, <1>8, <2>1 DEF LogTypeOK
<1>10. BuffersHold'
  <2>1. ASSUME NEW k \in 1 .. Len(loggers) + 1
        PROVE  /\ loggers'[k].buffer \in 1 .. Len(buffers) + 1
               /\ Holds(buffers'[loggers'[k].buffer], loggers'[k].given)
    <3>1. CASE k = Len(loggers) + 1
      <4>1. loggers'[k] = rec
        BY <1>8, <3>1
      <4>2. rec.buffer \in 1 .. Len(buffers) + 1 /\ buffers'[rec.buffer] = new
        BY <1>2, <1>5, <1>7
      <4>3. Holds(new, rec.given)
        BY <1>4, <1>5
      <4> QED
        BY <4>1, <4>2, <4>3
    <3>2. CASE k # Len(loggers) + 1
      <4>1. k \in 1 .. Len(loggers)
        BY <1>2, <3>2
      <4>2. loggers'[k] = loggers[k]
        BY <1>8, <4>1
      <4>3. /\ loggers[k].buffer \in 1 .. Len(buffers)
            /\ Holds(buffers[loggers[k].buffer], loggers[k].given)
        BY <4>1, LoggerIs
      <4>4. /\ loggers[k].buffer \in 1 .. Len(buffers) + 1
            /\ buffers'[loggers[k].buffer] = buffers[loggers[k].buffer]
        BY <1>2, <1>7, <4>3
      <4> QED
        BY <4>2, <4>3, <4>4
    <3> QED
      BY <3>1, <3>2
  <2> QED
    BY <1>7, <1>8, <2>1 DEF BuffersHold
<1>11. EntryWhole' /\ (entry # Silent => entry.logger \in 1 .. Len(loggers))'
  <2>1. CASE entry = Silent
    BY <2>1 DEF EntryWhole, Silent
  <2>2. CASE entry # Silent
    <3>1. entry.logger \in 1 .. Len(loggers) /\ EntryWhole
      BY <2>2 DEF LogInv
    <3>2. /\ loggers'[entry.logger] = loggers[entry.logger]
          /\ entry.logger \in 1 .. Len(loggers')
      BY <1>2, <1>8, <3>1
    <3>3. entry' = entry /\ process' = process
      OBVIOUS
    <3>4. EntryWhole'
      BY <2>2, <3>1, <3>2, <3>3 DEF EntryWhole
    <3> QED
      BY <3>2, <3>3, <3>4
  <2> QED
    BY <2>1, <2>2
<1> QED
  BY <1>9, <1>10, <1>11 DEF LogInv

\* A call writes an entry, or not.
LEMMA LogStep ==
    ASSUME LogInv, NEW level \in DOMAIN Level, NEW l \in 1 .. Len(loggers),
           NEW fields \in FieldLists, Log(level, l, fields)
    PROVE  LogInv'
<1> DEFINE written == buffers[loggers[l].buffer]
           given == loggers[l].given
<1>1. /\ written \in Seq(WrittenFields) /\ given \in Seq(Fields) /\ Holds(written, given)
  BY LoggerIs
<1>2. /\ entry'.is = "written" <=> Enough(level, l)
      /\ entry'.level = level /\ entry'.logger = l
      /\ entry'.fields = AddFields(written, fields) /\ entry'.given = fields
  BY DEF Log
<1>3. loggers' = loggers /\ buffers' = buffers /\ process' = AfterEvent(level, l) /\ loggers # <<>>
  BY DEF Log, Active
<1> DEFINE asked == given \o fields
<1>4. /\ Len(AddFields(written, fields)) = Len(asked)
      /\ \A i \in DOMAIN asked :
           \/ AddFields(written, fields)[i].key = asked[i].key
           \/ i > Len(given) /\ asked[i].type = "error"
  BY <1>1, EntryFields
<1>5. process' = "running" <=> level \notin {"panic", "fatal"}
  BY <1>3 DEF AfterEvent
<1>6. EntryWhole'
  <2>1. /\ loggers'[entry'.logger].given = given /\ entry'.given = fields
        /\ loggers'[entry'.logger].level = loggers[l].level
    BY <1>2, <1>3
  <2> HIDE DEF written, given
  <2>2. /\ Len(entry'.fields) = Len(loggers'[entry'.logger].given \o entry'.given)
        /\ \A i \in DOMAIN (loggers'[entry'.logger].given \o entry'.given) :
             \/ entry'.fields[i].key = (loggers'[entry'.logger].given \o entry'.given)[i].key
             \/ /\ i > Len(loggers'[entry'.logger].given)
                /\ (loggers'[entry'.logger].given \o entry'.given)[i].type = "error"
    BY <1>2, <1>4, <2>1
  <2>3. entry'.is = "written" <=> Level[entry'.level] >= loggers'[entry'.logger].level
    BY <1>2, <2>1 DEF Enough
  <2>4. process' = "running" <=> entry'.level \notin {"panic", "fatal"}
    BY <1>2, <1>5
  <2> QED
    BY <2>2, <2>3, <2>4 DEF EntryWhole, Level
<1> QED
  BY <1>2, <1>3, <1>6 DEF LogInv, LogTypeOK, BuffersHold

\* The invariant holds in every state of the loggers.
THEOREM LogInvariance == LogSpec => []LogInv
<1>1. ASSUME LogInv, LogNext PROVE LogInv'
  <2>1. DOMAIN loggers = 1 .. Len(loggers) /\ \A l \in 1 .. Len(loggers) : loggers[l] \in Loggers
    BY <1>1, LenProperties, ElementOfSeq DEF LogInv, LogTypeOK
  <2>2. ASSUME NEW level \in LoggerLevels, NewLogger(level) PROVE LogInv'
    BY <1>1, <2>2, NewLoggerStep
  <2>3. ASSUME NEW l \in 1 .. Len(loggers), WithContext(l, "request") PROVE LogInv'
    BY <1>1, <2>3, EmptySeq, DerivedStep DEF WithContext
  <2>4. ASSUME NEW l \in 1 .. Len(loggers), NEW fields \in FieldLists, WithFields(l, fields)
        PROVE  LogInv'
    <3>1. fields \in Seq(Fields)
      BY FieldListIs
    <3> QED
      BY <1>1, <2>1, <2>4, <3>1, DerivedStep DEF WithFields, Loggers
  <2>5. CASE Recover
    BY <1>1, <2>5 DEF Recover, LogInv, LogTypeOK, BuffersHold, EntryWhole, Silent
  <2> QED
    BY <1>1, <2>1, <2>2, <2>3, <2>4, <2>5, LogStep DEF LogNext
<1>2. ASSUME LogInv, UNCHANGED logVars PROVE LogInv'
  BY <1>2 DEF logVars, LogInv, LogTypeOK, BuffersHold, EntryWhole, Silent, Level
<1>3. LogInv /\ [LogNext]_logVars => LogInv'
  BY <1>1, <1>2
<1> QED
  BY <1>3, LogStart, PTL DEF LogSpec

\* An entry has the fields of its own logger and of the call, in their order, for
\* every tree of loggers, every list of fields and every order of calls.
THEOREM EntryWholeHolds == LogSpec => []EntryWhole
<1>1. LogInv => EntryWhole
  BY DEF LogInv
<1> QED
  BY <1>1, LogInvariance, PTL
=============================================================================
