------------------------------- MODULE Tracer -------------------------------
(***************************************************************************)
(* The OpenTelemetry tracer, src/middleware/tracer/tracer.go: the two      *)
(* constructors with their shutdown function, and spans, whose status and  *)
(* attributes are converted.  The batcher of the SDK exports ended spans   *)
(* some time later; the program ends after it has called shutdown.         *)
(***************************************************************************)
EXTENDS Integers, FiniteSets

CONSTANTS
    Spans,          \* the spans that requests start
    SpanCodes,      \* the codes of SetStatus
    AttributeTypes, \* the types of values of SetAttributes
    BatchLimit      \* how many ended spans the batcher keeps

ASSUME BatchLimitAssumption == BatchLimit \in Nat \ {0}

VARIABLES
    provider,   \* the tracer provider: what it is, and whether the context it was
                \* made with is cancelled
    span,       \* each span: its state, status, and the forms of its attributes
    batch,      \* ended spans that are not exported yet
    exported,   \* what was exported: pairs of a span and its status
    due         \* history: spans that ended before shutdown was called, that the
                \* batcher had room for and the exporter did not fail on

traceVars == <<provider, span, batch, exported, due>>

Fresh == [is |-> "none", status |-> "Unset", wrote |-> {}]

-----------------------------------------------------------------------------
(* Conversions.                                                             *)

\* toOtelCode.
ToOtelCode(code) ==
    CASE code = "CodeOk" -> "Ok" [] code = "CodeError" -> "Error" [] OTHER -> "Unset"

\* toOtelAttribute: a value of another type is the empty string.
ToOtelAttribute(type) ==
    IF type \in {"string", "int", "int64", "float64", "bool"} THEN type ELSE "empty"

Rank == [Unset |-> 0, Error |-> 1, Ok |-> 2]

\* The SDK: a status only gives way to one of the same rank or above.
StatusAfter(old, new) == IF Rank[old] > Rank[new] THEN old ELSE new

-----------------------------------------------------------------------------
TraceInit ==
    /\ provider = [is |-> "none", cancelled |-> FALSE]
    /\ span = [s \in Spans |-> Fresh]
    /\ batch = {}
    /\ exported = {}
    /\ due = {}

Up == provider.is \in {"up", "stopping"}

\* NewHTTPDefault, NewGRPCDefault: an exporter, a batcher, a provider that is the
\* program's from now on; without an exporter an error and nothing else.
NewDefault ==
    /\ provider.is = "none"
    /\ \E is \in {"up", "failed"} : provider' = [provider EXCEPT !.is = is]
    /\ UNCHANGED <<span, batch, exported, due>>

\* The owner of the context that the constructor was given cancels it, as a
\* program does that stops.
CancelStart ==
    /\ Up
    /\ provider' = [provider EXCEPT !.cancelled = TRUE]
    /\ UNCHANGED <<span, batch, exported, due>>

\* Start: the options are not passed on.
StartSpan(s) ==
    /\ Up
    /\ span[s] = Fresh
    /\ span' = [span EXCEPT ![s].is = "started"]
    /\ UNCHANGED <<provider, batch, exported, due>>

\* SetStatus; the SDK ignores it on an ended span.
SetSpanStatus(s, code) ==
    /\ span[s].is = "started"
    /\ span' = [span EXCEPT ![s].status = StatusAfter(@, ToOtelCode(code))]
    /\ UNCHANGED <<provider, batch, exported, due>>

\* SetAttributes, for one attribute.
SetAttribute(s, type) ==
    /\ span[s].is = "started"
    /\ span' = [span EXCEPT ![s].wrote = @ \cup {ToOtelAttribute(type)}]
    /\ UNCHANGED <<provider, batch, exported, due>>

\* RecordError, whose options are not passed on: an event, not a status.
RecordError(s) ==
    /\ span[s].is = "started"
    /\ span' = [span EXCEPT ![s].wrote = @ \cup {"exception"}]
    /\ UNCHANGED <<provider, batch, exported, due>>

\* End, once: the batcher takes the span unless it is full, or being shut down.
EndSpan(s) ==
    /\ span[s].is = "started"
    /\ span' = [span EXCEPT ![s].is = "ended"]
    /\ IF provider.is = "up" /\ Cardinality(batch) < BatchLimit
         THEN batch' = batch \cup {s} /\ due' = due \cup {s}
         ELSE UNCHANGED <<batch, due>>
    /\ UNCHANGED <<provider, exported>>

\* The batcher exports a span, on its own or because it was told to stop.
Export(s) ==
    /\ Up
    /\ s \in batch
    /\ batch' = batch \ {s}
    /\ exported' = exported \cup {[span |-> s, status |-> span[s].status, wrote |-> span[s].wrote]}
    /\ UNCHANGED <<provider, span, due>>

\* The exporter gives up on a span, its collector is out of reach.
ExportFails(s) ==
    /\ Up
    /\ s \in batch
    /\ batch' = batch \ {s}
    /\ due' = due \ {s}
    /\ UNCHANGED <<provider, span, exported>>

\* shutdown: the batcher is told to stop, and takes no more.
ShutdownBegins ==
    /\ provider.is = "up"
    /\ provider' = [provider EXCEPT !.is = "stopping"]
    /\ UNCHANGED <<span, batch, exported, due>>

\* (Mutation of Flushed: shutdown does not wait.)
FlushedAtOnce == TRUE

\* Shutdown of the provider returns when the batch is exported, or the context is
\* done; that is the context of the constructor.
Flushed == batch = {} \/ provider.cancelled

\* shutdown returns, drops the error, and the program ends.
ShutdownReturns ==
    /\ provider.is = "stopping"
    /\ Flushed
    /\ provider' = [provider EXCEPT !.is = "over"]
    /\ UNCHANGED <<span, batch, exported, due>>

TraceNext ==
    \/ NewDefault \/ CancelStart \/ ShutdownBegins \/ ShutdownReturns
    \/ \E s \in Spans :
         \/ StartSpan(s) \/ RecordError(s) \/ EndSpan(s) \/ Export(s) \/ ExportFails(s)
         \/ \E code \in SpanCodes : SetSpanStatus(s, code)
         \/ \E type \in AttributeTypes : SetAttribute(s, type)

TraceSpec == TraceInit /\ [][TraceNext]_traceVars

-----------------------------------------------------------------------------
(* Properties.                                                              *)

\* When shutdown has returned and the program ends, every span that ended before
\* shutdown was called, and that the batcher had room for, is exported with the
\* status it ended with, unless the exporter failed or the context given to the
\* constructor was cancelled: shutdown flushes, if that context outlives it.
FlushedAtEnd ==
    provider.is = "over" /\ ~provider.cancelled =>
      \A s \in due :
        \E e \in exported : e.span = s /\ e.status = span[s].status
=============================================================================
