----------------------------- MODULE HumaAdapter -----------------------------
(***************************************************************************)
(* The Huma adapter, src/adapters/huma/huma.go: registration of            *)
(* operations, and the context a request's handler and middlewares work    *)
(* with, on the response of net/http.  The context writes a status when it *)
(* is set, and so fixes the headers at that moment.                        *)
(*                                                                         *)
(* A path is a sequence of segments, and a segment one of characters, each *)
(* with the number of times it is escaped: "/" in 1 layer is %2F, in 2     *)
(* layers %252F (escapes have capital digits).  A "%" that two hexadecimal *)
(* digits follow is never a character of its own: it is part of the escape *)
(* it looks like.                                                          *)
(***************************************************************************)
EXTENDS Integers, Sequences

CONSTANTS
    Operations,     \* the operations Huma registers: their methods, as spelled
    Paths,          \* the paths of requests; a parameter is a segment
    Codes,          \* the statuses that handlers set
    MaxValues,      \* bound: values of the header
    MaxWraps        \* bound: contexts around a context

ASSUME CodesAssumption == Codes \subseteq 100..999
ASSUME PathsAssumption == Paths \subseteq Seq(Seq([c : STRING, layers : Nat]))

VARIABLES
    routes,     \* the operations the router has
    ctx,        \* the zerohttpContext of the request: its status, the contexts
                \* that middlewares put around it, and where the request is
    header,     \* the values the handler gave the response header
    sent,       \* what went to the client: final status and header
    misused     \* history: the handler went round the context, or was too late

humaVars == <<routes, ctx, header, sent, misused>>

Unstarted == [method |-> "none"]
NoContext == [is |-> "none", status |-> 0, wraps |-> <<>>, path |-> <<>>]
NotSent == [code |-> 0, header |-> <<>>]

\* strings.ToUpper.
ToUpper(method) ==
    CASE method \in {"get", "Get"} -> "GET" [] method = "patch" -> "PATCH" [] OTHER -> method

RoutedMethods == {"GET", "POST", "PUT", "DELETE", "PATCH", "HEAD", "OPTIONS"}

-----------------------------------------------------------------------------
(* Path parameters.                                                         *)

\* A "%" that stands for itself: PathUnescape fails on it.
BarePercent(segment) == \E i \in DOMAIN segment : segment[i] = [c |-> "%", layers |-> 0]

PathUnescape(segment) ==
    [i \in DOMAIN segment |-> [segment[i] EXCEPT !.layers = IF @ = 0 THEN 0 ELSE @ - 1]]

\* The characters that net/url escapes in a path; "/", letters and digits are not
\* among them.
EscapedByDefault == {"%", "?", " ", "!", "(", ")", "*"}

\* As net/url would write it: the "%" of a character escaped twice is escaped.
DefaultSpelling(ch) == ch.layers > 1 \/ (ch.layers = 1 <=> ch.c \in EscapedByDefault)

\* url.URL has a RawPath if its path is not the one that net/url writes, wherever
\* in the path that is.
HasRawPath(path) ==
    \E i \in DOMAIN path : \E j \in DOMAIN path[i] : ~DefaultSpelling(path[i][j])

\* What ServeMux has for a parameter.
PathValue(segment) == PathUnescape(segment)

\* (Mutation of Param: unescaped whether or not there is a RawPath.)
ParamUnescaped(path, i) ==
    LET v == PathValue(path[i]) IN IF BarePercent(v) THEN v ELSE PathUnescape(v)

\* An error of PathUnescape gives the value as it is.
Param(path, i) ==
    LET v == PathValue(path[i])
    IN  IF ~HasRawPath(path) \/ BarePercent(v) THEN v ELSE PathUnescape(v)

-----------------------------------------------------------------------------
(* The response of net/http.                                                *)

Informational(code) == code \in (100..199) \ {101}

\* WriteHeader: an informational status goes out at once and does not count;
\* of the others the first does.
Commit(code) ==
    IF sent # NotSent \/ Informational(code) THEN sent ELSE [code |-> code, header |-> header]

Committed == sent # NotSent
Running == ctx.is = "running"

-----------------------------------------------------------------------------
HumaInit ==
    /\ routes = {Unstarted}
    /\ ctx = NoContext
    /\ header = <<>>
    /\ sent = NotSent
    /\ misused = FALSE

\* New, NewAdapter: an adapter for the server's router.
NewAdapter ==
    /\ routes = {Unstarted}
    /\ routes' = {}
    /\ UNCHANGED <<ctx, header, sent, misused>>

\* Handle: an operation with any other method is dropped without an error.
Handle(op) ==
    /\ Unstarted \notin routes
    /\ routes' = routes \cup (IF ToUpper(op.method) \in RoutedMethods THEN {op} ELSE {})
    /\ UNCHANGED <<ctx, header, sent, misused>>

\* ServeHTTP: the router finds the operation and the handler gets a context, or
\* it answers 404 itself.
ServeHTTP(op, path) ==
    /\ Unstarted \notin routes
    /\ ctx = NoContext
    /\ IF op \in routes
         THEN ctx' = [NoContext EXCEPT !.is = "running", !.path = path] /\ sent' = NotSent
         ELSE sent' = [code |-> 404, header |-> <<>>] /\ UNCHANGED ctx
    /\ header' = <<>>
    /\ misused' = FALSE
    /\ UNCHANGED routes

\* A middleware puts its own context around that of the request; Unwrap sees
\* through an open one.
Wrap(kind) ==
    /\ Running
    /\ Len(ctx.wraps) < MaxWraps
    /\ ctx' = [ctx EXCEPT !.wraps = Append(@, kind)]
    /\ UNCHANGED <<routes, header, sent, misused>>

\* (Mutation of SetStatus: the first status is the one that is remembered.)
SetStatusOnce(code) ==
    /\ Running
    /\ ctx' = [ctx EXCEPT !.status = IF @ = 0 THEN code ELSE @]
    /\ sent' = Commit(code)
    /\ misused' = (misused \/ Committed)
    /\ UNCHANGED <<routes, header>>

SetStatus(code) ==
    /\ Running
    /\ ctx' = [ctx EXCEPT !.status = code]
    /\ sent' = Commit(code)
    /\ misused' = (misused \/ Committed)
    /\ UNCHANGED <<routes, header>>

Status == ctx.status

HeaderTo(values) ==
    /\ Running
    /\ header' = values
    /\ misused' = (misused \/ Committed)
    /\ UNCHANGED <<routes, ctx, sent>>

SetHeader(value) == HeaderTo(<<value>>)

AppendHeader(value) == Len(header) < MaxValues /\ HeaderTo(Append(header, value))

\* BodyWriter: the first byte fixes the status, without the context's knowledge.
WriteBody ==
    /\ Running
    /\ sent' = Commit(200)
    /\ UNCHANGED <<routes, ctx, header, misused>>

\* Unwrap: a context it cannot open is a panic, which ends the request; otherwise
\* the caller has the response itself.
Unwrap(code) ==
    /\ Running
    /\ misused' = TRUE
    /\ IF \E i \in DOMAIN ctx.wraps : ctx.wraps[i] = "opaque"
         THEN ctx' = [ctx EXCEPT !.is = "over"] /\ UNCHANGED sent
         ELSE sent' = Commit(code) /\ UNCHANGED ctx
    /\ UNCHANGED <<routes, header>>

\* The handler returns; net/http sends 200 if nothing is sent yet.
HandlerReturns ==
    /\ Running
    /\ ctx' = [ctx EXCEPT !.is = "over"]
    /\ sent' = Commit(200)
    /\ UNCHANGED <<routes, header, misused>>

NextRequest ==
    /\ ctx.is = "over"
    /\ ctx' = NoContext
    /\ UNCHANGED <<routes, header, sent, misused>>

HumaNext ==
    \/ NewAdapter
    \/ \E op \in Operations : Handle(op) \/ \E path \in Paths : ServeHTTP(op, path)
    \/ \E kind \in {"open", "opaque"} : Wrap(kind)
    \/ \E code \in Codes : SetStatus(code) \/ Unwrap(code)
    \/ \E value \in {"v", "w"} : SetHeader(value) \/ AppendHeader(value)
    \/ WriteBody \/ HandlerReturns \/ NextRequest

HumaSpec == HumaInit /\ [][HumaNext]_humaVars

-----------------------------------------------------------------------------
(* Properties.                                                              *)

\* What a middleware reads after the handler (Status) and what the client got
\* agree, and no header is lost, if the handler sets headers first, a final
\* status at most once, and uses no writer but the context's.  Without a final
\* status the client gets 200, and Status is 0 or informational.
StatusAsSent ==
    ctx.is = "over" /\ ~misused =>
      /\ sent.header = header
      /\ \/ sent.code = Status
         \/ sent.code = 200 /\ (Status = 0 \/ Informational(Status))

\* Which requests have a parameter unescaped once too often: those that have
\* anything in their path, in whatever segment, spelled otherwise than net/url
\* would, and in the parameter an escape left, and nothing else that begins like
\* one.  All others see each parameter unescaped once, as the client meant it.
ParamUnescapedOnce ==
    Running =>
      \A i \in DOMAIN ctx.path :
        LET once == PathUnescape(ctx.path[i])
        IN  Param(ctx.path, i) # once <=>
              /\ HasRawPath(ctx.path)
              /\ \E j \in DOMAIN once : once[j].layers > 0
              /\ ~BarePercent(once)
=============================================================================
