---------------------------- MODULE ZerologLogger ----------------------------
(***************************************************************************)
(* The zerolog adapter, src/adapters/zerolog/logger.go: loggers made of    *)
(* other loggers with more fields or a context, and the entries that calls *)
(* of any of them write.  A zerolog logger has its fields in a buffer,     *)
(* which With copies: many loggers descend from one.                       *)
(*                                                                         *)
(* A field is a key and the type of its value; a written field is a key    *)
(* and the form it is written in: "plain", "text" of an error, or "json".  *)
(***************************************************************************)
EXTENDS Integers, Sequences

CONSTANTS
    FieldLists,     \* the fields of a call or of WithFields
    LoggerLevels,   \* the levels of NewConsoleWithLevel
    MaxLoggers      \* bound: how many loggers there are

ASSUME MaxLoggersAssumption == MaxLoggers \in Nat
ASSUME FieldsAssumption == FieldLists \subseteq Seq([key : STRING, type : STRING])

VARIABLES
    loggers,    \* each logger: its buffer, level, context and, as history, the
                \* fields that it and its ancestors were made with
    buffers,    \* the written fields of each buffer
    entry,      \* what the last call wrote and, as history, what it was given
    process     \* "running", "panics" (the calling goroutine), or "exited"

logVars == <<loggers, buffers, entry, process>>

\* The levels of the calls, in zerolog's order; -1 and 7 are trace and disabled.
Level == [debug |-> 0, info |-> 1, warn |-> 2, error |-> 3, fatal |-> 4, panic |-> 5]

Silent == [is |-> "none"]

-----------------------------------------------------------------------------
(* Conversion of fields.                                                    *)

\* zerolog's Interface.
Interface(type) == IF type \in {"error", "struct"} THEN "json" ELSE "plain"

\* addFields, for one field: an error loses its key; a type that is not listed
\* goes through Interface.  (An error is one that is there: a nil pointer in an error
\* is left out by zerolog.)
Written(field) ==
    CASE field.type = "error" -> [key |-> "error", form |-> "text"]
      [] field.type = "struct" -> [key |-> field.key, form |-> Interface("struct")]
      [] OTHER -> [key |-> field.key, form |-> "plain"]

\* addFields.
AddFields(written, fields) == written \o [i \in DOMAIN fields |-> Written(fields[i])]

\* WithFields, for one field: Interface for every type, an error too.
Kept(field) == [key |-> field.key, form |-> Interface(field.type)]

-----------------------------------------------------------------------------
LogInit ==
    /\ loggers = <<>>
    /\ buffers = <<>>
    /\ entry = Silent
    /\ process = "running"

\* New, NewDefault, NewConsole, NewConsoleWithLevel: a logger with a timestamp.
NewLogger(level) ==
    /\ loggers = <<>>
    /\ loggers' = <<[buffer |-> 1, level |-> level, context |-> "none", given |-> <<>>]>>
    /\ buffers' = <<<<>>>>
    /\ UNCHANGED <<entry, process>>

Active == process = "running" /\ loggers # <<>>

\* (Mutation of Derived: the new logger writes on in the buffer of the old one.)
DerivedInPlace(l, fields, context) ==
    /\ buffers' = [buffers EXCEPT ![loggers[l].buffer] =
                     @ \o [i \in DOMAIN fields |-> Kept(fields[i])]]
    /\ loggers' = Append(loggers,
                    [loggers[l] EXCEPT !.context = context, !.given = @ \o fields])

\* With, and Logger of what it returns: a copy of the buffer, with more in it.
Derived(l, fields, context) ==
    /\ buffers' = Append(buffers, buffers[loggers[l].buffer]
                                    \o [i \in DOMAIN fields |-> Kept(fields[i])])
    /\ loggers' = Append(loggers,
                    [loggers[l] EXCEPT !.buffer = Len(buffers) + 1, !.context = context,
                                       !.given = @ \o fields])

WithFields(l, fields) ==
    /\ Active
    /\ Len(loggers) < MaxLoggers
    /\ Derived(l, fields, loggers[l].context)
    /\ UNCHANGED <<entry, process>>

WithContext(l, context) ==
    /\ Active
    /\ Len(loggers) < MaxLoggers
    /\ Derived(l, <<>>, context)
    /\ UNCHANGED <<entry, process>>

\* zerolog: levels below that of the logger are not written.
Enough(level, l) == Level[level] >= loggers[l].level

\* zerolog: Panic and Fatal end their caller whether or not they write.
AfterEvent(level, l) ==
    CASE level = "panic" -> "panics" [] level = "fatal" -> "exited" [] OTHER -> "running"

\* Debug, Info, Warn, Error, Panic, Fatal: an event with the logger's fields and
\* those of the call, and the end of the caller for the last two.
Log(level, l, fields) ==
    /\ Active
    /\ entry' = [is |-> IF Enough(level, l) THEN "written" ELSE "dropped",
                 level |-> level, logger |-> l, context |-> loggers[l].context,
                 fields |-> AddFields(buffers[loggers[l].buffer], fields),
                 given |-> fields]
    /\ process' = AfterEvent(level, l)
    /\ UNCHANGED <<loggers, buffers>>

\* The panic is recovered further up, as a server does for a request.
Recover ==
    /\ process = "panics"
    /\ process' = "running"
    /\ entry' = Silent
    /\ UNCHANGED <<loggers, buffers>>

LogNext ==
    \/ \E level \in LoggerLevels : NewLogger(level)
    \/ \E l \in DOMAIN loggers :
         \/ WithContext(l, "request")
         \/ \E fields \in FieldLists :
              WithFields(l, fields) \/ \E level \in DOMAIN Level : Log(level, l, fields)
    \/ Recover

LogSpec == LogInit /\ [][LogNext]_logVars

-----------------------------------------------------------------------------
(* Properties.                                                              *)

\* An entry has the fields its logger and the logger's ancestors were made with,
\* in their order, then those of the call, and no field of any other logger that
\* was made of them in between, by whichever request.  Each field has its own key,
\* but for an error given to a call.  The entry is written if its level is that of
\* the logger or above, and Panic and Fatal end their caller in any case.
EntryWhole ==
    entry # Silent =>
      LET l == loggers[entry.logger]
          asked == l.given \o entry.given
      IN  /\ Len(entry.fields) = Len(asked)
          /\ \A i \in DOMAIN asked :
               \/ entry.fields[i].key = asked[i].key
               \/ i > Len(l.given) /\ asked[i].type = "error"
          /\ entry.is = "written" <=> Level[entry.level] >= l.level
          /\ (process = "running") <=> entry.level \notin {"panic", "fatal"}
=============================================================================
