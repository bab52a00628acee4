------------------------------- MODULE ErrorLog -------------------------------
(***************************************************************************)
(* What a page reports when it fails: error-logger.js, which runs before   *)
(* everything else, and errorlog-service.js, which takes over.  Lines that *)
(* are written to the console are kept and sent with the next error.       *)
(***************************************************************************)
EXTENDS Services

CONSTANT MaxLines   \* bound: lines written to the console

VARIABLES loaded,    \* the service has taken over
          lines,     \* lines written so far; a line is its number
          errors,    \* errors met so far
          early,     \* the buffer of error-logger.js
          buffer,    \* the buffer of the service
          tracing,   \* errors whose stack trace is being made
          reports,   \* what was sent: the lines
          untraced   \* errors whose trace could not be made

bufferVars == <<early, buffer>>
errorLogVars == <<call, loaded, lines, errors, bufferVars, tracing, reports, untraced>>

ErrorLogInit ==
    /\ loaded = FALSE /\ lines = 0 /\ errors = 0 /\ early = <<>> /\ buffer = <<>>
    /\ tracing = 0 /\ reports = <<>> /\ untraced = 0

\* initConsoleSpy of the service; window.onerror is its own from now on.
LoadService ==
    /\ ~loaded
    /\ loaded' = TRUE
    /\ UNCHANGED <<call, lines, errors, bufferVars, tracing, reports, untraced>>

\* console.log, whoever listens.
WriteLine ==
    /\ lines < MaxLines
    /\ lines' = lines + 1
    /\ IF loaded THEN buffer' = Append(buffer, lines + 1) /\ UNCHANGED early
                 ELSE early' = Append(early, lines + 1) /\ UNCHANGED buffer
    /\ UNCHANGED <<call, loaded, errors, tracing, reports, untraced>>

\* sendError: the lines are written into the request when it is sent.
SendError(c, sent) ==
    /\ Send(c, [task |-> "jsfatal", reply |-> None])
    /\ reports' = Append(reports, sent)

\* window.onerror of error-logger.js
EarlyError(c) ==
    /\ ~loaded
    /\ errors' = errors + 1
    /\ SendError(c, early) /\ early' = <<>>
    /\ UNCHANGED <<loaded, lines, buffer, tracing, untraced>>

\* window.onerror of the service; log, of an exception it cannot print.
UncaughtError(c) ==
    /\ loaded
    /\ errors' = errors + 1
    /\ SendError(c, buffer) /\ buffer' = <<>>
    /\ UNCHANGED <<loaded, lines, early, tracing, untraced>>

\* An error inside Angular: log asks for a stack trace (StacktraceService.print).
Exception ==
    /\ loaded
    /\ errors' = errors + 1 /\ tracing' = tracing + 1
    /\ UNCHANGED <<call, loaded, lines, bufferVars, reports, untraced>>

\* Fault for the checks: an error that waits for its trace as well has lost its lines.
StackArrivesLast(c) ==
    /\ tracing > 0
    /\ tracing' = tracing - 1
    /\ SendError(c, IF tracing > 1 THEN <<>> ELSE buffer) /\ buffer' = <<>>
    /\ UNCHANGED <<loaded, lines, errors, early, untraced>>

\* The trace is there, at once when there is no StackTrace; the lines are those of now.
StackArrives(c) ==
    /\ tracing > 0
    /\ tracing' = tracing - 1
    /\ SendError(c, buffer) /\ buffer' = <<>>
    /\ UNCHANGED <<loaded, lines, errors, early, untraced>>

\* Nobody handles the failure of the promise: no report, and the lines stay.
StackFails ==
    /\ tracing > 0
    /\ tracing' = tracing - 1 /\ untraced' = untraced + 1
    /\ UNCHANGED <<call, loaded, lines, errors, bufferVars, reports>>

ReportArrives(c) ==
    /\ \E task \in {"jsfatal", "jsfatalGet"} : Asked(c, task) /\ Done(c)
    /\ UNCHANGED <<loaded, lines, errors, bufferVars, tracing, reports, untraced>>

\* "If the POST failed, try GET instead.", which carries no lines.
ReportFails(c) ==
    /\ Asked(c, "jsfatal")
    /\ call' = [call EXCEPT ![c] = [task |-> "jsfatalGet", reply |-> None]]
    /\ UNCHANGED <<loaded, lines, errors, bufferVars, tracing, reports, untraced>>

ErrorLogNext ==
    \/ LoadService \/ WriteLine \/ Exception \/ StackFails
    \/ \E c \in Call :
        EarlyError(c) \/ UncaughtError(c) \/ StackArrives(c) \/ ReportArrives(c) \/ ReportFails(c)

ErrorLogSpec ==
    ErrorLogInit /\ call = [c \in Call |-> None] /\ [][ErrorLogNext]_errorLogVars

-----------------------------------------------------------------------------
Sent == UNION {Range(reports[i]) : i \in DOMAIN reports}

InOrder(s) == \A i, j \in DOMAIN s : i < j => s[i] < s[j]

\* Every line written to the console is in one place: an error report, or a buffer for
\* the next; reports have the lines in the order of writing, and every error has its
\* report, its trace under way, or none to be made (log, onerror, the console spies).
LinesReportedOnce ==
    /\ Sent \cup Range(early) \cup Range(buffer) = 1..lines
    /\ Range(early) \cap Range(buffer) = {} /\ Sent \cap (Range(early) \cup Range(buffer)) = {}
    /\ \A s \in Range(reports) \cup {early, buffer} : InOrder(s)
    /\ \A i, j \in DOMAIN reports : i < j =>
        \A line \in Range(reports[i]), later \in Range(reports[j]) : line < later
    /\ errors = Len(reports) + tracing + untraced

\* The inductive invariant behind it: what the next report takes was written after all
\* that has been sent; until the service takes over its buffer is empty, and no trace is made.
ErrorLogTyped ==
    /\ lines \in Nat /\ errors \in Nat /\ tracing \in Nat /\ untraced \in Nat
    /\ early \in Seq(Nat) /\ buffer \in Seq(Nat) /\ reports \in Seq(Seq(Nat))

Pending == IF loaded THEN buffer ELSE early

LinesInv ==
    /\ ErrorLogTyped
    /\ LinesReportedOnce
    /\ ~loaded => buffer = <<>> /\ tracing = 0
    /\ \A line \in Sent, later \in Range(Pending) : line < later
=============================================================================
