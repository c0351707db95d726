---------------------------- MODULE PayloadPipeline ----------------------------
(***************************************************************************)
(* payload.Pipeline (internal/plugin/payload/plugin.go): a storage.Writer  *)
(* that runs every request through a chain of plugins and hands the result *)
(* to a downstream writer. Writes run concurrently with each other and     *)
(* with Close; the mutex covers the closed flag alone, so a Write that saw *)
(* the pipeline open may still be in its plugins, or about to write, while *)
(* Close shuts the plugins and the downstream writer. Close may be called  *)
(* more than once. Plugins (external) pass, change, drop or fail.          *)
(***************************************************************************)
EXTENDS Naturals, Sequences, FiniteSets

CONSTANTS
    Stages,         \* number of plugins
    PayloadWriters, \* goroutines, each of which writes one request
    PayloadClosers  \* goroutines, each of which calls Close

ASSUME StagesAssumption == Stages \in Nat

VARIABLES
    onError,        \* ErrorHandler
    shut,           \* Pipeline.closed
    writing,        \* each Write: pc, stage, what the plugins did so far
    closing,        \* each Close: pc and the next plugin to close
    closedParts,    \* plugins, then 0 for the downstream writer, in the order closed
    delivered       \* the Writes whose request reached the downstream writer

payloadVars == <<onError, shut, writing, closing, closedParts, delivered>>

Handlers == {"drop", "skip", "abort"}

PayloadInit ==
    /\ onError \in Handlers
    /\ shut = FALSE
    /\ writing = [w \in PayloadWriters |-> [pc |-> "idle", stage |-> 1, trail |-> <<>>]]
    /\ closing = [x \in PayloadClosers |-> [pc |-> "idle", stage |-> Stages]]
    /\ closedParts = <<>>
    /\ delivered = {}

-----------------------------------------------------------------------------
(***************************************************************************)
(* Write.                                                                  *)
(***************************************************************************)
WriteBegin(w) ==
    /\ writing[w].pc = "idle"
    /\ writing' = [writing EXCEPT ![w].pc = IF shut THEN "error" ELSE "process"]
    /\ UNCHANGED <<onError, shut, closing, closedParts, delivered>>

\* What a plugin did and what the loop makes of it.
AfterProcess(outcome) ==
    CASE outcome \in {"pass", "change"} -> "process"
      [] outcome = "filter" -> "nil"
      [] outcome = "fail" -> CASE onError = "abort" -> "error"
                               [] onError = "skip" -> "process"
                               [] onError = "drop" -> "nil"

Process(w) ==
    /\ writing[w].pc = "process" /\ writing[w].stage <= Stages
    /\ \E outcome \in {"pass", "change", "filter", "fail"} :
          writing' = [writing EXCEPT ![w] = [pc |-> AfterProcess(outcome), stage |-> @.stage + 1,
                                             trail |-> Append(@.trail, outcome)]]
    /\ UNCHANGED <<onError, shut, closing, closedParts, delivered>>

\* downstream.Write: a storage writer that is closed answers ErrWriterClosed.
Closed(part) == \E i \in DOMAIN closedParts : closedParts[i] = part

Downstream(w) ==
    /\ writing[w].pc = "process" /\ writing[w].stage > Stages
    /\ writing' = [writing EXCEPT ![w].pc = IF Closed(0) THEN "error" ELSE "nil"]
    /\ delivered' = IF Closed(0) THEN delivered ELSE delivered \cup {w}
    /\ UNCHANGED <<onError, shut, closing, closedParts>>

-----------------------------------------------------------------------------
(***************************************************************************)
(* Close.                                                                  *)
(***************************************************************************)
CloseBeginRacy(x) ==            \* mutant: the flag is not tested before it is set
    /\ closing[x].pc = "idle"
    /\ shut' = TRUE
    /\ closing' = [closing EXCEPT ![x].pc = "plugins"]
    /\ UNCHANGED <<onError, writing, closedParts, delivered>>

CloseBegin(x) ==
    /\ closing[x].pc = "idle"
    /\ shut' = TRUE
    /\ closing' = [closing EXCEPT ![x].pc = IF shut THEN "done" ELSE "plugins"]
    /\ UNCHANGED <<onError, writing, closedParts, delivered>>

\* Plugins in reverse order, then (stage 0) the downstream writer; errors are collected.
ClosePart(x) ==
    /\ closing[x].pc = "plugins"
    /\ closedParts' = Append(closedParts, closing[x].stage)
    /\ closing' = [closing EXCEPT ![x] = IF @.stage = 0 THEN [@ EXCEPT !.pc = "done"]
                                                        ELSE [@ EXCEPT !.stage = closing[x].stage - 1]]
    /\ UNCHANGED <<onError, shut, writing, delivered>>

PayloadNext ==
    \/ \E w \in PayloadWriters : WriteBegin(w) \/ Process(w) \/ Downstream(w)
    \/ \E x \in PayloadClosers : CloseBegin(x) \/ ClosePart(x)

-----------------------------------------------------------------------------
(***************************************************************************)
(* Properties.                                                             *)
(***************************************************************************)
\* The type invariant of the pipeline.
PayloadTypeOK ==
    /\ \A w \in PayloadWriters : /\ writing[w].pc \in {"idle", "process", "nil", "error"}
                                 /\ writing[w].stage = Len(writing[w].trail) + 1
                                 /\ writing[w].stage \in 1 .. Stages + 1
    /\ delivered \subseteq PayloadWriters

\* Whatever Closes race, every plugin is closed at most once, the last one first, and the
\* downstream writer after them all (Close: "in reverse order").
ClosedInReverse ==
    /\ Len(closedParts) <= Stages + 1
    /\ \A i \in DOMAIN closedParts : closedParts[i] = Stages + 1 - i

\* A Write that returned nil did what its plugins asked for: the request is downstream, or
\* a plugin filtered it, or one failed under ErrorHandlerDrop. A request that a Close cut
\* off is reported as an error.
NilMeansHandled ==
    \A w \in PayloadWriters : writing[w].pc = "nil" /\ w \notin delivered =>
        LET last == writing[w].trail[Len(writing[w].trail)]
        IN  last = "filter" \/ (last = "fail" /\ onError = "drop")

\* What reaches the downstream writer went through every plugin in order, and past a
\* failing one only under ErrorHandlerSkip.
DeliveredProcessed ==
    \A w \in delivered :
        /\ Len(writing[w].trail) = Stages
        /\ \A i \in 1 .. Stages : \/ writing[w].trail[i] \in {"pass", "change"}
                                  \/ writing[w].trail[i] = "fail" /\ onError = "skip"

\* However Writes and Closes of a pipeline interleave and whatever its plugins return, no
\* request is lost unsaid or stored unprocessed, and everything is closed in order, once.
\* That a plugin is not called any more once it is closed is not part of it: see
\* CloseAfterProcess.
PipelineSound == ClosedInReverse /\ NilMeansHandled /\ DeliveredProcessed

\* What the Plugin interface says of Close: "Called once during shutdown, after all Process
\* calls complete."  No Write is about to call a plugin that is closed.
CloseAfterProcess ==
    \A w \in PayloadWriters :
        writing[w].pc = "process" /\ writing[w].stage <= Stages => ~Closed(writing[w].stage)
=============================================================================
