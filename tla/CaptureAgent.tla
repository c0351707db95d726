----------------------------- MODULE CaptureAgent -----------------------------
(***************************************************************************)
(* The capture agent (cmd/capture-agent, internal/agent, internal/storage, *)
(* internal/history): mirrored requests enter through an HTTP and a gRPC   *)
(* sink, pass a bounded queue, and a drain goroutine writes them to a      *)
(* BufferedWriter, which a ticker flushes, over an object writer, which    *)
(* uploads one object per flush.  A SIGTERM closes the pipeline from its   *)
(* front to its back and records the end of the capture in the history.    *)
(*                                                                         *)
(* Four kinds of goroutines interleave: the request handlers, the drain    *)
(* goroutine, the flush loop and main.  A step is what runs under one lock *)
(* or between two channel operations.                                      *)
(***************************************************************************)
EXTENDS Naturals, Sequences, Functions

CONSTANTS
    Requests,       \* the mirrored requests, each delivered at most once
    GRPC,           \* those that arrive at the gRPC sink
    Backends,       \* the storage types of the instance: "s3", "gcs", "fs"
    QueueSize,      \* --write-queue-size
    BatchSize,      \* --batch-size
    MaxFailures,    \* bound on failing uploads
    MaxStarts,      \* bound on agent processes, one after the other
    MaxDays         \* bound on the date that object names carry

ASSUME AgentAssumption ==
    /\ GRPC \subseteq Requests
    /\ Backends \subseteq {"s3", "gcs", "fs"}
    /\ {QueueSize, BatchSize, MaxStarts, MaxDays} \subseteq Nat \ {0}
    /\ MaxFailures \in Nat

VARIABLES
    backend,        \* the storage type of the capture
    pod, day,       \* POD_NAME and the current date: the variable parts of a name
    starts,         \* the processes so far
    main,           \* where main() is
    serverErr,      \* main's serverErr # nil
    req,            \* what became of each request
    queue,          \* AsyncWriter.queue
    closed,         \* AsyncWriter.closed, and the channel is closed
    drain,          \* the drain goroutine, and what it holds: [pc, hand]
    flusher,        \* where the flush loop is
    pending,        \* BufferedWriter.pending
    object,         \* bufferedObjectWriter: [buffer, sequence]
    store,          \* the bucket or directory: object name -> lines
    recorded,       \* the keys in capture_artifacts
    history,        \* the captures row: [status, completedAt]
    failures        \* uploads that failed so far

podVars == <<backend, pod, day, starts>>
mainVars == <<main, serverErr, history>>
queueVars == <<queue, closed>>
writerVars == <<drain, flusher, pending>>
objectVars == <<object, store, recorded, failures>>
agentVars == <<podVars, mainVars, req, queueVars, writerVars, objectVars>>

\* main() goes from booting to serving and, after a signal, through stopgrpc, stophttp,
\* closing, draining, stopflusher, flush, shut and history to exited; a crash makes it killed.
\* A request is new, reading, sending and then queued; or refused when no sink is open,
\* filtered by RequestFilter, failed when its body cannot be read, dropped by the full queue
\* or the closed writer, panicked by a send on the closed channel, or lost with the process.
\* What an earlier process of the pod has stored is past.
InFlight == {"reading", "sending"}

NewObjectWriter == [buffer |-> <<>>, sequence |-> 0]

AgentInit ==
    /\ backend \in Backends
    /\ pod = 1 /\ day = 1 /\ starts = 1
    /\ main = "booting" /\ serverErr = FALSE
    /\ req = [r \in Requests |-> "new"]
    /\ queue = <<>> /\ closed = FALSE
    /\ drain = [pc |-> "receive", hand |-> <<>>]
    /\ flusher = "wait" /\ pending = 0
    /\ object = NewObjectWriter
    /\ store = <<>> /\ recorded = {}
    /\ history = [status |-> "none", completedAt |-> FALSE]
    /\ failures = 0

-----------------------------------------------------------------------------
(***************************************************************************)
(* The object writer.  An upload either succeeds, or is rejected, or       *)
(* stores the object and yet reports an error: the answer is lost, or the  *)
(* artifact row cannot be written.  A file that os.WriteFile fails to      *)
(* complete is torn: nothing can be read from it.                          *)
(***************************************************************************)
UploadS3 == {"ok", "rejected", "unconfirmed"}
UploadGCS == {"ok", "rejected", "unconfirmed"}
UploadFilesystem == {"ok", "rejected", "torn"}

Outcomes ==
    CASE backend = "s3" -> UploadS3
      [] backend = "gcs" -> UploadGCS
      [] backend = "fs" -> UploadFilesystem

\* newCloudObjectName, newFilesystemObjectName: capture and prefix are fixed.
ObjectName(seq) == <<pod, day, seq>>

\* The store once the object name holds lines, in place of what it held before.
PutObject(name, lines) ==
    [n \in DOMAIN store \cup {name} |-> IF n = name THEN lines ELSE store[n]]

\* One row per key, inserted or replaced.
RecordArtifact(name) == recorded \cup {name}

FlushLockedResetting(lines, outcome) ==     \* mutant: the buffer is reset before the upload
    /\ object' = [buffer |-> <<>>, sequence |-> object.sequence + 1]
    /\ store' = IF outcome # "ok" THEN store
                ELSE PutObject(ObjectName(object.sequence + 1), lines)
    /\ recorded' = recorded

\* flushLocked on the lines in lines: the buffer is kept, and the sequence number is not
\* used up, unless the upload succeeded.
FlushLocked(lines, outcome) ==
    IF lines = <<>> THEN
        /\ outcome = "ok"
        /\ object' = [object EXCEPT !.buffer = lines]
        /\ UNCHANGED <<store, recorded>>
    ELSE LET name == ObjectName(object.sequence + 1) IN
        /\ object' = IF outcome = "ok"
                     THEN [buffer |-> <<>>, sequence |-> object.sequence + 1]
                     ELSE [object EXCEPT !.buffer = lines]
        /\ store' = CASE outcome \in {"ok", "unconfirmed"} -> PutObject(name, lines)
                      [] outcome = "torn" -> PutObject(name, <<>>)
                      [] outcome = "rejected" -> store
        /\ recorded' = IF backend = "s3" /\ outcome = "ok"
                       THEN RecordArtifact(name) ELSE recorded

\* The uploads that may happen now.  One whose context is cancelled may fail for that
\* reason; the others fail within the bound.
Attempt(outcome, cancelled) ==
    /\ outcome \in Outcomes
    /\ \/ (outcome = "ok" \/ cancelled) /\ failures' = failures
       \/ ~cancelled /\ outcome # "ok" /\ failures < MaxFailures /\ failures' = failures + 1

-----------------------------------------------------------------------------
(***************************************************************************)
(* The sinks and the handler.                                              *)
(***************************************************************************)
\* The HTTP sink keeps accepting while GracefulStop waits for the gRPC handlers.
Accepting(r) ==
    \/ main = "serving"
    \/ main = "stopgrpc" /\ r \notin GRPC

\* handleHTTP and handleGRPC up to the read of the body, which may take any time.
Arrive(r) ==
    /\ req[r] = "new"
    /\ main # "booting"
    /\ req' = [req EXCEPT ![r] = IF Accepting(r) THEN "reading" ELSE "refused"]
    /\ UNCHANGED <<podVars, mainVars, queueVars, writerVars, objectVars>>

\* CaptureHandler.Handle up to AsyncWriter.Write's check of closed.
Handle(r) ==
    /\ req[r] = "reading"
    /\ \E result \in {"filtered", "failed", IF closed THEN "dropped" ELSE "sending"} :
          req' = [req EXCEPT ![r] = result]
    /\ UNCHANGED <<podVars, mainVars, queueVars, writerVars, objectVars>>

\* The select of AsyncWriter.Write.  A closed channel is ready to send on, and panics;
\* net/http recovers the panic of a handler.
Enqueue(r) ==
    /\ req[r] = "sending"
    /\ \/ /\ closed
          /\ req' = [req EXCEPT ![r] = "panicked"]
          /\ queue' = queue
       \/ /\ ~closed /\ Len(queue) < QueueSize
          /\ req' = [req EXCEPT ![r] = "queued"]
          /\ queue' = Append(queue, r)
       \/ /\ ~closed /\ Len(queue) >= QueueSize
          /\ req' = [req EXCEPT ![r] = "dropped"]
          /\ queue' = queue
    /\ UNCHANGED <<podVars, mainVars, writerVars, objectVars, closed>>

-----------------------------------------------------------------------------
(***************************************************************************)
(* The drain goroutine: BufferedWriter.Write under AsyncWriter.drain.      *)
(***************************************************************************)
DrainReceive ==
    /\ drain.pc = "receive"
    /\ \/ /\ queue # <<>>
          /\ drain' = [pc |-> "write", hand |-> <<Head(queue)>>]
          /\ queue' = Tail(queue)
       \/ /\ queue = <<>> /\ closed
          /\ drain' = [drain EXCEPT !.pc = "drained"]
          /\ queue' = queue
    /\ UNCHANGED <<podVars, mainVars, objectVars, req, closed, flusher, pending>>

\* The line is appended to the buffer; a full or overdue buffer is flushed at once.  An
\* error leaves pending as it is, and the line in the buffer.
DrainWrite ==
    /\ drain.pc = "write"
    /\ LET lines == object.buffer \o drain.hand IN
       \/ /\ object' = [object EXCEPT !.buffer = lines]
          /\ drain' = [pc |-> "count", hand |-> <<>>]
          /\ UNCHANGED <<store, recorded, failures>>
       \/ \E outcome \in Outcomes :
             /\ Attempt(outcome, FALSE)
             /\ FlushLocked(lines, outcome)
             /\ drain' = [pc |-> IF outcome = "ok" THEN "count" ELSE "receive",
                          hand |-> <<>>]
    /\ UNCHANGED <<podVars, mainVars, queueVars, req, flusher, pending>>

DrainCount ==
    /\ drain.pc = "count"
    /\ pending' = pending + 1
    /\ drain' = [drain EXCEPT !.pc = IF pending + 1 >= BatchSize THEN "zero" ELSE "receive"]
    /\ UNCHANGED <<podVars, mainVars, queueVars, objectVars, req, flusher>>

\* BufferedWriter.Flush in two steps: pending is reset under bw.mu, the object writer
\* flushes under its own lock.
DrainZero ==
    /\ drain.pc = "zero"
    /\ pending' = 0
    /\ drain' = [drain EXCEPT !.pc = "flush"]
    /\ UNCHANGED <<podVars, mainVars, queueVars, objectVars, req, flusher>>

DrainFlush ==
    /\ drain.pc = "flush"
    /\ \E outcome \in Outcomes :
          Attempt(outcome, FALSE) /\ FlushLocked(object.buffer, outcome)
    /\ drain' = [drain EXCEPT !.pc = "receive"]
    /\ UNCHANGED <<podVars, mainVars, queueVars, req, flusher, pending>>

-----------------------------------------------------------------------------
(***************************************************************************)
(* BufferedWriter.flushLoop.  main cancels its context once the queue is   *)
(* drained.                                                                *)
(***************************************************************************)
Cancelled == main = "stopflusher"

FlushTickFull ==                \* mutant: the ticker flushes full batches only
    /\ flusher = "wait" /\ pending >= BatchSize
    /\ flusher' = "zero"
    /\ UNCHANGED <<podVars, mainVars, req, queueVars, drain, pending, objectVars>>

FlushTick ==
    /\ flusher = "wait" /\ pending > 0
    /\ flusher' = "zero"
    /\ UNCHANGED <<podVars, mainVars, queueVars, objectVars, req, drain, pending>>

FlushZero ==
    /\ flusher = "zero"
    /\ pending' = 0
    /\ flusher' = "flush"
    /\ UNCHANGED <<podVars, mainVars, queueVars, objectVars, req, drain>>

FlushBuffer ==
    /\ flusher = "flush"
    /\ \E outcome \in Outcomes :
          Attempt(outcome, Cancelled) /\ FlushLocked(object.buffer, outcome)
    /\ flusher' = "wait"
    /\ UNCHANGED <<podVars, mainVars, queueVars, req, drain, pending>>

FlushStop ==
    /\ flusher = "wait" /\ Cancelled
    /\ flusher' = "done"
    /\ UNCHANGED <<podVars, mainVars, queueVars, objectVars, req, drain, pending>>

-----------------------------------------------------------------------------
(***************************************************************************)
(* main().                                                                 *)
(***************************************************************************)
\* UpsertCapture: completed_at is kept once it is set.
UpsertCapture(status, done) ==
    history' = [status |-> status, completedAt |-> history.completedAt \/ done]

\* The start is recorded before the storage writer is made; a failure to make it exits,
\* and the kubelet starts the container again.
Boot ==
    /\ main = "booting"
    /\ UpsertCapture("running", FALSE)
    /\ main' \in {"booting", "serving"}
    /\ UNCHANGED <<podVars, queueVars, writerVars, objectVars, serverErr, req>>

\* SIGTERM, or one of the three servers failed.
Stop ==
    /\ main = "serving"
    /\ main' = "stopgrpc"
    /\ serverErr' \in BOOLEAN
    /\ UNCHANGED <<podVars, queueVars, writerVars, objectVars, req, history>>

\* GracefulStop returns when no gRPC handler runs.
StopGRPC ==
    /\ main = "stopgrpc"
    /\ \A r \in GRPC : req[r] \notin InFlight
    /\ main' = "stophttp"
    /\ UNCHANGED <<podVars, queueVars, writerVars, objectVars, serverErr, req, history>>

\* http.Server.Shutdown returns when no handler runs, or with an error after 10 s.
StopHTTP ==
    /\ main = "stophttp"
    /\ serverErr' = (serverErr \/ \E r \in Requests : req[r] \in InFlight)
    /\ main' = "closing"
    /\ UNCHANGED <<podVars, queueVars, writerVars, objectVars, req, history>>

CloseQueueOpen ==               \* mutant: the channel is not closed
    /\ main = "closing"
    /\ main' = "draining"
    /\ UNCHANGED <<podVars, serverErr, history, req, queueVars, writerVars, objectVars>>

\* AsyncWriter.Close and BufferedWriter.Close.
CloseQueue ==
    /\ main = "closing"
    /\ closed' = TRUE
    /\ main' = "draining"
    /\ UNCHANGED <<podVars, writerVars, objectVars, serverErr, req, queue, history>>

AwaitDrain ==
    /\ main = "draining" /\ drain.pc = "drained"
    /\ main' = "stopflusher"
    /\ UNCHANGED <<podVars, queueVars, writerVars, objectVars, serverErr, req, history>>

AwaitFlusher ==
    /\ main = "stopflusher" /\ flusher = "done"
    /\ main' = "flush"
    /\ UNCHANGED <<podVars, queueVars, writerVars, objectVars, serverErr, req, history>>

\* The error of this flush is only logged: the object writer's Close flushes again.
CloseFlush ==
    /\ main = "flush"
    /\ \E outcome \in Outcomes :
          Attempt(outcome, FALSE) /\ FlushLocked(object.buffer, outcome)
    /\ main' = "shut"
    /\ UNCHANGED <<podVars, queueVars, writerVars, serverErr, req, history>>

CloseObjectUnflushed ==         \* mutant: Close relies on the flush before it
    /\ main = "shut"
    /\ main' = "history"
    /\ UNCHANGED <<podVars, serverErr, history, req, queueVars, writerVars, objectVars>>

CloseObject ==
    /\ main = "shut"
    /\ \E outcome \in Outcomes :
          /\ Attempt(outcome, FALSE)
          /\ FlushLocked(object.buffer, outcome)
          /\ serverErr' = (serverErr \/ outcome # "ok")
    /\ main' = "history"
    /\ UNCHANGED <<podVars, queueVars, writerVars, req, history>>

\* A failing update of the row is only logged.  A handler that outlived the shutdown of
\* the HTTP sink ends with the process.
RecordEnd ==
    /\ main = "history"
    /\ req' = [r \in Requests |-> IF req[r] \in InFlight THEN "lost" ELSE req[r]]
    /\ \/ UpsertCapture(IF serverErr THEN "failed" ELSE "completed", TRUE)
       \/ history' = history
    /\ main' = "exited"
    /\ UNCHANGED <<podVars, queueVars, writerVars, objectVars, serverErr>>

Main == Boot \/ StopGRPC \/ StopHTTP \/ CloseQueue \/ AwaitDrain
        \/ AwaitFlusher \/ CloseFlush \/ CloseObject \/ RecordEnd

-----------------------------------------------------------------------------
(***************************************************************************)
(* The environment.                                                        *)
(***************************************************************************)
\* Accepted requests that are not yet known to be stored, oldest first.
Waiting == object.buffer \o drain.hand \o queue

\* The process is killed: what it holds in memory is gone.
Kill ==
    /\ main \notin {"booting", "exited", "killed"}
    /\ main' = "killed"
    /\ req' = [r \in Requests |-> IF req[r] \in InFlight \/ r \in Range(Waiting)
                                  THEN "lost" ELSE req[r]]
    /\ queue' = <<>>
    /\ drain' = [pc |-> "drained", hand |-> <<>>]
    /\ flusher' = "done"
    /\ object' = [object EXCEPT !.buffer = <<>>]
    /\ UNCHANGED <<podVars, serverErr, closed, pending, store, recorded, history, failures>>

\* A process starts: it counts its objects from one.  What a failed last flush left in the
\* buffer ended with the process before it.
Start ==
    /\ main \in {"exited", "killed"} /\ starts < MaxStarts
    /\ starts' = starts + 1
    /\ main' = "booting" /\ serverErr' = FALSE
    /\ closed' = FALSE
    /\ drain' = [pc |-> "receive", hand |-> <<>>]
    /\ flusher' = "wait" /\ pending' = 0
    /\ object' = NewObjectWriter
    /\ UNCHANGED <<backend, day, queue, store, recorded, history, failures>>

\* The Deployment's next pod, under a new name.
NextPod ==
    /\ Start
    /\ pod' = pod + 1
    /\ req' = [r \in Requests |-> IF r \in Range(Waiting) THEN "lost" ELSE req[r]]

\* The kubelet starts the container again in its pod: same POD_NAME, so the names of the
\* objects it writes today are those the process before it used.
RestartContainer ==
    /\ Start
    /\ pod' = pod
    /\ req' = [r \in Requests |-> IF r \in Range(Waiting) THEN "lost"
                                  ELSE IF req[r] = "queued" THEN "past" ELSE req[r]]

Midnight ==
    /\ day < MaxDays
    /\ day' = day + 1
    /\ UNCHANGED <<mainVars, queueVars, writerVars, objectVars, backend, pod, starts, req>>

Drain == DrainReceive \/ DrainWrite \/ DrainCount \/ DrainZero \/ DrainFlush
Flusher == FlushTick \/ FlushZero \/ FlushBuffer \/ FlushStop

AgentNext ==
    \/ \E r \in Requests : Arrive(r) \/ Handle(r) \/ Enqueue(r)
    \/ Drain \/ Flusher \/ Main \/ Stop \/ Kill \/ NextPod \/ RestartContainer
    \/ Midnight

-----------------------------------------------------------------------------
(***************************************************************************)
(* Properties.                                                             *)
(***************************************************************************)
Stored == UNION {Range(store[name]) : name \in DOMAIN store}

\* The log's view: a process that ended holds nothing, and what it may overwrite are the
\* objects of its pod and date that it has not counted up to, but for its own.
Up == main \notin {"exited", "killed"}
Held == IF Up THEN Waiting ELSE <<>>
Overwritable ==
    IF ~Up THEN {}
    ELSE UNION {Range(store[name]) : name \in {n \in DOMAIN store :
                    n[1] = pod /\ n[2] = day /\ n[3] > object.sequence}} \ Range(Waiting)

Log == INSTANCE CaptureLog WITH up <- Up, waiting <- Held, stored <- Stored,
                                exposed <- Overwritable

\* The write pipeline is a log: what a handler enqueued becomes durable in the order in
\* which it was enqueued, and only the end of the process loses an accepted request.  What
\* is durable stays readable whatever uploads fail, are retried or cross midnight, unless
\* the container starts again in its pod: what its pod stored that day is then exposed to
\* being overwritten (AsyncWriter, BufferedWriter, flushLocked and objectFileName together).
ImplementsLog == Log!Spec

\* When main records a completed capture, every request that this process or another pod
\* accepted, and did not lose, is in an object, in S3 in one that the artifact table lists;
\* so a failing last flush must make the capture failed.
CompletedMeansStored ==
    history.status = "completed" /\ main = "exited" =>
        \A r \in Requests : req[r] = "queued" =>
            \E name \in DOMAIN store :
                r \in Range(store[name]) /\ (backend = "s3" => name \in recorded)

\* A request is in at most one object of a pod and a date: an upload that is tried
\* again reuses the name of the failed one, because flushLocked counts only uploads
\* that succeeded.
OneObjectADay ==
    \A m, n \in DOMAIN store :
        m # n /\ m[1] = n[1] /\ m[2] = n[2] => Range(store[m]) \cap Range(store[n]) = {}

\* What the agent leaves behind is what the history says: nothing that a completed capture
\* accepted is missing, and no request lies in two objects of a day.
StoredAsRecorded == CompletedMeansStored /\ OneObjectADay

\* As long as no upload fails, an accepted request is stored without waiting for another
\* request or for the end of the agent: no interleaving of the two flushes with the
\* drain goroutine strands a line behind pending = 0.
AcceptedIsStored ==
    \A r \in Requests :
        req[r] = "queued" /\ failures = 0 ~> r \in Stored \/ req[r] = "lost" \/ failures > 0

\* A SIGTERM ends the process: no two of main, the handlers, the drain goroutine and the
\* flush loop wait for each other.
ShutdownEnds == main = "stopgrpc" ~> main \in {"exited", "killed"}
=============================================================================
