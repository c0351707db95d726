----------------------------- MODULE EngineStream -----------------------------
(***************************************************************************)
(* A run on a plugin engine: the host's Feeder and the Execute of the      *)
(* engine SDK, joined by one bidirectional gRPC stream, and the engine     *)
(* behind it (builtin, ghz or k6).  The host feeds its shard and closes    *)
(* its half; the engine answers with events and one summary; the handler   *)
(* of the SDK returns when the engine, the send loop and the receive loop  *)
(* all have.                                                               *)
(*                                                                         *)
(* The stream carries at most Window requests.  The events and the window  *)
(* of the way back are one queue; results, latencies and status codes are  *)
(* counted, not kept.                                                      *)
(***************************************************************************)
EXTENDS Sharding, FiniteSets

CONSTANTS
    Engines,            \* the engines of the runs: a subset of {"builtin", "ghz", "k6"}
    EngineWorkers,      \* the goroutines of builtin, the VUs of k6; ghz reads with one
    Window,             \* requests gRPC's flow control lets be under way
    StreamBuffer        \* feedBuffer of the SDK

ASSUME StreamAssumption ==
    /\ Engines \subseteq {"builtin", "ghz", "k6"}
    /\ EngineWorkers # {} /\ Window \in Nat \ {0} /\ StreamBuffer \in Nat \ {0}

VARIABLES
    engine,             \* which engine
    hostCtx,            \* "live", or "done" after SIGTERM
    conn,               \* "up", or "broken": the engine died, or the manager closed it
    host,               \* [pc, hand]: feed, and the request it is about to send
    hostErr,            \* what feed returned
    hostPos, hostSkipped, fed,
    wire,               \* requests under way
    halfClosed,         \* CloseSend was called
    recvLoop,           \* "recv", or what the receive loop returned with: "nil", "error"
    feed,               \* the feed channel; closed when recvLoop has returned
    goroutine,          \* [EngineWorkers -> [pc, item]]
    draining,           \* Drain was called
    execute,            \* "run", "mix", "summary", then "nil" or "error"
    handled,            \* the requests the engine counted
    dropped,            \* the requests it took and did not count
    events,             \* the events channel
    status,             \* of the RPC: "open", "ok", "error", or "lost" with the stream
    collect,            \* "recv", then "nil" or "error"
    summary,            \* the total of the summary, as a sequence of length 0 or 1
    outcome             \* of Feeder.Run: "running", "succeeded", "failed"

hostVars == <<host, hostErr, hostPos, hostSkipped, fed>>
sdkVars == <<recvLoop, feed, status>>
execVars == <<goroutine, draining, execute, handled, dropped>>
endVars == <<collect, summary, outcome>>
streamVars == <<engine, hostCtx, conn, hostVars, wire, halfClosed, sdkVars, execVars, events, endVars>>

Free == [pc |-> "take", item |-> <<>>]
Reads(w) == engine = "ghz" => w = CHOOSE v \in EngineWorkers : TRUE
ProcessUp == conn = "up" /\ outcome = "running"     \* the worker closes its engine in the end
Broken == hostCtx = "done" \/ conn = "broken"

StreamInit ==
    /\ engine \in Engines /\ hostCtx = "live" /\ conn = "up"
    /\ host = [pc |-> "read", hand |-> <<>>] /\ hostErr = "none"
    /\ hostPos = 0 /\ hostSkipped = 0 /\ fed = 0
    /\ wire = <<>> /\ halfClosed = FALSE /\ recvLoop = "recv" /\ feed = <<>>
    /\ goroutine = [w \in EngineWorkers |-> IF Reads(w) THEN Free ELSE [Free EXCEPT !.pc = "out"]]
    /\ draining = FALSE
    /\ execute = "run" /\ handled = {} /\ dropped = {}
    /\ events = <<>> /\ status = "open"
    /\ collect = "recv" /\ summary = <<>> /\ outcome = "running"

-----------------------------------------------------------------------------
(***************************************************************************)
(* Feeder.feed.                                                            *)
(***************************************************************************)
\* It returns; the deferred CloseSend follows at once.
FeedEnds(err) ==
    /\ host' = [pc |-> "done", hand |-> <<>>]
    /\ hostErr' = err /\ halfClosed' = TRUE
    /\ UNCHANGED <<hostPos, hostSkipped, fed, wire>>

\* A turn up to the send: both sentinels end the feed, any other error fails it.
HostRead ==
    /\ host.pc = "read"
    /\ \/ hostCtx = "done" /\ FeedEnds("error")
       \/ hostCtx = "live" /\ hostPos = Len(Capture) /\ FeedEnds("nil")
       \/ hostCtx = "live" /\ FeedEnds("error")
       \/ /\ hostCtx = "live" /\ hostPos < Len(Capture)
          /\ hostPos' = hostPos + 1
          /\ LET id == Capture[hostPos + 1] IN
             IF ShardOwns(id, ShardIndex, ShardCount)
             THEN host' = [pc |-> "send", hand |-> <<id>>] /\ hostSkipped' = hostSkipped
             ELSE host' = host /\ hostSkipped' = hostSkipped + 1
          /\ UNCHANGED <<hostErr, fed, wire, halfClosed>>
    /\ UNCHANGED <<engine, hostCtx, conn, sdkVars, execVars, events, endVars>>

HostSendDeaf ==                 \* mutant: a Send that waits does not see the stream end
    /\ host.pc = "send" /\ ~Broken /\ status = "open" /\ Len(wire) < Window
    /\ wire' = wire \o host.hand
    /\ host' = [pc |-> "read", hand |-> <<>>] /\ fed' = fed + 1
    /\ UNCHANGED <<hostErr, hostPos, hostSkipped, halfClosed, engine, hostCtx, conn, sdkVars,
                   execVars, events, endVars>>

\* Send waits for flow control; it fails once the stream is broken or has ended.
HostSend ==
    /\ host.pc = "send"
    /\ \/ (Broken \/ status # "open") /\ FeedEnds("error")
       \/ /\ ~Broken /\ status = "open" /\ Len(wire) < Window
          /\ wire' = wire \o host.hand
          /\ host' = [pc |-> "read", hand |-> <<>>] /\ fed' = fed + 1
          /\ UNCHANGED <<hostErr, hostPos, hostSkipped, halfClosed>>
    /\ UNCHANGED <<engine, hostCtx, conn, sdkVars, execVars, events, endVars>>

-----------------------------------------------------------------------------
(***************************************************************************)
(* The receive loop of the SDK.                                            *)
(***************************************************************************)
RecvItem ==
    /\ ProcessUp /\ recvLoop = "recv" /\ wire # <<>> /\ ~Broken
    /\ Len(feed) < StreamBuffer
    /\ feed' = Append(feed, Head(wire)) /\ wire' = Tail(wire)
    /\ UNCHANGED <<engine, hostCtx, conn, hostVars, halfClosed, recvLoop, status, execVars, events, endVars>>

\* The half-close, or the broken stream; the deferred close of the channel follows.
RecvEnd ==
    /\ ProcessUp /\ recvLoop = "recv"
    /\ \/ wire = <<>> /\ halfClosed /\ ~Broken /\ recvLoop' = "nil"
       \/ Broken /\ recvLoop' = "error"
    /\ UNCHANGED <<engine, hostCtx, conn, hostVars, wire, halfClosed, feed, status, execVars, events, endVars>>

-----------------------------------------------------------------------------
(***************************************************************************)
(* The engine's Execute.                                                   *)
(***************************************************************************)
EngineAlive == ProcessUp /\ execute = "run"

\* Receiving from the feed channel.  A draining builtin drops what it takes.
Take(w) ==
    /\ EngineAlive /\ goroutine[w].pc = "take"
    /\ \/ /\ feed # <<>> /\ feed' = Tail(feed)
          /\ IF engine = "builtin" /\ draining
             THEN goroutine' = goroutine /\ dropped' = dropped \cup {Head(feed)}
             ELSE /\ goroutine' = [goroutine EXCEPT ![w] = [pc |-> "work", item |-> <<Head(feed)>>]]
                  /\ dropped' = dropped
       \/ /\ feed = <<>> /\ recvLoop # "recv" /\ engine # "k6"
          /\ goroutine' = [goroutine EXCEPT ![w].pc = "out"]
          /\ UNCHANGED <<feed, dropped>>
    /\ UNCHANGED <<engine, hostCtx, conn, hostVars, wire, halfClosed, recvLoop, status,
                   draining, execute, handled, events, endVars>>

\* builtin sends the request and reports it; ghz counts it for its method; a VU of k6
\* sends what it got from the feed bridge.
Work(w) ==
    /\ EngineAlive /\ goroutine[w].pc = "work"
    /\ handled' = handled \cup Range(goroutine[w].item)
    /\ goroutine' = [goroutine EXCEPT ![w] =
                        IF engine = "builtin" THEN [@ EXCEPT !.pc = "report"] ELSE Free]
    /\ UNCHANGED <<engine, hostCtx, conn, hostVars, wire, halfClosed, sdkVars, draining,
                   execute, dropped, events, endVars>>

\* The result event of builtin; a cancelled stream ends the goroutine.
Report(w) ==
    /\ EngineAlive /\ goroutine[w].pc = "report"
    /\ \/ /\ Len(events) < StreamBuffer /\ events' = Append(events, "result")
          /\ goroutine' = [goroutine EXCEPT ![w] = Free]
       \/ /\ Broken /\ events' = events
          /\ goroutine' = [goroutine EXCEPT ![w] = [pc |-> "out", item |-> <<>>]]
    /\ UNCHANGED <<engine, hostCtx, conn, hostVars, wire, halfClosed, sdkVars, draining,
                   execute, handled, dropped, endVars>>

\* The feed is consumed: builtin summarises, ghz replays the mix it counted, if any.
Consumed ==
    /\ EngineAlive /\ \A w \in EngineWorkers : goroutine[w].pc = "out"
    /\ execute' = IF engine = "ghz" /\ handled # {} THEN "mix" ELSE "summary"
    /\ UNCHANGED <<engine, hostCtx, conn, hostVars, wire, halfClosed, sdkVars, goroutine,
                   draining, handled, dropped, events, endVars>>

\* One ghz process per method, a progress event after each; the first that fails, or that
\* Drain or a broken stream kills, fails Execute.
Mix ==
    /\ ProcessUp /\ execute = "mix"
    /\ \/ execute' = "error" /\ events' = events
       \/ /\ ~Broken /\ ~draining /\ Len(events) < StreamBuffer
          /\ events' = Append(events, "progress") /\ execute' = "summary"
    /\ UNCHANGED <<engine, hostCtx, conn, hostVars, wire, halfClosed, sdkVars, goroutine,
                   draining, handled, dropped, endVars>>

\* k6 ends on its own terms: it did not start, it crashed, its duration is over, or Drain
\* killed it.  Execute does not read the rest of the feed.  The reading loop of the
\* bridge holds what the VUs did not get.
K6Exits ==
    /\ EngineAlive /\ engine = "k6"
    /\ execute' \in {"summary", "error"}
    /\ goroutine' = [w \in EngineWorkers |-> [pc |-> "out", item |-> <<>>]]
    /\ dropped' = dropped \cup UNION {Range(goroutine[w].item) : w \in EngineWorkers}
    /\ UNCHANGED <<engine, hostCtx, conn, hostVars, wire, halfClosed, sdkVars, draining,
                   handled, events, endVars>>

\* The last event.
Summarise ==
    /\ ProcessUp /\ execute = "summary"
    /\ \/ Len(events) < StreamBuffer /\ events' = Append(events, "summary") /\ execute' = "nil"
       \/ Broken /\ events' = events /\ execute' = "error"
    /\ UNCHANGED <<engine, hostCtx, conn, hostVars, wire, halfClosed, sdkVars, goroutine,
                   draining, handled, dropped, endVars>>

\* The handler waits for the send loop and for the receive loop; the error of Execute
\* comes before the receive loop's.  A cancelled stream takes no status.
HandlerReturns ==
    /\ ProcessUp /\ status = "open" /\ execute \in {"nil", "error"}
    /\ events = <<>> \/ Broken
    /\ recvLoop # "recv"
    /\ status' = CASE Broken -> "lost"
                   [] ~Broken /\ execute = "nil" /\ recvLoop = "nil" -> "ok"
                   [] OTHER -> "error"
    /\ UNCHANGED <<engine, hostCtx, conn, hostVars, wire, halfClosed, recvLoop, feed, execVars, events, endVars>>

-----------------------------------------------------------------------------
(***************************************************************************)
(* Feeder.collect and Feeder.Run.                                          *)
(***************************************************************************)
\* An event; the summary is what the report takes its numbers from.
CollectEvent ==
    /\ collect = "recv" /\ events # <<>> /\ (~Broken \/ status = "ok")
    /\ events' = Tail(events)
    /\ summary' = IF Head(events) = "summary" THEN <<Cardinality(handled)>> ELSE summary
    /\ UNCHANGED <<engine, hostCtx, conn, hostVars, wire, halfClosed, sdkVars, execVars, collect, outcome>>

\* The end: a stream that ends without a summary is an error.
CollectEnd ==
    /\ collect = "recv"
    /\ \/ /\ events = <<>> /\ status \in {"ok", "error"}
          /\ collect' = IF status = "ok" /\ summary # <<>> THEN "nil" ELSE "error"
       \/ Broken /\ status # "ok" /\ collect' = "error"
    /\ UNCHANGED <<engine, hostCtx, conn, hostVars, wire, halfClosed, sdkVars, execVars, events, summary, outcome>>

RunReturnsUnfed ==              \* mutant: Run does not wait for the feed
    /\ outcome = "running" /\ collect # "recv"
    /\ outcome' = IF collect = "nil" THEN "succeeded" ELSE "failed"
    /\ UNCHANGED <<engine, hostCtx, conn, hostVars, wire, halfClosed, sdkVars, execVars, events, collect, summary>>

\* Run waits for both; an empty run fails (--fail-on-empty).
FeederReturns ==
    /\ outcome = "running" /\ collect # "recv" /\ host.pc = "done"
    /\ outcome' = IF collect = "nil" /\ hostErr = "nil" /\ fed + hostSkipped > 0
                  THEN "succeeded" ELSE "failed"
    /\ UNCHANGED <<engine, hostCtx, conn, hostVars, wire, halfClosed, sdkVars, execVars, events, collect, summary>>

-----------------------------------------------------------------------------
(***************************************************************************)
(* The environment: SIGTERM, the manager's Drain, and the loss of the      *)
(* process or of the connection.                                           *)
(***************************************************************************)
HostCancelled ==
    /\ outcome = "running" /\ ~Broken /\ hostCtx' = "done"
    /\ UNCHANGED <<engine, conn, hostVars, wire, halfClosed, sdkVars, execVars, events, endVars>>

EngineLost ==
    /\ outcome = "running" /\ ~Broken /\ conn' = "broken"
    /\ UNCHANGED <<engine, hostCtx, hostVars, wire, halfClosed, sdkVars, execVars, events, endVars>>

\* After Execute it finds nothing to stop, nor does it in a ghz that still counts the feed:
\* there is no run to cancel yet.
Drain ==
    /\ ProcessUp
    /\ execute = "mix" \/ (execute = "run" /\ engine # "ghz")
    /\ ~draining /\ draining' = TRUE
    /\ UNCHANGED <<engine, hostCtx, conn, hostVars, wire, halfClosed, sdkVars, goroutine,
                   execute, handled, dropped, events, endVars>>

HostStep == HostRead \/ HostSend
SDKStep == RecvItem \/ RecvEnd \/ HandlerReturns
EngineStep(w) == Take(w) \/ Work(w) \/ Report(w)
ExecuteStep == Consumed \/ Mix \/ K6Exits \/ Summarise
CollectStep == CollectEvent \/ CollectEnd \/ FeederReturns

StreamNext ==
    \/ HostStep \/ SDKStep \/ ExecuteStep \/ CollectStep
    \/ HostCancelled \/ EngineLost \/ Drain
    \/ \E w \in EngineWorkers : EngineStep(w)

-----------------------------------------------------------------------------
(***************************************************************************)
(* Properties.                                                             *)
(***************************************************************************)
\* The type invariant of the stream's state; the bounds are the backpressure that lets
\* a capture stream through without piling up.
StreamTypeOK ==
    /\ engine \in Engines /\ hostCtx \in {"live", "done"} /\ conn \in {"up", "broken"}
    /\ host.pc \in {"read", "send", "done"} /\ hostErr \in {"none", "nil", "error"}
    /\ Len(wire) <= Window /\ Len(feed) <= StreamBuffer /\ Len(events) <= StreamBuffer
    /\ recvLoop \in {"recv", "nil", "error"} /\ status \in {"open", "ok", "error", "lost"}
    /\ \A w \in EngineWorkers : goroutine[w].pc \in {"take", "work", "report", "out"}
    /\ execute \in {"run", "mix", "summary", "nil", "error"}
    /\ collect \in {"recv", "nil", "error"} /\ Len(summary) <= 1
    /\ outcome \in {"running", "succeeded", "failed"}

\* A run that succeeds on an engine that reads its feed to the end was summarised, the
\* summary counts the requests of the shard, and each of them was replayed, unless the
\* engine was drained (feed, the receive loop, Execute, collect and Run together).
SucceededMeansSummarised ==
    outcome = "succeeded" =>
        /\ summary # <<>>
        /\ engine # "k6" /\ ~draining => summary = <<Cardinality(Own)>> /\ handled = Own

\* No request is counted that the shard does not own, or both counted and dropped, and
\* the engine never counts more than the host has fed.
CountedOnce ==
    /\ handled \subseteq Own /\ handled \cap dropped = {}
    /\ Cardinality(handled) + Cardinality(dropped) <= fed

\* The counts of a run on a plugin engine are right: while it runs nothing is counted twice,
\* and if it succeeds everything is.
RunSummarised == SucceededMeansSummarised /\ CountedOnce

\* A run on an engine that reads its feed to the end always ends, whatever is cancelled,
\* drained or lost: no two of the host, the loops and the engine wait for each other.
StreamEnds == engine # "k6" => <>(outcome # "running")
=============================================================================
