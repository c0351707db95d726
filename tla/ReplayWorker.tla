----------------------------- MODULE ReplayWorker -----------------------------
(***************************************************************************)
(* A replay worker in direct mode: runDirectReplay of cmd/replay-engine,   *)
(* with replay.Engine (one reading goroutine, Concurrency senders, one     *)
(* bounded channel) and the Checkpointer that follows the results.         *)
(*                                                                         *)
(* Pacing delays the reader and changes nothing else, so a paced read is a *)
(* read that takes its time.  The worker builds no Transformer.            *)
(***************************************************************************)
EXTENDS Sharding, FiniteSets

CONSTANTS
    MaxConcurrency,     \* bound on the sendLoop goroutines
    FailOnEmpty,        \* --fail-on-empty
    MaxDiskFaults       \* bound on checkpoint writes that fail

ASSUME WorkerAssumption ==
    FailOnEmpty \in BOOLEAN /\ MaxDiskFaults \in Nat /\ MaxConcurrency \in Nat \ {0}

VARIABLES
    ctx,                \* "live", or "done" after SIGTERM
    position,           \* how many requests the reader has yielded
    skipped,            \* requests of other shards: e.shardSkipped
    reader,             \* [pc, hand]: readLoop, and the request it is about to pass on
    readErr,            \* what readLoop returned
    reqCh,              \* the channel between readLoop and the senders
    sender,             \* [1 .. concurrency -> [pc, item, ok]]
    results,            \* defaultResultHandler.results: [id, ok]
    checkpoint,         \* Checkpointer.current: [sent, errored]
    dirty,              \* Checkpointer.dirty
    flusher,            \* [pc, copy]: flushLoop
    disk,               \* the checkpoint file, as a sequence of length 0 or 1
    diskFaults,
    worker,             \* where runDirectReplay is
    report              \* the run report, as a sequence of length 0 or 1

engineVars == <<position, skipped, reader, readErr, reqCh, sender, results>>
checkpointVars == <<checkpoint, dirty, flusher, disk, diskFaults>>
workerVars == <<ctx, engineVars, checkpointVars, worker, report>>

Counts == [sent |-> Cardinality({r \in results : r.ok}),
           errored |-> Cardinality({r \in results : ~r.ok})]
Zero == [sent |-> 0, errored |-> 0]
Senders == DOMAIN sender
Idle == [pc |-> "receive", item |-> <<>>, ok |-> FALSE]

WorkerInit ==
    /\ ctx = "live" /\ position = 0 /\ skipped = 0
    /\ reader = [pc |-> "next", hand |-> <<>>] /\ readErr = "none"
    /\ reqCh = <<>> /\ results = {}
    /\ \E concurrency \in 1 .. MaxConcurrency : sender = [s \in 1 .. concurrency |-> Idle]
    /\ checkpoint = Zero /\ dirty = FALSE
    /\ flusher = [pc |-> "wait", copy |-> Zero] /\ disk = <<>> /\ diskFaults = 0
    /\ worker = "running" /\ report = <<>>

-----------------------------------------------------------------------------
(***************************************************************************)
(* readLoop.                                                               *)
(***************************************************************************)
\* The loop returns; the deferred close of the channel follows at once.
ReadReturn(err) ==
    /\ reader' = [pc |-> "done", hand |-> <<>>]
    /\ readErr' = err
    /\ UNCHANGED <<position, skipped, reqCh>>

ReadNextAll ==                  \* mutant: no shard filter
    /\ reader.pc = "next"
    /\ \/ position = Len(Capture) /\ ReadReturn("nil")
       \/ /\ position < Len(Capture) /\ position' = position + 1
          /\ reader' = [pc |-> "push", hand |-> <<Capture[position + 1]>>]
          /\ UNCHANGED <<skipped, readErr, reqCh>>
    /\ UNCHANGED <<ctx, sender, results, checkpointVars, worker, report>>

\* One turn of the loop up to the send: the end, an error or the cancelled context ends
\* it, a request of another shard is skipped.
ReadNext ==
    /\ reader.pc = "next"
    /\ \/ ctx = "done" /\ ReadReturn("cancelled")
       \/ ctx = "live" /\ position = Len(Capture) /\ ReadReturn("nil")
       \/ ctx = "live" /\ ReadReturn("failed")
       \/ /\ ctx = "live" /\ position < Len(Capture)
          /\ position' = position + 1
          /\ LET id == Capture[position + 1] IN
             IF ShardOwns(id, ShardIndex, ShardCount)
             THEN reader' = [pc |-> "push", hand |-> <<id>>] /\ skipped' = skipped
             ELSE reader' = reader /\ skipped' = skipped + 1
          /\ UNCHANGED <<readErr, reqCh>>
    /\ UNCHANGED <<ctx, sender, results, checkpointVars, worker, report>>

ReadPushOver ==                 \* mutant: the channel is not bounded
    /\ reader.pc = "push"
    /\ reqCh' = reqCh \o reader.hand
    /\ reader' = [pc |-> "next", hand |-> <<>>]
    /\ UNCHANGED <<ctx, position, skipped, readErr, sender, results, checkpointVars, worker, report>>

\* Rate limiting and the send on the channel, both watching the context.
ReadPush ==
    /\ reader.pc = "push"
    /\ \/ ctx = "done" /\ ReadReturn("cancelled")
       \/ /\ Len(reqCh) < 2 * Cardinality(Senders)
          /\ reqCh' = reqCh \o reader.hand
          /\ reader' = [pc |-> "next", hand |-> <<>>]
          /\ UNCHANGED <<position, skipped, readErr>>
    /\ UNCHANGED <<ctx, sender, results, checkpointVars, worker, report>>

-----------------------------------------------------------------------------
(***************************************************************************)
(* sendLoop, HandleResult of both handlers.                                *)
(***************************************************************************)
\* A sender that receives a request after the context is cancelled drops it and returns.
SendReceive(s) ==
    /\ sender[s].pc = "receive"
    /\ \/ /\ reqCh # <<>>
          /\ reqCh' = Tail(reqCh)
          /\ sender' = [sender EXCEPT ![s] =
                IF ctx = "done" THEN [Idle EXCEPT !.pc = "returned"]
                ELSE [pc |-> "send", item |-> <<Head(reqCh)>>, ok |-> FALSE]]
       \/ /\ reqCh = <<>> /\ reader.pc = "done"
          /\ reqCh' = reqCh
          /\ sender' = [sender EXCEPT ![s].pc = "returned"]
    /\ UNCHANGED <<ctx, position, skipped, reader, readErr, results, checkpointVars,
                   worker, report>>

\* Sender.Send: under a cancelled context it only fails.
Send(s) ==
    /\ sender[s].pc = "send"
    /\ \E ok \in IF ctx = "done" THEN {FALSE} ELSE BOOLEAN :
          sender' = [sender EXCEPT ![s].pc = "handle", ![s].ok = ok]
    /\ UNCHANGED <<ctx, position, skipped, reader, readErr, reqCh, results,
                   checkpointVars, worker, report>>

\* defaultResultHandler.HandleResult, under its own lock.
HandleResult(s) ==
    /\ sender[s].pc = "handle"
    /\ results' = results \cup {[id |-> sender[s].item[1], ok |-> sender[s].ok]}
    /\ sender' = [sender EXCEPT ![s].pc = "update"]
    /\ UNCHANGED <<ctx, position, skipped, reader, readErr, reqCh, checkpointVars,
                   worker, report>>

\* The Update of CheckpointResultHandler, under the checkpointer's lock.
UpdateCheckpoint(s) ==
    /\ sender[s].pc = "update"
    /\ checkpoint' = IF sender[s].ok THEN [checkpoint EXCEPT !.sent = @ + 1]
                     ELSE [checkpoint EXCEPT !.errored = @ + 1]
    /\ dirty' = TRUE
    /\ sender' = [sender EXCEPT ![s] = Idle]
    /\ UNCHANGED <<ctx, position, skipped, reader, readErr, reqCh, results, flusher, disk,
                   diskFaults, worker, report>>

-----------------------------------------------------------------------------
(***************************************************************************)
(* The checkpointer.  A write goes to a temporary file, is synced and      *)
(* renamed: a failing one leaves the file as it was.                       *)
(***************************************************************************)
WriteInPlace(copy) ==           \* mutant: no temporary file, a failing write leaves zeros
    \/ disk' = <<copy>> /\ diskFaults' = diskFaults
    \/ diskFaults < MaxDiskFaults /\ diskFaults' = diskFaults + 1 /\ disk' = <<Zero>>

WriteCheckpoint(copy) ==
    \/ disk' = <<copy>> /\ diskFaults' = diskFaults
    \/ diskFaults < MaxDiskFaults /\ diskFaults' = diskFaults + 1 /\ disk' = disk

\* flush of the periodic loop: the copy is taken under the lock, written outside it.
FlushCopy ==
    /\ flusher.pc = "wait" /\ dirty
    /\ dirty' = FALSE
    /\ flusher' = [pc |-> "write", copy |-> checkpoint]
    /\ UNCHANGED <<ctx, engineVars, checkpoint, disk, diskFaults, worker, report>>

FlushWrite ==
    /\ flusher.pc = "write"
    /\ WriteCheckpoint(flusher.copy)
    /\ flusher' = [flusher EXCEPT !.pc = "wait"]
    /\ UNCHANGED <<ctx, engineVars, checkpoint, dirty, worker, report>>

\* The loop returns once Stop closed stopCh.
FlushReturn ==
    /\ flusher.pc = "wait" /\ worker = "stopping"
    /\ flusher' = [flusher EXCEPT !.pc = "stopped"]
    /\ UNCHANGED <<ctx, engineVars, checkpoint, dirty, disk, diskFaults, worker, report>>

-----------------------------------------------------------------------------
(***************************************************************************)
(* runDirectReplay.                                                        *)
(***************************************************************************)
\* wg.Wait and the receive of readErr; then Stop closes stopCh.
RunReturns ==
    /\ worker = "running"
    /\ \A s \in Senders : sender[s].pc = "returned"
    /\ reader.pc = "done"
    /\ worker' = "stopping"
    /\ UNCHANGED <<ctx, engineVars, checkpointVars, report>>

\* Stop waits for the loop, then flushes what is dirty; its error is only logged.
StopCheckpointer ==
    /\ worker = "stopping" /\ flusher.pc = "stopped"
    /\ \/ dirty /\ dirty' = FALSE /\ WriteCheckpoint(checkpoint)
       \/ ~dirty /\ UNCHANGED <<dirty, disk, diskFaults>>
    /\ worker' = "ending"
    /\ UNCHANGED <<ctx, engineVars, checkpoint, flusher, report>>

\* An error of readLoop, or an empty run, fails the worker.  Otherwise the report is
\* written, and the checkpoint deleted if no request failed.
EndRun ==
    /\ worker = "ending"
    /\ IF readErr # "nil" \/ (FailOnEmpty /\ results = {} /\ skipped = 0)
       THEN worker' = "failed" /\ UNCHANGED <<disk, report>>
       ELSE /\ worker' = "succeeded"
            /\ report' = <<Counts>>
            /\ disk' = IF Counts.errored = 0 THEN <<>> ELSE disk
    /\ UNCHANGED <<ctx, engineVars, checkpoint, dirty, flusher, diskFaults>>

\* SIGTERM: the Job is deleted, or its node drained.
Cancel ==
    /\ ctx = "live" /\ worker \notin {"succeeded", "failed"}
    /\ ctx' = "done"
    /\ UNCHANGED <<engineVars, checkpointVars, worker, report>>

ReaderStep == ReadNext \/ ReadPush
SenderStep(s) == s \in Senders /\ (SendReceive(s) \/ Send(s) \/ HandleResult(s) \/ UpdateCheckpoint(s))
FlusherStep == FlushCopy \/ FlushWrite \/ FlushReturn
RunStep == RunReturns \/ StopCheckpointer \/ EndRun

WorkerNext ==
    \/ ReaderStep \/ FlusherStep \/ RunStep \/ Cancel
    \/ \E s \in Senders : SenderStep(s)

-----------------------------------------------------------------------------
(***************************************************************************)
(* Properties.                                                             *)
(***************************************************************************)
Handled == {r.id : r \in results}

\* The type invariant of the worker's state.
WorkerTypeOK ==
    /\ ctx \in {"live", "done"} /\ position \in 0 .. Len(Capture) /\ skipped \in 0 .. position
    /\ reader.pc \in {"next", "push", "done"} /\ readErr \in {"none", "nil", "cancelled", "failed"}
    /\ Len(reqCh) <= 2 * Cardinality(Senders)
    /\ results \subseteq [id : Range(Capture), ok : BOOLEAN]
    /\ {checkpoint.sent, checkpoint.errored} \subseteq 0 .. Len(Capture)
    /\ flusher.pc \in {"wait", "write", "stopped"} /\ Len(disk) <= 1 /\ Len(report) <= 1
    /\ worker \in {"running", "stopping", "ending", "succeeded", "failed"}

\* A worker that succeeds without having been interrupted has sent every request of its
\* own shard once and none of another: the shards of a capture are replayed exactly once
\* by their workers together (readLoop, sendLoop, runDirectReplay).
SucceededMeansReplayed ==
    /\ worker = "succeeded" /\ ctx = "live" => Handled = Own
    /\ Handled \subseteq Own
    /\ Cardinality(Handled) = Cardinality(results)

\* The checkpoint file never runs ahead of the results, and it never goes back: the
\* periodic flush cannot overwrite the final one (Checkpointer.Stop waits for it).
CheckpointMonotonic ==
    [][ \A old \in Range(disk), new \in Range(disk') :
           /\ old.sent <= new.sent /\ old.errored <= new.errored
           /\ new.sent <= Counts'.sent /\ new.errored <= Counts'.errored ]_workerVars

\* Whatever way the run fails, the file that stays behind is the last checkpoint, unless a
\* write failed (Stop flushes what the loop left dirty).
CheckpointFinal ==
    worker = "failed" /\ results # {} /\ diskFaults = 0 => disk = <<checkpoint>>

\* Once the run is over the checkpoint counts the results the report counts: no sender is
\* left between the two handlers (wg.Wait comes before Stop).
CheckpointCountsResults ==
    worker # "running" => checkpoint = Counts

\* The checkpoint file can be trusted at any moment, and the one that a failed run leaves
\* counts what the run did.
CheckpointSound == CheckpointMonotonic /\ [](CheckpointFinal /\ CheckpointCountsResults)

\* The worker ends, interrupted or not: the reader never waits for senders that have
\* returned, nor Stop for a flush loop that missed the stop.
WorkerEnds == <>(worker \in {"succeeded", "failed"})
=============================================================================
