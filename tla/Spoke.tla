-------------------------------- MODULE Spoke --------------------------------
(***************************************************************************)
(* The spoke controllers, as far as load tests are concerned: the process  *)
(* (cmd/spoke/main.go) with its hub client (internal/spoke/hub_client.go), *)
(* the directive handler (replay_directives.go), the TrafficReplay         *)
(* reconciler (replay_controller.go) and the orphan collector              *)
(* (orphan_gc.go).  TrafficReplays live in the spoke cluster's API server  *)
(* and their Jobs run there, so both outlive the spoke process.            *)
(*                                                                         *)
(* The Job that runs a shard is reduced to the phase the TrafficReplay     *)
(* reconciler reads off it.                                                *)
(***************************************************************************)
EXTENDS HubServer

CONSTANTS
    NoReplay,       \* no TrafficReplay of that name
    NoBeat          \* no heartbeat request on its way

VARIABLES
    proc,           \* [Spokes -> {"down", "joined", "standalone"}]
    terminating,    \* spokes whose previous process has not exited yet
    tr,             \* the TrafficReplay of each load test and shard
    beat,           \* a heartbeat request that the hub has not served yet
    done            \* history: the <<test, run, shard>> that ran to completion

spokeVars == <<proc, terminating, tr, beat, done>>

-----------------------------------------------------------------------------
(***************************************************************************)
(* A TrafficReplay.  Its age is "new" when created, "listed" once the hub  *)
(* has published its load-test list again, "old" once it is older than the *)
(* collector's MinAge.  "New" stands for no phase yet.                     *)
(***************************************************************************)
TrafficReplay == [phase : ReplayPhases, result : Results \cup {NoResult},
                  finalizer : BOOLEAN, deleting : BOOLEAN,
                  age : {"new", "listed", "old"}, run : Nat]

ASSUME NoReplayAssumption == NoReplay \notin TrafficReplay

Replays == [LoadTests -> [Shards -> TrafficReplay \cup {NoReplay}]]

SpokeTypeOK ==
    /\ proc \in [Spokes -> {"down", "joined", "standalone"}]
    /\ terminating \subseteq Spokes
    /\ tr \in [Spokes -> Replays]
    /\ beat \in [Spokes -> Summaries \cup {NoBeat}]
    /\ done \subseteq LoadTests \X Nat \X Shards

SpokeInit ==
    /\ proc = [s \in Spokes |-> "down"]
    /\ terminating = {}
    /\ tr = [s \in Spokes |-> [k \in LoadTests |-> [i \in Shards |-> NoReplay]]]
    /\ beat = [s \in Spokes |-> NoBeat]
    /\ done = {}

-----------------------------------------------------------------------------
(***************************************************************************)
(* The process registers once, when it starts.  If that fails it runs      *)
(* without a hub until it is restarted; nothing registers it again later.  *)
(***************************************************************************)
SpokeStart(s) ==
    /\ proc[s] = "down"
    /\ RegisterSpoke(s)
    /\ proc' = [proc EXCEPT ![s] = "joined"]
    /\ UNCHANGED <<terminating, tr, beat, done>>

SpokeStartStandalone(s) ==
    /\ proc[s] = "down"
    /\ proc' = [proc EXCEPT ![s] = "standalone"]
    /\ UNCHANGED <<terminating, tr, beat, done, hubVars>>

SpokeCrash(s) ==
    /\ proc[s] # "down"
    /\ proc' = [proc EXCEPT ![s] = "down"]
    /\ UNCHANGED <<terminating, tr, beat, done, hubVars>>

\* Graceful exit: deregister if the hub answers, and stop either way.
SpokeExit(s) ==
    /\ proc[s] # "down"
    /\ IF proc[s] = "joined" /\ s \in registered THEN DeregisterSpoke(s) ELSE UNCHANGED hubVars
    /\ proc' = [proc EXCEPT ![s] = "down"]
    /\ UNCHANGED <<terminating, tr, beat, done>>

\* A rolling update: the next process registers while this one still runs.
RollOut(s) ==
    /\ proc[s] = "joined"
    /\ s \notin terminating
    /\ RegisterSpoke(s)
    /\ terminating' = terminating \cup {s}
    /\ UNCHANGED <<proc, tr, beat, done>>

PreviousExits(s) ==
    /\ s \in terminating
    /\ IF s \in registered THEN DeregisterSpoke(s) ELSE UNCHANGED hubVars
    /\ terminating' = terminating \ {s}
    /\ UNCHANGED <<proc, tr, beat, done>>

-----------------------------------------------------------------------------
(***************************************************************************)
(* Directives.  Deleting a TrafficReplay that has the finalizer only marks *)
(* it; the reconciler removes the Job and then the finalizer.              *)
(***************************************************************************)
Delete(t) ==
    IF t = NoReplay \/ ~t.finalizer THEN NoReplay ELSE [t EXCEPT !.deleting = TRUE]

NewReplay(run) == [phase |-> "New", result |-> NoResult, finalizer |-> FALSE,
                   deleting |-> FALSE, age |-> "new", run |-> run]

\* handleStart leaves an existing TrafficReplay alone, one being deleted included.
handleStart(ts, d) ==
    IF ts[d.test][d.shard] = NoReplay
    THEN [ts EXCEPT ![d.test][d.shard] = NewReplay(d.run)] ELSE ts

handleStop(ts, d) ==
    [ts EXCEPT ![d.test] = [i \in Shards |-> Delete(ts[d.test][i])]]

ReceiveDirective(s) ==
    /\ proc[s] = "joined"
    /\ WatchDirectives(s)
    /\ LET d == Head(directives[s])
       IN  tr' = [tr EXCEPT ![s] = IF d.action = "START" THEN handleStart(@, d)
                                                         ELSE handleStop(@, d)]
    /\ UNCHANGED <<proc, terminating, beat, done>>

(***************************************************************************)
(* A directive that is taken off the channel and never applied: the stream *)
(* breaks while it is sent, it is sent to a process that is gone, or the   *)
(* handler fails, which is only logged.                                    *)
(***************************************************************************)
LoseDirective(s) ==
    /\ WatchDirectives(s)
    /\ UNCHANGED spokeVars

-----------------------------------------------------------------------------
(***************************************************************************)
(* The TrafficReplay reconciler.  A pass adds the finalizer, creates the   *)
(* Job or reads the phase off it, writes that phase and then reports it to *)
(* the hub; a terminal TrafficReplay is left alone.                        *)
(***************************************************************************)
SummaryOf(t) ==
    IF t = NoReplay THEN NoSummary
    ELSE [phase |-> t.phase, result |-> t.result, run |-> t.run]

Runnable(s, k, i) ==
    /\ proc[s] # "down"
    /\ tr[s][k][i] # NoReplay
    /\ ~tr[s][k][i].deleting
    /\ tr[s][k][i].phase \notin TerminalReplay

\* The report is best-effort: with no hub connection or entry it goes nowhere.
Reports(s, k, i, t) ==
    IF proc[s] = "joined" /\ s \in registered
    THEN ReportReplayStatus(s, k, i, SummaryOf(t))
    ELSE UNCHANGED hubVars

\* The Job is created (also again, if it went missing), waits for a pod, or runs.
Progressed(t) ==
    {[t EXCEPT !.finalizer = TRUE, !.phase = phase] :
        phase \in IF t.finalizer THEN {"Pending", "Running"} ELSE {"Pending"}}

\* The Job succeeded or failed, with a run report or without one; or, before
\* there was a Job, the target was denied or the spec refused.
Finished(t) ==
    IF t.finalizer
    THEN {[t EXCEPT !.phase = outcome[1], !.result = outcome[2]] :
             outcome \in TerminalReplay \X (Results \cup {NoResult})}
    ELSE {[t EXCEPT !.finalizer = TRUE, !.phase = "Failed"]}

WritePhase(s, k, i, t) ==
    /\ tr' = [tr EXCEPT ![s][k][i] = t]
    /\ done' = IF t.phase = "Completed" THEN done \cup {<<k, t.run, i>>} ELSE done
    /\ UNCHANGED <<proc, terminating, beat>>

\* The pass fails after it added the finalizer, perhaps after creating the Job.
ReplayFails(s, k, i) ==
    /\ Runnable(s, k, i)
    /\ ~tr[s][k][i].finalizer
    /\ tr' = [tr EXCEPT ![s][k][i].finalizer = TRUE]
    /\ UNCHANGED <<proc, terminating, beat, done, hubVars>>

ReplayDelete(s, k, i) ==
    /\ proc[s] # "down"
    /\ tr[s][k][i] # NoReplay
    /\ tr[s][k][i].deleting
    /\ tr' = [tr EXCEPT ![s][k][i] = NoReplay]
    /\ UNCHANGED <<proc, terminating, beat, done, hubVars>>

-----------------------------------------------------------------------------
(***************************************************************************)
(* Heartbeats carry the status of every TrafficReplay of a load test; the  *)
(* response's list, if complete, drives the orphan collector.              *)
(***************************************************************************)
ReplaySummaries(s) ==
    [k \in LoadTests |-> [i \in Shards |-> SummaryOf(tr[s][k][i])]]

CollectAnyAge(ts) ==        \* mutant: no MinAge
    [k \in LoadTests |-> [i \in Shards |->
        IF ts[k][i] # NoReplay /\ k \notin active.tests
        THEN Delete(ts[k][i]) ELSE ts[k][i]]]

Collect(ts) ==
    [k \in LoadTests |-> [i \in Shards |->
        IF /\ ts[k][i] # NoReplay
           /\ k \notin active.tests
           /\ ts[k][i].age = "old"
        THEN Delete(ts[k][i]) ELSE ts[k][i]]]

OnListedResponse(s) ==      \* mutant: an empty list is taken for no list
    tr' = IF proc[s] = "joined" /\ active.complete /\ active.tests # {}
          THEN [tr EXCEPT ![s] = Collect(@)] ELSE tr

OnHeartbeatResponse(s) ==
    tr' = IF proc[s] = "joined" /\ active.complete
          THEN [tr EXCEPT ![s] = Collect(@)] ELSE tr

SendHeartbeat(s) ==
    /\ proc[s] = "joined"
    /\ beat[s] = NoBeat
    /\ Heartbeat(s, ReplaySummaries(s))
    /\ OnHeartbeatResponse(s)
    /\ UNCHANGED <<proc, terminating, beat, done>>

\* The request is put together now and served (or lost) after other steps.
DelayHeartbeat(s) ==
    /\ proc[s] = "joined"
    /\ beat[s] = NoBeat
    /\ beat' = [beat EXCEPT ![s] = ReplaySummaries(s)]
    /\ UNCHANGED <<proc, terminating, tr, done, hubVars>>

ServeDelayed(s) ==
    /\ beat[s] # NoBeat
    /\ Heartbeat(s, beat[s])
    /\ OnHeartbeatResponse(s)
    /\ beat' = [beat EXCEPT ![s] = NoBeat]
    /\ UNCHANGED <<proc, terminating, done>>

LoseDelayed(s) ==
    /\ beat[s] # NoBeat
    /\ beat' = [beat EXCEPT ![s] = NoBeat]
    /\ UNCHANGED <<proc, terminating, tr, done, hubVars>>

(***************************************************************************)
(* Time passes for TrafficReplays.                                         *)
(***************************************************************************)
\* After the hub publishes its list.
Listed(ts) ==
    [k \in LoadTests |-> [i \in Shards |->
        IF ts[k][i] # NoReplay /\ ts[k][i].age = "new"
        THEN [ts[k][i] EXCEPT !.age = "listed"] ELSE ts[k][i]]]

Age(s, k, i, from) ==
    /\ tr[s][k][i] # NoReplay
    /\ tr[s][k][i].age = from
    /\ tr' = [tr EXCEPT ![s][k][i].age = "old"]
    /\ UNCHANGED <<proc, terminating, beat, done, hubVars>>
=============================================================================
