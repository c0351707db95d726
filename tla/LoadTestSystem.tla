---------------------------- MODULE LoadTestSystem ----------------------------
(***************************************************************************)
(* Hub and spokes together: the load-test reconciler and the CaptureHub    *)
(* reconciler in the hub process, the gRPC server between them, the spoke  *)
(* processes, and the environment: users who create and delete load tests, *)
(* processes that crash and restart, calls that are lost or late.          *)
(***************************************************************************)
EXTENDS LoadTestController, Spoke

CONSTANTS
    Events,         \* the environment's events that may happen (see Optional, Faults)
    MaxRuns,        \* bound: how often a name may be created
    MaxFaults       \* bound: how many faults may happen

(***************************************************************************)
(* What the environment may do as often as it likes, and what counts       *)
(* against MaxFaults.                                                      *)
(***************************************************************************)
Optional == {"DeleteTest", "MaxDuration", "StaleSpoke", "DelayHeartbeat", "Aging", "LateList"}
Faults == {"HubRestart", "Reconfigure", "SpokeCrash", "SpokeExit", "RollOut",
           "LoseDirective", "LoseReport", "UpdateFails", "ListFails", "RegisterFails",
           "ReplayFails"}

ASSUME EventsAssumption == Events \subseteq Optional \cup Faults
ASSUME BoundsAssumption == MaxRuns \in Nat /\ MaxFaults \in Nat

VARIABLES
    runs,           \* how often each name was created
    faults          \* how many faults happened

envVars == <<runs, faults>>
vars == <<hubVars, ctlVars, spokeVars, envVars>>

TypeOK ==
    /\ HubTypeOK
    /\ CtlTypeOK
    /\ SpokeTypeOK
    /\ runs \in [LoadTests -> Nat]
    /\ faults \in Nat

Init ==
    /\ HubInit
    /\ CtlInit
    /\ SpokeInit
    /\ runs = [k \in LoadTests |-> 0]
    /\ faults = 0

Fault(e) ==
    /\ e \in Events
    /\ faults < MaxFaults
    /\ faults' = faults + 1
    /\ UNCHANGED runs

-----------------------------------------------------------------------------
(***************************************************************************)
(* Users.                                                                  *)
(***************************************************************************)
CreateTest(k) ==
    /\ cr[k] = Absent
    /\ runs[k] < MaxRuns
    /\ Store(k, [run |-> runs[k] + 1, deleting |-> FALSE, finalizer |-> FALSE,
                 phase |-> "", plan |-> NoPlan, aborting |-> FALSE])
    /\ runs' = [runs EXCEPT ![k] = @ + 1]
    /\ UNCHANGED <<rec, faults, hubVars, spokeVars>>

DeleteTest(k) ==
    /\ "DeleteTest" \in Events
    /\ cr[k] # Absent
    /\ ~cr[k].deleting
    /\ Store(k, IF cr[k].finalizer THEN [cr[k] EXCEPT !.deleting = TRUE] ELSE Absent)
    /\ UNCHANGED <<rec, envVars, hubVars, spokeVars>>

-----------------------------------------------------------------------------
(***************************************************************************)
(* The CaptureHub reconciler (internal/hub/controller.go): start the       *)
(* server if there is none and publish the load-test list, every 30        *)
(* seconds.  A failed list clears what was published.                      *)
(***************************************************************************)
CaptureHubReconcile ==
    /\ NewServer
    /\ SetActiveLoadTests({k \in LoadTests : cache[k] # Absent}, TRUE)
    /\ tr' = IF "Aging" \in Events THEN [s \in Spokes |-> Listed(tr[s])] ELSE tr
    /\ UNCHANGED <<registered, fresh, directives, replays>>
    /\ UNCHANGED <<proc, terminating, beat, done, ctlVars, envVars>>

ListFails ==
    /\ Fault("ListFails")
    /\ NewServer
    /\ SetActiveLoadTests({}, FALSE)
    /\ UNCHANGED <<registered, fresh, directives, replays, ctlVars, spokeVars>>

\* The hub process restarts: registry and pass are gone, the cache is read afresh.
HubRestart ==
    /\ Fault("HubRestart")
    /\ StopServer
    /\ rec' = Idle
    /\ cache' = cr
    /\ UNCHANGED <<cr, expired, spokeVars>>

\* The server is replaced (address or TLS mode changed) or its CR deleted.
Reconfigure ==
    /\ Fault("Reconfigure")
    /\ server
    /\ StopServer
    /\ rec' = IF rec = Idle THEN Idle ELSE [rec EXCEPT !.live = FALSE]
    /\ UNCHANGED <<cr, cache, expired, spokeVars>>

-----------------------------------------------------------------------------
Hub ==
    \/ Reconcile /\ UNCHANGED <<spokeVars, envVars>>
    \/ \E k \in LoadTests :
          \/ CacheSync(k) /\ UNCHANGED <<hubVars, spokeVars, envVars>>
          \/ /\ "MaxDuration" \in Events
             /\ MaxDurationExceeded(k)
             /\ UNCHANGED <<hubVars, spokeVars, envVars>>
          \/ Fault("UpdateFails") /\ ReconcileFinalizer(k) /\ UNCHANGED spokeVars
    \/ Fault("UpdateFails") /\ UpdateFails /\ UNCHANGED spokeVars
    \/ CaptureHubReconcile
    \/ ListFails
    \/ HubRestart
    \/ Reconfigure

\* A step of the TrafficReplay reconciler, its report delivered or lost.
ReplayStep(s, k, i, t) ==
    /\ Runnable(s, k, i)
    /\ WritePhase(s, k, i, t)
    /\ \/ Reports(s, k, i, t) /\ UNCHANGED envVars
       \/ Fault("LoseReport") /\ UNCHANGED hubVars
    /\ UNCHANGED ctlVars

ReplayProgress(s, k, i) ==
    /\ tr[s][k][i] # NoReplay
    /\ \E t \in Progressed(tr[s][k][i]) : ReplayStep(s, k, i, t)

ReplayFinish(s, k, i) ==
    /\ tr[s][k][i] # NoReplay
    /\ \E t \in Finished(tr[s][k][i]) : ReplayStep(s, k, i, t)

SpokeProcess(s) ==
    \/ SpokeStart(s) /\ UNCHANGED envVars
    \/ SpokeStartStandalone(s) /\ ~server /\ UNCHANGED envVars
    \/ SpokeStartStandalone(s) /\ Fault("RegisterFails")
    \/ SpokeCrash(s) /\ Fault("SpokeCrash")
    \/ SpokeExit(s) /\ Fault("SpokeExit")
    \/ RollOut(s) /\ Fault("RollOut")
    \/ PreviousExits(s) /\ UNCHANGED envVars

SpokeMessages(s) ==
    \/ ReceiveDirective(s) /\ UNCHANGED envVars
    \/ LoseDirective(s) /\ Fault("LoseDirective")
    \/ SendHeartbeat(s) /\ UNCHANGED envVars
    \/ DelayHeartbeat(s) /\ "DelayHeartbeat" \in Events /\ UNCHANGED envVars
    \/ ServeDelayed(s) /\ UNCHANGED envVars
    \/ LoseDelayed(s) /\ UNCHANGED envVars
    \/ "StaleSpoke" \in Events /\ HeartbeatExpires(s) /\ UNCHANGED <<spokeVars, envVars>>

(***************************************************************************)
(* The hub publishes every 30 seconds and MinAge is two minutes, so unless *)
(* publication is late a TrafficReplay is listed before it is old.         *)
(***************************************************************************)
AgesFrom == {"listed"} \cup {age \in {"new"} : "LateList" \in Events}

ReplayResource(s, k, i) ==
    \/ ReplayDelete(s, k, i)
    \/ "Aging" \in Events /\ \E age \in AgesFrom : Age(s, k, i, age)

Next ==
    \/ \E k \in LoadTests : CreateTest(k) \/ DeleteTest(k)
    \/ Hub
    \/ \E s \in Spokes :
          \/ SpokeProcess(s) /\ UNCHANGED ctlVars
          \/ SpokeMessages(s) /\ UNCHANGED ctlVars
          \/ \E k \in LoadTests, i \in Shards :
                \/ ReplayProgress(s, k, i)
                \/ ReplayFinish(s, k, i)
                \/ ReplayResource(s, k, i) /\ UNCHANGED <<ctlVars, envVars>>
                \/ Fault("ReplayFails") /\ ReplayFails(s, k, i) /\ UNCHANGED ctlVars

Spec == Init /\ [][Next]_vars

(***************************************************************************)
(* Fairness.  The work queue gives every load test its turn and a pass     *)
(* runs to its end; the CaptureHub reconciler, the heartbeat ticker, the   *)
(* directive loop and the TrafficReplay reconciler of a running spoke keep *)
(* running; a Job ends (its capture is finite and BackoffLimit bounds the  *)
(* retries).  A stopped spoke process need not come back unless            *)
(* SpokesRestart is assumed, as a Deployment provides.                     *)
(***************************************************************************)
BeginPass(k) ==
    /\ \/ ReconcileDenied(k)
       \/ ReconcilePending(k)
       \/ ReconcilePlan(k)
       \/ ReconcileResume(k)
       \/ ReconcileDelete(k)
       \/ ReconcileDeleteNoServer(k)
    /\ UNCHANGED <<spokeVars, envVars>>

ContinuePass ==
    /\ \/ SendStart
       \/ UpdateStatus
       \/ BeginAbort
       \/ SendStop
       \/ FinishAbort
       \/ FinishDelete
    /\ UNCHANGED <<spokeVars, envVars>>

HubFairness ==
    /\ \A k \in LoadTests : SF_vars(BeginPass(k))
    /\ WF_vars(ContinuePass)
    /\ WF_vars(CaptureHubReconcile)

SpokeFairness ==
    \A s \in Spokes :
        /\ WF_vars(ReceiveDirective(s) /\ UNCHANGED <<ctlVars, envVars>>)
        /\ WF_vars(SendHeartbeat(s) /\ UNCHANGED <<ctlVars, envVars>>)
        /\ WF_vars(PreviousExits(s) /\ UNCHANGED <<ctlVars, envVars>>)
        /\ \A k \in LoadTests, i \in Shards :
              /\ WF_vars(ReplayFinish(s, k, i))
              /\ WF_vars(ReplayResource(s, k, i) /\ UNCHANGED <<ctlVars, envVars>>)

SpokesRestart ==
    \A s \in Spokes : WF_vars(SpokeStart(s) /\ UNCHANGED <<ctlVars, envVars>>)

FairSpec == Spec /\ HubFairness /\ SpokeFairness
RestartSpec == FairSpec /\ SpokesRestart

-----------------------------------------------------------------------------
(***************************************************************************)
(* Safety.                                                                 *)
(***************************************************************************)
\* The CaptureLoadTest of that run exists and was not aborted.
Live(k, run) ==
    /\ cr[k] # Absent
    /\ cr[k].run = run
    /\ cr[k].phase # "Aborted"

(***************************************************************************)
(* A shard of the current run exists only on the spoke that                *)
(* status.assignments names for it, so no part of the capture is replayed  *)
(* by two spokes of one run: the plan is stored before the first START is  *)
(* queued, and is never made again (Reconcile, "Plan the distribution      *)
(* once").                                                                 *)
(***************************************************************************)
ShardsRunWhereAssigned ==
    \A s \in Spokes, k \in LoadTests, i \in Shards :
        (tr[s][k][i] # NoReplay /\ cr[k] # Absent /\ tr[s][k][i].run = cr[k].run) =>
            i \in DOMAIN cr[k].plan /\ cr[k].plan[i] = s

(***************************************************************************)
(* A START queued for a run that is over (aborted, or its CaptureLoadTest  *)
(* gone) is followed by a STOP in the same channel, so a spoke that drains *)
(* its channel is never left with a shard it was told to start last.  This *)
(* is why a pass sends START before STOP and why Aborted and the finalizer *)
(* wait until every STOP was accepted (Reconcile, stopAllShards).          *)
(***************************************************************************)
StopFollowsStart ==
    \A s \in Spokes : \A n \in DOMAIN directives[s] :
        LET d == directives[s][n]
        IN  (d.action = "START" /\ ~Live(d.test, d.run)) =>
                \E m \in DOMAIN directives[s] :
                    m > n /\ directives[s][m] = [action |-> "STOP", test |-> d.test]

(***************************************************************************)
(* A test whose target spec.safety denies never gets as far as a START or  *)
(* a shard, whatever the order of passes, restarts and deletions: the gate *)
(* fails it "terminally before any shard exists" (Reconcile).              *)
(***************************************************************************)
DeniedTargetsNeverReplayed ==
    \A s \in Spokes, k \in Denied :
        /\ \A i \in Shards : tr[s][k][i] = NoReplay
        /\ \A n \in DOMAIN directives[s] :
              directives[s][n].action = "START" => directives[s][n].test # k

(***************************************************************************)
(* A run that ended as Completed did complete: each of its shards ran to   *)
(* completion.  aggregate counts statuses by the test's name, so this      *)
(* rests on where they come from: reports and heartbeats, also late ones,  *)
(* of shards that sit where the plan put them.  The one exception is a     *)
(* name that was used before: what a shard of an earlier run completed may *)
(* be counted for the present one.                                         *)
(***************************************************************************)
CompletedMeansDone ==
    \A k \in LoadTests :
        (cr[k] # Absent /\ cr[k].phase = "Completed") =>
            \/ \A i \in DOMAIN cr[k].plan : <<k, cr[k].run, i>> \in done
            \/ \E run \in 1 .. cr[k].run - 1, i \in Shards : <<k, run, i>> \in done

(***************************************************************************)
(* The same of the shards themselves: once a run is over, a shard of it    *)
(* that still exists is being deleted or has a STOP coming (the purpose of *)
(* stopAllShards).                                                         *)
(***************************************************************************)
OverMeansStopping ==
    \A s \in Spokes, k \in LoadTests, i \in Shards :
        (tr[s][k][i] # NoReplay /\ ~tr[s][k][i].deleting /\ ~Live(k, tr[s][k][i].run)) =>
            \E n \in DOMAIN directives[s] :
                directives[s][n] = [action |-> "STOP", test |-> k]

\* The events after which a directive the hub accepted does not reach its spoke.
LossEvents == {"HubRestart", "Reconfigure", "SpokeCrash", "SpokeExit", "RollOut",
               "LoseDirective"}

(***************************************************************************)
(* While nothing in LossEvents happens, no shard outlives its run without  *)
(* a STOP on its way.                                                      *)
(***************************************************************************)
NoOrphansWithoutLoss == Events \cap LossEvents = {} => OverMeansStopping

(***************************************************************************)
(* A heartbeat never makes the orphan collector delete a shard of the run  *)
(* that is going on.  The list a response carries may be older than that   *)
(* run; Collect spares what is younger than MinAge, by which time the list *)
(* has been published again.  (Only a directive may delete such a shard.)  *)
(***************************************************************************)
CollectorSparesLiveRuns ==
    [][\A s \in Spokes, k \in LoadTests, i \in Shards :
          (/\ tr[s][k][i] # NoReplay
           /\ ~tr[s][k][i].deleting
           /\ cr[k] # Absent
           /\ cr[k].run = tr[s][k][i].run
           /\ directives' = directives) =>
              tr'[s][k][i] # NoReplay /\ ~tr'[s][k][i].deleting]_vars

-----------------------------------------------------------------------------
(***************************************************************************)
(* Liveness.                                                               *)
(***************************************************************************)
Over(k) == cr[k] = Absent \/ cr[k].phase \in TerminalPhases

\* A test that was planned ends, unless it is deleted first: lost directives
\* are sent again, lost reports are made up for by heartbeats.  (A planned test
\* stays planned until it is over, so this is "planned leads to over".)
RunEnds ==
    \A k \in LoadTests : []<>(cr[k] # Absent /\ Planned(cr[k]) => Over(k))

\* A deleted test goes: its finalizer is not held forever.
DeletionEnds ==
    \A k \in LoadTests : []<>(cr[k] = Absent \/ ~cr[k].deleting)

\* Shards whose load test is gone go too, by a STOP or by the orphan collector.
OrphansCollected ==
    \A s \in Spokes, k \in LoadTests, i \in Shards :
        []<>(cr[k] = Absent => tr[s][k][i] = NoReplay)

=============================================================================
