-------------------------- MODULE LoadTestController --------------------------
(***************************************************************************)
(* The CaptureLoadTest reconciler (internal/hub/loadtest_controller.go):   *)
(* it plans a load test once, sends START directives for the shards that   *)
(* have not reported, rolls the reported statuses up into the phase, stops *)
(* the shards of a run that breaks its abort policy, and holds a finalizer *)
(* until the STOP directives of a deleted test were accepted.              *)
(*                                                                         *)
(* One worker reconciles all tests.  A pass reads the CaptureLoadTest from *)
(* the informer cache and the registry once, then sends directives one by  *)
(* one while spokes act, and writes the status last.  A write succeeds     *)
(* only if the stored object is still the one that was read (the API       *)
(* server's resourceVersion check).                                        *)
(***************************************************************************)
EXTENDS HubServer, FiniteSetsExt

CONSTANTS
    Workers,        \* spec.distribution.workersPerSpoke
    TestCells,      \* spec.distribution.cells: [LoadTests -> sets of cells]
    MaxSpokes,      \* spec.distribution.maxSpokes, 0 if unset
    Denied,         \* the tests whose target spec.safety denies
    ErrorPercent,   \* spec.abort.errorPercent (100 never aborts)
    MinSample,      \* spec.abort.minSampleRequests
    CacheLag,       \* whether the informer cache may lag behind the API server
    Absent,         \* no such CaptureLoadTest
    Idle            \* no pass in progress

ASSUME WorkersAssumption == Workers \in Nat \ {0}
ASSUME SpokesAssumption == IsFiniteSet(Spokes)
ASSUME ShardCountAssumption == Shards = 0 .. Cardinality(Spokes) * Workers - 1
ASSUME PolicyAssumption ==
    /\ ErrorPercent \in Nat
    /\ MinSample \in Nat
    /\ MaxSpokes \in Nat
    /\ CacheLag \in BOOLEAN
    /\ Denied \subseteq LoadTests

VARIABLES
    cr,             \* the stored CaptureLoadTest of each name, or Absent
    cache,          \* the informer cache's copy of cr
    expired,        \* the tests whose run is older than spec.abort.maxDuration
    rec             \* the pass in progress, or Idle

ctlVars == <<cr, cache, expired, rec>>

-----------------------------------------------------------------------------
TerminalPhases == {"Completed", "Failed", "Aborted"}
LivePhases == {"Distributing", "Running"}
Phases == {"", "Pending"} \cup LivePhases \cup TerminalPhases

\* status.assignments: the spoke each shard index is assigned to.
NoPlan == [i \in {} |-> Idle]
Assignments == UNION {[D -> Spokes] : D \in SUBSET Shards}

\* "aborting" is the condition Aborted=False with reason AbortInProgress.
LoadTest == [run : Nat, deleting : BOOLEAN, finalizer : BOOLEAN,
             phase : Phases, plan : Assignments, aborting : BOOLEAN]

Planned(lt) == DOMAIN lt.plan # {}

(***************************************************************************)
(* A pass: the object as last read or written, the server it got hold of,  *)
(* whether it sends START or STOP directives and to whom is still to come, *)
(* the phase and abort verdict that the statuses it read amount to, and    *)
(* stopAllShards' allDelivered.                                            *)
(***************************************************************************)
StartPass == [pc : {"start"}, test : LoadTests, lt : LoadTest, live : BOOLEAN,
              todo : SUBSET Shards, phase : Phases, errors : BOOLEAN]
StopPass == [pc : {"abort", "delete"}, test : LoadTests, lt : LoadTest, live : BOOLEAN,
             todo : SUBSET Spokes, phase : Phases, delivered : BOOLEAN]

CtlTypeOK ==
    /\ cr \in [LoadTests -> LoadTest \cup {Absent}]
    /\ cache \in [LoadTests -> LoadTest \cup {Absent}]
    /\ expired \subseteq LoadTests
    /\ rec \in StartPass \cup StopPass \cup {Idle}

ASSUME AbsentAssumption == Absent \notin LoadTest
ASSUME IdleAssumption == Idle \notin StartPass \cup StopPass

CtlInit ==
    /\ cr = [k \in LoadTests |-> Absent]
    /\ cache = cr
    /\ expired = {}
    /\ rec = Idle

-----------------------------------------------------------------------------
(***************************************************************************)
(* The API server.  Without lag the cache shows every write at once.       *)
(***************************************************************************)
Store(k, lt) ==
    /\ cr' = [cr EXCEPT ![k] = lt]
    /\ cache' = IF CacheLag THEN cache ELSE [cache EXCEPT ![k] = lt]
    /\ expired' = IF lt = Absent THEN expired \ {k} ELSE expired

UpdateUnchecked(k, read, lt) == Store(k, lt)    \* mutant: the last write wins

\* Update: refused with a conflict if the object changed since it was read.
Update(k, read, lt) ==
    IF cr[k] = read THEN Store(k, lt) ELSE UNCHANGED <<cr, cache, expired>>

CacheSync(k) ==
    /\ cache[k] # cr[k]
    /\ cache' = [cache EXCEPT ![k] = cr[k]]
    /\ UNCHANGED <<cr, expired, rec>>

\* time.Since(status.startTime) > spec.abort.maxDuration; startTime is set by the plan.
MaxDurationExceeded(k) ==
    /\ cr[k] # Absent
    /\ Planned(cr[k])
    /\ k \notin expired
    /\ expired' = expired \cup {k}
    /\ UNCHANGED <<cr, cache, rec>>

-----------------------------------------------------------------------------
(***************************************************************************)
(* planDistribution: the selected spokes in ID order, Workers consecutive  *)
(* shard indexes each.  Exactly one function satisfies this.               *)
(***************************************************************************)
planDistribution(selected) ==
    {p \in [0 .. Cardinality(selected) * Workers - 1 -> selected] :
        \A i, j \in DOMAIN p :
            Rank[p[i]] < Rank[p[j]] <=> i \div Workers < j \div Workers}

ShardsIn(k, phase) ==
    Cardinality({p \in ReplayStatuses(k) : replays[p[1]][k][p[2]].phase = phase})

aggregateStarted(k, lt) ==      \* mutant: a running shard counts as completed
    LET completed == ShardsIn(k, "Completed") + ShardsIn(k, "Running")
        failed == ShardsIn(k, "Failed")
        totalShards == Cardinality(DOMAIN lt.plan)
    IN  IF totalShards > 0 /\ completed = totalShards THEN "Completed"
        ELSE IF totalShards > 0 /\ completed + failed = totalShards THEN "Failed"
        ELSE IF completed + failed > 0 THEN "Running"
        ELSE lt.phase

aggregateFirst(k, lt) ==        \* mutant: one completed shard completes the test
    LET completed == ShardsIn(k, "Completed")
        failed == ShardsIn(k, "Failed")
        totalShards == Cardinality(DOMAIN lt.plan)
    IN  IF totalShards > 0 /\ completed > 0 THEN "Completed"
        ELSE IF totalShards > 0 /\ completed + failed = totalShards THEN "Failed"
        ELSE IF ShardsIn(k, "Running") + completed + failed > 0 THEN "Running"
        ELSE lt.phase

\* aggregate: statuses are counted by load-test name, wherever they come from.
aggregate(k, lt) ==
    LET completed == ShardsIn(k, "Completed")
        failed == ShardsIn(k, "Failed")
        totalShards == Cardinality(DOMAIN lt.plan)
    IN  IF totalShards > 0 /\ completed = totalShards THEN "Completed"
        ELSE IF totalShards > 0 /\ completed + failed = totalShards THEN "Failed"
        ELSE IF ShardsIn(k, "Running") + completed + failed > 0 THEN "Running"
        ELSE lt.phase

\* The error-rate half of shouldAbort, over the request counts of all statuses.
errorRateExceeded(k) ==
    LET result(p) == replays[p[1]][k][p[2]].result
        failed == MapThenSumSet(LAMBDA p : result(p).failed, ReplayStatuses(k))
        attempted == failed + MapThenSumSet(LAMBDA p : result(p).sent, ReplayStatuses(k))
    IN  attempted >= MinSample /\ failed * 100 > ErrorPercent * attempted

shouldAbort ==
    /\ rec.phase \in LivePhases
    /\ rec.test \in expired \/ rec.errors

reported(k) == {i \in Shards : \E s \in Spokes : replays[s][k][i] # NoSummary}

First(S) == CHOOSE i \in S : \A j \in S : i <= j
FirstSpoke(S) == CHOOSE s \in S : \A t \in S : Rank[s] <= Rank[t]
AssignedSpokes(lt) == {lt.plan[i] : i \in DOMAIN lt.plan}

-----------------------------------------------------------------------------
(***************************************************************************)
(* The beginning of a pass over a test that is not being deleted.  The     *)
(* finalizer is in place before anything else is written.                  *)
(***************************************************************************)
Begin(k) ==
    /\ rec = Idle
    /\ cache[k] # Absent
    /\ ~cache[k].deleting
    /\ cache[k].phase \notin TerminalPhases

\* The pass adds the finalizer and ends there, its next write having failed.
ReconcileFinalizer(k) ==
    /\ Begin(k)
    /\ ~cache[k].finalizer
    /\ cr[k] = cache[k]
    /\ Store(k, [cache[k] EXCEPT !.finalizer = TRUE])
    /\ UNCHANGED <<rec, hubVars>>

ReconcileDenied(k) ==
    /\ Begin(k)
    /\ k \in Denied
    /\ Update(k, cache[k], [cache[k] EXCEPT !.finalizer = TRUE, !.phase = "Failed"])
    /\ UNCHANGED <<rec, hubVars>>

\* No server yet, or no spoke to run on: Pending, whatever the phase was.
ReconcilePending(k) ==
    /\ Begin(k)
    /\ k \notin Denied
    /\ \/ ~server
       \/ ~Planned(cache[k]) /\ SelectSpokes(TestCells[k], MaxSpokes) = {}
    /\ Update(k, cache[k], [cache[k] EXCEPT !.finalizer = TRUE, !.phase = "Pending"])
    /\ UNCHANGED <<rec, hubVars>>

\* What the pass goes on with: the statuses are read here, once.
StartShards(k, lt) ==
    rec' = [pc |-> "start", test |-> k, lt |-> lt, live |-> TRUE,
            todo |-> DOMAIN lt.plan \ reported(k),
            phase |-> aggregate(k, lt), errors |-> errorRateExceeded(k)]

ReconcilePlanAgain(k) ==        \* mutant: every pass plans
    /\ Begin(k)
    /\ k \notin Denied
    /\ server
    /\ SelectSpokes(TestCells[k], MaxSpokes) # {}
    /\ cr[k] = cache[k]
    /\ \E p \in planDistribution(SelectSpokes(TestCells[k], MaxSpokes)) :
          LET lt == [cache[k] EXCEPT !.finalizer = TRUE, !.phase = "Distributing", !.plan = p]
          IN  Store(k, lt) /\ StartShards(k, lt)
    /\ UNCHANGED hubVars

ReconcilePlanUngated(k) ==      \* mutant: no look at spec.safety
    /\ Begin(k)
    /\ server
    /\ ~Planned(cache[k])
    /\ SelectSpokes(TestCells[k], MaxSpokes) # {}
    /\ cr[k] = cache[k]
    /\ \E p \in planDistribution(SelectSpokes(TestCells[k], MaxSpokes)) :
          LET lt == [cache[k] EXCEPT !.finalizer = TRUE, !.phase = "Distributing", !.plan = p]
          IN  Store(k, lt) /\ StartShards(k, lt)
    /\ UNCHANGED hubVars

\* The plan is stored before the first START; a conflict ends the pass.
ReconcilePlan(k) ==
    /\ Begin(k)
    /\ k \notin Denied
    /\ server
    /\ ~Planned(cache[k])
    /\ SelectSpokes(TestCells[k], MaxSpokes) # {}
    /\ cr[k] = cache[k]
    /\ \E p \in planDistribution(SelectSpokes(TestCells[k], MaxSpokes)) :
          LET lt == [cache[k] EXCEPT !.finalizer = TRUE, !.phase = "Distributing", !.plan = p]
          IN  Store(k, lt) /\ StartShards(k, lt)
    /\ UNCHANGED hubVars

ReconcileResumeSilently(k) ==   \* mutant: START is sent once, when planned
    /\ Begin(k)
    /\ k \notin Denied
    /\ server
    /\ Planned(cache[k])
    /\ rec' = [pc |-> "start", test |-> k, lt |-> cache[k], live |-> TRUE, todo |-> {},
               phase |-> aggregate(k, cache[k]), errors |-> errorRateExceeded(k)]
    /\ UNCHANGED <<cr, cache, expired, hubVars>>

ReconcileResume(k) ==
    /\ Begin(k)
    /\ k \notin Denied
    /\ server
    /\ Planned(cache[k])
    /\ StartShards(k, cache[k])
    /\ UNCHANGED <<cr, cache, expired, hubVars>>

(***************************************************************************)
(* The rest of the pass.  Send goes to the server the pass got hold of at  *)
(* its beginning; if the CaptureHub controller has retired that server     *)
(* since, the directive is lost whatever answer the pass gets.             *)
(***************************************************************************)
Send(s, d, code) ==
    IF rec.live THEN code = QueueCode(s) /\ queueDirective(s, d)
    ELSE UNCHANGED hubVars

Codes == {"OK", "NotFound", "ResourceExhausted"}

SendStart ==
    /\ rec # Idle
    /\ rec.pc = "start"
    /\ rec.todo # {}
    /\ LET i == First(rec.todo)
           d == [action |-> "START", test |-> rec.test, shard |-> i, run |-> rec.lt.run]
       IN  /\ \E code \in Codes : Send(rec.lt.plan[i], d, code)
           /\ rec' = [rec EXCEPT !.todo = @ \ {i}]
    /\ UNCHANGED <<cr, cache, expired>>

UpdateStatus ==
    /\ rec # Idle
    /\ rec.pc = "start"
    /\ rec.todo = {}
    /\ ~shouldAbort
    /\ Update(rec.test, rec.lt, [rec.lt EXCEPT !.phase = rec.phase])
    /\ rec' = Idle
    /\ UNCHANGED hubVars

BeginAbort ==
    /\ rec # Idle
    /\ rec.pc = "start"
    /\ rec.todo = {}
    /\ shouldAbort
    /\ rec' = [pc |-> "abort", test |-> rec.test, lt |-> rec.lt, live |-> rec.live,
               todo |-> AssignedSpokes(rec.lt), phase |-> rec.phase, delivered |-> TRUE]
    /\ UNCHANGED <<cr, cache, expired, hubVars>>

SendStopLastCounts ==           \* mutant: the last spoke's answer decides
    /\ rec # Idle
    /\ rec.pc \in {"abort", "delete"}
    /\ rec.todo # {}
    /\ LET s == FirstSpoke(rec.todo)
           d == [action |-> "STOP", test |-> rec.test]
       IN  \E code \in Codes :
              /\ Send(s, d, code)
              /\ rec' = [rec EXCEPT !.todo = @ \ {s},
                                    !.delivered = code # "ResourceExhausted"]
    /\ UNCHANGED <<cr, cache, expired>>

SendStopOnce ==                 \* mutant: a full channel counts as delivered
    /\ rec # Idle
    /\ rec.pc \in {"abort", "delete"}
    /\ rec.todo # {}
    /\ LET s == FirstSpoke(rec.todo)
           d == [action |-> "STOP", test |-> rec.test]
       IN  /\ \E code \in Codes : Send(s, d, code)
           /\ rec' = [rec EXCEPT !.todo = @ \ {s}]
    /\ UNCHANGED <<cr, cache, expired>>

\* stopAllShards: a spoke that is not registered counts as delivered.
SendStop ==
    /\ rec # Idle
    /\ rec.pc \in {"abort", "delete"}
    /\ rec.todo # {}
    /\ LET s == FirstSpoke(rec.todo)
           d == [action |-> "STOP", test |-> rec.test]
       IN  \E code \in Codes :
              /\ Send(s, d, code)
              /\ rec' = [rec EXCEPT !.todo = @ \ {s},
                                    !.delivered = @ /\ code # "ResourceExhausted"]
    /\ UNCHANGED <<cr, cache, expired>>

\* Aborted only once every STOP was accepted; otherwise the next pass retries.
FinishAbort ==
    /\ rec # Idle
    /\ rec.pc = "abort"
    /\ rec.todo = {}
    /\ Update(rec.test, rec.lt,
              IF rec.delivered THEN [rec.lt EXCEPT !.phase = "Aborted", !.aborting = FALSE]
              ELSE [rec.lt EXCEPT !.phase = rec.phase, !.aborting = TRUE])
    /\ rec' = Idle
    /\ UNCHANGED hubVars

(***************************************************************************)
(* Deletion: the finalizer goes once every STOP was accepted, and the      *)
(* object with it.  Without a server it goes at once.                      *)
(***************************************************************************)
BeginDelete(k) ==
    /\ rec = Idle
    /\ cache[k] # Absent
    /\ cache[k].deleting

ReconcileDeleteLive(k) ==       \* mutant: terminal phases need no further work
    /\ BeginDelete(k)
    /\ cache[k].phase \notin TerminalPhases
    /\ server
    /\ rec' = [pc |-> "delete", test |-> k, lt |-> cache[k], live |-> TRUE,
               todo |-> AssignedSpokes(cache[k]), phase |-> cache[k].phase,
               delivered |-> TRUE]
    /\ UNCHANGED <<cr, cache, expired, hubVars>>

ReconcileDelete(k) ==
    /\ BeginDelete(k)
    /\ server
    /\ rec' = [pc |-> "delete", test |-> k, lt |-> cache[k], live |-> TRUE,
               todo |-> AssignedSpokes(cache[k]), phase |-> cache[k].phase,
               delivered |-> TRUE]
    /\ UNCHANGED <<cr, cache, expired, hubVars>>

ReconcileDeleteNoServer(k) ==
    /\ BeginDelete(k)
    /\ ~server
    /\ Update(k, cache[k], Absent)
    /\ UNCHANGED <<rec, hubVars>>

\* Once every STOP was accepted, before the finalizer is removed.
ClearStopped ==
    IF rec.pc = "delete" /\ rec.delivered /\ rec.live
    THEN ClearReplayStatuses(rec.test) ELSE UNCHANGED hubVars

FinishDelete ==
    /\ rec # Idle
    /\ rec.pc = "delete"
    /\ rec.todo = {}
    /\ ClearStopped
    /\ IF rec.delivered THEN Update(rec.test, rec.lt, Absent)
       ELSE UNCHANGED <<cr, cache, expired>>
    /\ rec' = Idle

\* The write that ends a pass fails for a reason of its own; a later pass retries.
UpdateFails ==
    /\ rec # Idle
    /\ rec.todo = {}
    /\ rec.pc = "start" => ~shouldAbort
    /\ ClearStopped
    /\ rec' = Idle
    /\ UNCHANGED <<cr, cache, expired>>

Reconcile ==
    \/ \E k \in LoadTests :
          \/ ReconcileDenied(k)
          \/ ReconcilePending(k)
          \/ ReconcilePlan(k)
          \/ ReconcileResume(k)
          \/ ReconcileDelete(k)
          \/ ReconcileDeleteNoServer(k)
    \/ SendStart
    \/ UpdateStatus
    \/ BeginAbort
    \/ SendStop
    \/ FinishAbort
    \/ FinishDelete
=============================================================================
