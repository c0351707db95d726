-------------------------- MODULE LoadTestTypeProofs --------------------------
(***************************************************************************)
(* Types: what each operation of the hub's server, the LoadTest controller *)
(* and the spokes does to them, for any number of spokes, load tests and   *)
(* shards, any buffer size and any set of events.                          *)
(***************************************************************************)
EXTENDS LoadTestPlacementProofs

-----------------------------------------------------------------------------
(***************************************************************************)
(* The hub's server keeps its types.                                       *)
(***************************************************************************)
\* An empty registry is well typed, as after Stop and RegisterSpoke.
LEMMA NoSummariesType == NoSummaries \in Summaries
  BY Zenon DEF NoSummaries, Summaries

\* Stop and NewServer: the empty registry.
LEMMA StopServerType ==
  ASSUME HubTypeOK, StopServer
  PROVE  HubTypeOK'
<1>1. directives' \in [Spokes -> Seq(Directive)] /\ \A s \in Spokes : Len(directives'[s]) = 0
  BY DEF StopServer
<1>2. replays' \in [Spokes -> Summaries]
  BY NoSummariesType, Zenon DEF StopServer
<1>3. active' \in [tests : SUBSET LoadTests, complete : BOOLEAN]
  BY Zenon DEF StopServer, NoActive
<1>4. server' \in BOOLEAN /\ registered' \subseteq Spokes /\ fresh' \subseteq registered'
  BY Zenon DEF StopServer
<1>5. \A s \in Spokes : Len(directives'[s]) <= BufferSize
  BY <1>1, BufferSizeAssumption
<1> QED
  BY <1>1, <1>2, <1>3, <1>4, <1>5, Zenon DEF HubTypeOK

\* RegisterSpoke and DeregisterSpoke: one entry is emptied.
LEMMA EntryType ==
  ASSUME HubTypeOK, NEW s \in Spokes, RegisterSpoke(s) \/ DeregisterSpoke(s)
  PROVE  HubTypeOK'
<1>1. directives' = [directives EXCEPT ![s] = << >>]
  BY Zenon DEF RegisterSpoke, DeregisterSpoke
<1>2. /\ directives' \in [Spokes -> Seq(Directive)]
      /\ \A t \in Spokes : Len(directives'[t]) <= BufferSize
  BY <1>1, BufferSizeAssumption DEF HubTypeOK
<1>3. replays' \in [Spokes -> Summaries]
  BY NoSummariesType, Zenon DEF HubTypeOK, RegisterSpoke, DeregisterSpoke
<1>4. registered' \subseteq Spokes /\ fresh' \subseteq registered'
  BY Zenon DEF HubTypeOK, RegisterSpoke, DeregisterSpoke
<1> QED
  BY <1>2, <1>3, <1>4, Zenon DEF HubTypeOK, RegisterSpoke, DeregisterSpoke

\* Heartbeat: reported summaries are merged in.
LEMMA HeartbeatType ==
  ASSUME HubTypeOK, NEW s \in Spokes, NEW sums \in Summaries, Heartbeat(s, sums)
  PROVE  HubTypeOK'
<1>1. Upsert(replays[s], sums) \in Summaries
  BY DEF HubTypeOK, Upsert, Summaries
<1>2. replays' \in [Spokes -> Summaries]
  BY <1>1, Zenon DEF HubTypeOK, Heartbeat
<1> QED
  BY <1>2, Zenon DEF HubTypeOK, Heartbeat

\* ReportReplayStatus: one summary is replaced.
LEMMA ReportType ==
  ASSUME HubTypeOK, NEW s \in Spokes, NEW k \in LoadTests, NEW i \in Shards,
         NEW sum \in Summary \cup {NoSummary}, ReportReplayStatus(s, k, i, sum)
  PROVE  HubTypeOK'
<1>1. replays[s] \in [LoadTests -> [Shards -> Summary \cup {NoSummary}]]
  BY Zenon DEF HubTypeOK, Summaries
<1>2. [replays[s] EXCEPT ![k] = [replays[s][k] EXCEPT ![i] = sum]] \in Summaries
  BY <1>1, Zenon DEF Summaries
<1>3. replays' = [replays EXCEPT ![s] = [replays[s] EXCEPT ![k] = [replays[s][k] EXCEPT ![i] = sum]]]
  BY <1>1, Zenon DEF HubTypeOK, ReportReplayStatus
<1>4. replays' \in [Spokes -> Summaries]
  BY <1>2, <1>3, Zenon DEF HubTypeOK
<1> QED
  BY <1>4, Zenon DEF HubTypeOK, ReportReplayStatus

\* WatchDirectives: the first directive leaves the channel.
LEMMA WatchType ==
  ASSUME HubTypeOK, NEW s \in Spokes, WatchDirectives(s)
  PROVE  HubTypeOK' /\ Head(directives[s]) \in Directive
<1>1. directives[s] \in Seq(Directive) /\ directives[s] # << >>
  BY Zenon DEF HubTypeOK, WatchDirectives
<1>2. /\ Tail(directives[s]) \in Seq(Directive)
      /\ Len(Tail(directives[s])) <= Len(directives[s])
      /\ Head(directives[s]) \in Directive
  BY <1>1
<1>3. /\ directives' \in [Spokes -> Seq(Directive)]
      /\ \A t \in Spokes : Len(directives'[t]) <= BufferSize
  BY <1>1, <1>2, BufferSizeAssumption DEF HubTypeOK, WatchDirectives
<1> QED
  BY <1>2, <1>3, Zenon DEF HubTypeOK, WatchDirectives

\* queueDirective: the channel never holds more than BufferSize.
LEMMA QueueType ==
  ASSUME HubTypeOK, NEW s \in Spokes, NEW d \in Directive, queueDirective(s, d)
  PROVE  HubTypeOK'
<1>1. directives[s] \in Seq(Directive)
  BY Zenon DEF HubTypeOK
<1>2. Append(directives[s], d) \in Seq(Directive) /\ Len(Append(directives[s], d)) = Len(directives[s]) + 1
  BY <1>1
<1>3. QueueCode(s) = "OK" => Len(directives[s]) < BufferSize
  BY Zenon DEF QueueCode
<1>4. /\ directives' \in [Spokes -> Seq(Directive)]
      /\ \A t \in Spokes : Len(directives'[t]) <= BufferSize
  <2>1. CASE QueueCode(s) = "OK"
    <3>1. directives' = [directives EXCEPT ![s] = Append(directives[s], d)]
      BY <2>1, Zenon DEF queueDirective
    <3>2. Len(Append(directives[s], d)) <= BufferSize
      BY <1>1, <1>2, <1>3, <2>1, BufferSizeAssumption
    <3> QED
      BY <3>1, <3>2, <1>2, Zenon DEF HubTypeOK
  <2>2. CASE QueueCode(s) # "OK"
    BY <2>2, Zenon DEF queueDirective, HubTypeOK
  <2> QED
    BY <2>1, <2>2, Zenon
<1> QED
  BY <1>4, Zenon DEF HubTypeOK, queueDirective

\* ClearReplayStatuses: the summaries of one load test go.
LEMMA ClearType ==
  ASSUME HubTypeOK, NEW k \in LoadTests, ClearReplayStatuses(k)
  PROVE  HubTypeOK'
<1>1. replays' \in [Spokes -> Summaries]
  BY Zenon DEF HubTypeOK, ClearReplayStatuses, Summaries
<1> QED
  BY <1>1, Zenon DEF HubTypeOK, ClearReplayStatuses

\* Steps that leave the server alone.
LEMMA HubUnchanged ==
  ASSUME HubTypeOK, UNCHANGED hubVars
  PROVE  HubTypeOK'
  BY Zenon DEF HubTypeOK, hubVars

-----------------------------------------------------------------------------
(***************************************************************************)
(* The reconciler keeps its types.                                         *)
(***************************************************************************)
\* The spokes a pass selects are spokes.
LEMMA SelectType ==
  ASSUME HubTypeOK, NEW cells
  PROVE  SelectSpokes(cells, MaxSpokes) \subseteq Spokes
  BY Zenon DEF HubTypeOK, SelectSpokes, Eligible

\* The empty assignment of a new test is an assignment.
LEMMA NoPlanType == NoPlan \in Assignments
<1>1. NoPlan \in [{} -> Spokes]
  BY Zenon DEF NoPlan
<1> QED
  BY <1>1, Zenon DEF Assignments

\* What the statuses amount to.
LEMMA AggregateType ==
  ASSUME NEW k \in LoadTests, NEW lt \in LoadTest
  PROVE  aggregate(k, lt) \in Phases
  BY Zenon DEF aggregate, LoadTest, Phases, LivePhases, TerminalPhases

\* The error-rate verdict is a Boolean.
LEMMA ErrorsType ==
  ASSUME NEW k
  PROVE  errorRateExceeded(k) \in BOOLEAN
  BY Zenon DEF errorRateExceeded

\* The pass that StartShards begins is well typed.
LEMMA StartShardsType ==
  ASSUME NEW k \in LoadTests, NEW lt \in LoadTest, StartShards(k, lt)
  PROVE  rec' \in StartPass
<1>1. DOMAIN lt.plan \ reported(k) \in SUBSET Shards
  BY Zenon DEF LoadTest, Assignments
<1> QED
  BY <1>1, AggregateType, ErrorsType, Zenon DEF StartShards, StartPass

\* Store keeps the controller's objects well typed.
LEMMA StoreType ==
  ASSUME CtlTypeOK, NEW k \in LoadTests, NEW lt \in LoadTest \cup {Absent}, Store(k, lt)
  PROVE  /\ cr' \in [LoadTests -> LoadTest \cup {Absent}]
         /\ cache' \in [LoadTests -> LoadTest \cup {Absent}]
         /\ expired' \subseteq LoadTests
  BY Zenon DEF CtlTypeOK, Store

\* Update does too, conflict or not.
LEMMA UpdateType ==
  ASSUME CtlTypeOK, NEW k \in LoadTests, NEW read, NEW lt \in LoadTest \cup {Absent},
         Update(k, read, lt)
  PROVE  /\ cr' \in [LoadTests -> LoadTest \cup {Absent}]
         /\ cache' \in [LoadTests -> LoadTest \cup {Absent}]
         /\ expired' \subseteq LoadTests
  BY StoreType, Zenon DEF CtlTypeOK, Update

\* A directive to no spoke at all is refused with NotFound.
LEMMA SendType ==
  ASSUME HubTypeOK, NEW s, NEW d \in Directive, NEW code, Send(s, d, code)
  PROVE  HubTypeOK'
<1>1. CASE rec.live /\ s \in Spokes
  BY <1>1, QueueType, Zenon DEF Send
<1>2. CASE rec.live /\ s \notin Spokes
  <2>1. QueueCode(s) # "OK"
    BY <1>2, Zenon DEF HubTypeOK, QueueCode
  <2> QED
    BY <1>2, <2>1, HubUnchanged, Zenon DEF Send, queueDirective, hubVars
<1>3. CASE ~rec.live
  BY <1>3, HubUnchanged, Zenon DEF Send
<1> QED
  BY <1>1, <1>2, <1>3, Zenon

\* The object a pass reads, and what it may write back.
LEMMA ReadType ==
  ASSUME CtlTypeOK, NEW k \in LoadTests, cache[k] # Absent
  PROVE  /\ cache[k] \in LoadTest
         /\ [cache[k] EXCEPT !.finalizer = TRUE] \in LoadTest
         /\ \A phase \in Phases :
               [cache[k] EXCEPT !.finalizer = TRUE, !.phase = phase] \in LoadTest
         /\ \A phase \in Phases, p \in Assignments :
               [cache[k] EXCEPT !.finalizer = TRUE, !.phase = phase, !.plan = p] \in LoadTest
  BY Zenon DEF CtlTypeOK, LoadTest

\* A pass that begins keeps the types.
LEMMA BeginPassType ==
  ASSUME ConstantFacts, HubTypeOK, CtlTypeOK, NEW k \in LoadTests, PassBegins(k)
  PROVE  HubTypeOK' /\ CtlTypeOK'
<1> DEFINE Stored == /\ cr' \in [LoadTests -> LoadTest \cup {Absent}]
                     /\ cache' \in [LoadTests -> LoadTest \cup {Absent}]
                     /\ expired' \subseteq LoadTests
<1>0. CtlTypeOK' <=> Stored /\ rec' \in StartPass \cup StopPass \cup {Idle}
  BY Zenon DEF CtlTypeOK
<1> HIDE DEF Stored
<1>1. CASE ReconcileFinalizer(k)
  <2>1. Stored
    BY <1>1, ReadType, StoreType, Zenon DEF ReconcileFinalizer, Begin, Stored
  <2> QED
    BY <1>0, <1>1, <2>1, HubUnchanged, Zenon DEF ReconcileFinalizer, CtlTypeOK
<1>2. CASE ReconcileDenied(k)
  <2>1. "Failed" \in Phases
    BY Zenon DEF Phases, TerminalPhases
  <2>2. Stored
    BY <1>2, <2>1, ReadType, UpdateType, Zenon DEF ReconcileDenied, Begin, Stored
  <2> QED
    BY <1>0, <1>2, <2>2, HubUnchanged, Zenon DEF ReconcileDenied, CtlTypeOK
<1>3. CASE ReconcilePending(k)
  <2>1. "Pending" \in Phases
    BY Zenon DEF Phases
  <2>2. Stored
    BY <1>3, <2>1, ReadType, UpdateType, Zenon DEF ReconcilePending, Begin, Stored
  <2> QED
    BY <1>0, <1>3, <2>2, HubUnchanged, Zenon DEF ReconcilePending, CtlTypeOK
<1>4. CASE ReconcilePlan(k)
  <2>1. PICK p \in planDistribution(SelectSpokes(TestCells[k], MaxSpokes)) :
           LET lt == [cache[k] EXCEPT !.finalizer = TRUE, !.phase = "Distributing", !.plan = p]
           IN  Store(k, lt) /\ StartShards(k, lt)
    BY <1>4, Zenon DEF ReconcilePlan
  <2>2. p \in Assignments
    BY SelectType, Zenon DEF ConstantFacts
  <2>3. "Distributing" \in Phases /\ cache[k] # Absent
    BY <1>4, Zenon DEF Phases, LivePhases, ReconcilePlan, Begin
  <2>4. [cache[k] EXCEPT !.finalizer = TRUE, !.phase = "Distributing", !.plan = p] \in LoadTest
    BY <2>2, <2>3, ReadType, Zenon
  <2>5. Stored /\ rec' \in StartPass
    BY <2>1, <2>4, StoreType, StartShardsType, Zenon DEF Stored
  <2> QED
    BY <1>0, <1>4, <2>5, HubUnchanged, Zenon DEF ReconcilePlan
<1>5. CASE ReconcileResume(k)
  <2>1. rec' \in StartPass
    BY <1>5, ReadType, StartShardsType, Zenon DEF ReconcileResume, Begin
  <2>2. Stored
    BY <1>5, Zenon DEF ReconcileResume, CtlTypeOK, Stored
  <2> QED
    BY <1>0, <1>5, <2>1, <2>2, HubUnchanged, Zenon DEF ReconcileResume
<1>6. CASE ReconcileDelete(k)
  <2>1. cache[k] \in LoadTest
    BY <1>6, ReadType, Zenon DEF ReconcileDelete, BeginDelete
  <2>2. AssignedSpokes(cache[k]) \in SUBSET Spokes /\ cache[k].phase \in Phases
    BY <2>1 DEF AssignedSpokes, LoadTest, Assignments
  <2>3. rec' \in StopPass
    BY <1>6, <2>1, <2>2, Zenon DEF ReconcileDelete, StopPass
  <2>4. Stored
    BY <1>6, Zenon DEF ReconcileDelete, CtlTypeOK, Stored
  <2> QED
    BY <1>0, <1>6, <2>3, <2>4, HubUnchanged, Zenon DEF ReconcileDelete
<1>7. CASE ReconcileDeleteNoServer(k)
  <2>1. Stored
    BY <1>7, UpdateType, Zenon DEF ReconcileDeleteNoServer, Stored
  <2> QED
    BY <1>0, <1>7, <2>1, HubUnchanged, Zenon DEF ReconcileDeleteNoServer, CtlTypeOK
<1> QED
  BY <1>1, <1>2, <1>3, <1>4, <1>5, <1>6, <1>7, Zenon DEF PassBegins

\* A pass that goes on keeps the types.
LEMMA ContinuePassType ==
  ASSUME ConstantFacts, HubTypeOK, CtlTypeOK, PassContinues
  PROVE  HubTypeOK' /\ CtlTypeOK'
<1> DEFINE Stored == /\ cr' \in [LoadTests -> LoadTest \cup {Absent}]
                     /\ cache' \in [LoadTests -> LoadTest \cup {Absent}]
                     /\ expired' \subseteq LoadTests
<1>0. CtlTypeOK' <=> Stored /\ rec' \in StartPass \cup StopPass \cup {Idle}
  BY Zenon DEF CtlTypeOK
<1>a. UNCHANGED <<cr, cache, expired>> => Stored
  BY Zenon DEF CtlTypeOK
<1>b. rec # Idle /\ rec.pc = "start" => rec \in StartPass
  BY Zenon DEF CtlTypeOK, StopPass
<1>c. rec # Idle /\ rec.pc \in {"abort", "delete"} => rec \in StopPass
  BY Zenon DEF CtlTypeOK, StartPass
<1>d. rec # Idle => rec.test \in LoadTests /\ rec.lt \in LoadTest /\ rec.phase \in Phases
  BY Zenon DEF CtlTypeOK, StartPass, StopPass
<1>e. ASSUME NEW lt \in LoadTest \cup {Absent}, rec # Idle, Update(rec.test, rec.lt, lt)
      PROVE  Stored
  BY <1>d, <1>e, UpdateType, Zenon
<1> HIDE DEF Stored
<1>1. CASE SendStart
  <2> DEFINE i == First(rec.todo)
             d == [action |-> "START", test |-> rec.test, shard |-> i, run |-> rec.lt.run]
  <2>1. rec \in StartPass /\ rec.todo # {} /\ rec.todo \subseteq Shards
    BY <1>1, <1>b, Zenon DEF SendStart, StartPass
  <2>2. PICK code \in Codes : Send(rec.lt.plan[i], d, code)
    BY <1>1, Zenon DEF SendStart
  <2>3. rec' = [rec EXCEPT !.todo = rec.todo \ {i}]
    BY <1>1, Zenon DEF SendStart
  <2>4. rec' \in StartPass
    BY <2>1, <2>3, Zenon DEF StartPass
  <2>5. i \in Shards
    BY <2>1, Zenon DEF ConstantFacts
  <2>6. d \in Directive
    BY <1>d, <2>1, <2>5, Zenon DEF StartPass, LoadTest, Directive, StartDirective
  <2>7. HubTypeOK'
    BY <2>2, <2>6, SendType, Zenon
  <2>8. Stored
    BY <1>1, <1>a, Zenon DEF SendStart
  <2> QED
    BY <1>0, <2>4, <2>7, <2>8, Zenon
<1>2. CASE UpdateStatus
  <2>1. rec # Idle /\ [rec.lt EXCEPT !.phase = rec.phase] \in LoadTest
    BY <1>2, <1>d, Zenon DEF UpdateStatus, LoadTest
  <2>2. Stored
    BY <1>2, <1>e, <2>1, Zenon DEF UpdateStatus
  <2> QED
    BY <1>0, <1>2, <2>2, HubUnchanged, Zenon DEF UpdateStatus
<1>3. CASE BeginAbort
  <2>1. rec \in StartPass
    BY <1>3, <1>b, Zenon DEF BeginAbort
  <2>2. AssignedSpokes(rec.lt) \in SUBSET Spokes
    BY <2>1 DEF AssignedSpokes, StartPass, LoadTest, Assignments
  <2>3. rec' \in StopPass
    BY <1>3, <2>1, <2>2, Zenon DEF BeginAbort, StartPass, StopPass
  <2>4. Stored
    BY <1>3, <1>a, Zenon DEF BeginAbort
  <2> QED
    BY <1>0, <1>3, <2>3, <2>4, HubUnchanged, Zenon DEF BeginAbort
<1>4. CASE SendStop
  <2> DEFINE s == FirstSpoke(rec.todo)
             d == [action |-> "STOP", test |-> rec.test]
  <2>1. rec \in StopPass /\ rec.todo # {} /\ rec.todo \subseteq Spokes
    BY <1>4, <1>c, Zenon DEF SendStop, StopPass
  <2>2. PICK code \in Codes :
           /\ Send(s, d, code)
           /\ rec' = [rec EXCEPT !.todo = @ \ {s},
                                 !.delivered = @ /\ code # "ResourceExhausted"]
    BY <1>4, Zenon DEF SendStop
  <2>3. rec' \in StopPass
    BY <2>1, <2>2, Zenon DEF StopPass
  <2>4. s \in Spokes
    BY <2>1, Zenon DEF ConstantFacts
  <2>5. d \in Directive
    BY <2>1, Zenon DEF StopPass, Directive, StopDirective
  <2>6. HubTypeOK'
    BY <2>2, <2>4, <2>5, SendType, Zenon
  <2>7. Stored
    BY <1>4, <1>a, Zenon DEF SendStop
  <2> QED
    BY <1>0, <2>3, <2>6, <2>7, Zenon
<1>5. CASE FinishAbort
  <2>1. /\ rec # Idle
        /\ [rec.lt EXCEPT !.phase = "Aborted", !.aborting = FALSE] \in LoadTest
        /\ [rec.lt EXCEPT !.phase = rec.phase, !.aborting = TRUE] \in LoadTest
    BY <1>5, <1>d, Zenon DEF FinishAbort, LoadTest, Phases, TerminalPhases
  <2>2. Stored
    BY <1>5, <1>e, <2>1, Zenon DEF FinishAbort
  <2> QED
    BY <1>0, <1>5, <2>2, HubUnchanged, Zenon DEF FinishAbort
<1>6. CASE FinishDelete \/ UpdateFails
  <2>1. HubTypeOK'
    BY <1>6, <1>d, ClearType, HubUnchanged, Zenon
       DEF FinishDelete, UpdateFails, ClearStopped
  <2>2. Stored
    BY <1>6, <1>a, <1>e, Zenon DEF FinishDelete, UpdateFails
  <2> QED
    BY <1>0, <1>6, <2>1, <2>2, Zenon DEF FinishDelete, UpdateFails
<1> QED
  BY <1>1, <1>2, <1>3, <1>4, <1>5, <1>6, Zenon DEF PassContinues

-----------------------------------------------------------------------------
(***************************************************************************)
(* The spokes keep their types.                                            *)
(***************************************************************************)
\* Deleting a TrafficReplay leaves a TrafficReplay, or none.
LEMMA DeleteReplayType ==
  ASSUME NEW t \in TrafficReplay \cup {NoReplay}
  PROVE  Delete(t) \in TrafficReplay \cup {NoReplay}
  BY Zenon DEF Delete, TrafficReplay

\* The directive handler, the collector and the passing of time.
LEMMA HandleStartType ==
  ASSUME NEW ts \in Replays, NEW d \in StartDirective
  PROVE  handleStart(ts, d) \in Replays
<1>1. NewReplay(d.run) \in TrafficReplay
  BY Zenon DEF NewReplay, TrafficReplay, StartDirective, ReplayPhases
<1>2. d.test \in LoadTests /\ d.shard \in Shards
  BY Zenon DEF StartDirective
<1>3. [ts EXCEPT ![d.test][d.shard] = NewReplay(d.run)] \in Replays
  BY <1>1, <1>2, Zenon DEF Replays
<1> QED
  BY <1>3, Zenon DEF handleStart

\* handleStop keeps a spoke's TrafficReplays well typed.
LEMMA HandleStopType ==
  ASSUME NEW ts \in Replays, NEW d \in StopDirective
  PROVE  handleStop(ts, d) \in Replays
<1>1. d.test \in LoadTests
  BY Zenon DEF StopDirective
<1>2. [i \in Shards |-> Delete(ts[d.test][i])] \in [Shards -> TrafficReplay \cup {NoReplay}]
  BY <1>1, DeleteReplayType, Zenon DEF Replays
<1> QED
  BY <1>1, <1>2, Zenon DEF handleStop, Replays

\* The orphan collector does.
LEMMA CollectType ==
  ASSUME NEW ts \in Replays
  PROVE  Collect(ts) \in Replays
  BY DeleteReplayType, Zenon DEF Collect, Replays

\* Ageing does.
LEMMA ListedType ==
  ASSUME NEW ts \in Replays
  PROVE  Listed(ts) \in Replays
<1>1. \A k \in LoadTests, i \in Shards :
         /\ ts[k][i] \in TrafficReplay \cup {NoReplay}
         /\ ts[k][i] # NoReplay => [ts[k][i] EXCEPT !.age = "listed"] \in TrafficReplay
  BY DEF Replays, TrafficReplay
<1> QED
  BY <1>1, Zenon DEF Listed, Replays

\* A TrafficReplay's summary is a summary.
LEMMA SummaryOfType ==
  ASSUME NEW t \in TrafficReplay \cup {NoReplay}
  PROVE  SummaryOf(t) \in Summary \cup {NoSummary}
  BY Zenon DEF SummaryOf, Summary, TrafficReplay

\* A heartbeat's summaries are well typed.
LEMMA ReplaySummariesType ==
  ASSUME SpokeTypeOK, NEW s \in Spokes
  PROVE  ReplaySummaries(s) \in Summaries
<1>1. \A k \in LoadTests, i \in Shards : tr[s][k][i] \in TrafficReplay \cup {NoReplay}
  BY DEF SpokeTypeOK, Replays
<1> QED
  BY <1>1, SummaryOfType, Zenon DEF ReplaySummaries, Summaries

\* One TrafficReplay of one spoke is replaced.
LEMMA OneReplayType ==
  ASSUME SpokeTypeOK, NEW s \in Spokes, NEW k \in LoadTests, NEW i \in Shards,
         NEW t \in TrafficReplay \cup {NoReplay}
  PROVE  [tr EXCEPT ![s][k][i] = t] \in [Spokes -> Replays]
<1>1. tr[s] \in Replays
  BY Zenon DEF SpokeTypeOK
<1>2. [tr[s] EXCEPT ![k] = [tr[s][k] EXCEPT ![i] = t]] \in Replays
  BY <1>1, Zenon DEF Replays
<1>3. [tr EXCEPT ![s][k][i] = t]
        = [tr EXCEPT ![s] = [tr[s] EXCEPT ![k] = [tr[s][k] EXCEPT ![i] = t]]]
  BY <1>1, Zenon DEF SpokeTypeOK, Replays
<1> QED
  BY <1>2, <1>3, Zenon DEF SpokeTypeOK

\* Steps of the hub leave the spokes well typed.
LEMMA SpokeUnchanged ==
  ASSUME SpokeTypeOK, UNCHANGED spokeVars
  PROVE  SpokeTypeOK'
  BY Zenon DEF SpokeTypeOK, spokeVars

\* Processes come and go.
LEMMA ProcessType ==
  ASSUME HubTypeOK, SpokeTypeOK, NEW s \in Spokes,
         ProcessSteps(s)
  PROVE  HubTypeOK' /\ SpokeTypeOK'
<1>1. RegisterSpoke(s) \/ DeregisterSpoke(s) \/ UNCHANGED hubVars
  BY Zenon DEF ProcessSteps, SpokeStart, SpokeStartStandalone, SpokeCrash, SpokeExit, RollOut, PreviousExits
<1>2. HubTypeOK'
  BY <1>1, EntryType, HubUnchanged, Zenon
<1>3. UNCHANGED <<tr, beat, done>>
  BY Zenon DEF ProcessSteps, SpokeStart, SpokeStartStandalone, SpokeCrash, SpokeExit, RollOut, PreviousExits
<1>4. proc' \in [Spokes -> {"down", "joined", "standalone"}] /\ terminating' \subseteq Spokes
  BY Zenon DEF SpokeTypeOK, ProcessSteps, SpokeStart, SpokeStartStandalone, SpokeCrash, SpokeExit, RollOut,
         PreviousExits
<1> QED
  BY <1>2, <1>3, <1>4, Zenon DEF SpokeTypeOK

\* Directives and heartbeats.
LEMMA MessageType ==
  ASSUME HubTypeOK, SpokeTypeOK, NEW s \in Spokes,
         MessageSteps(s)
  PROVE  HubTypeOK' /\ SpokeTypeOK'
<1>1. CASE ReceiveDirective(s)
  <2> DEFINE d == Head(directives[s])
  <2>1. HubTypeOK' /\ d \in Directive
    BY <1>1, WatchType, Zenon DEF ReceiveDirective
  <2>2. tr[s] \in Replays
    BY Zenon DEF SpokeTypeOK
  <2>3. (d.action = "START" => d \in StartDirective) /\ (d.action # "START" => d \in StopDirective)
    BY <2>1, Zenon DEF Directive, StartDirective, StopDirective
  <2>4. (IF d.action = "START" THEN handleStart(tr[s], d) ELSE handleStop(tr[s], d)) \in Replays
    BY <2>2, <2>3, HandleStartType, HandleStopType, Zenon
  <2>5. tr' \in [Spokes -> Replays]
    BY <1>1, <2>4, Zenon DEF ReceiveDirective, SpokeTypeOK
  <2> QED
    BY <1>1, <2>1, <2>5, Zenon DEF ReceiveDirective, SpokeTypeOK
<1>2. CASE LoseDirective(s)
  BY <1>2, WatchType, SpokeUnchanged, Zenon DEF LoseDirective
<1>3. ASSUME OnHeartbeatResponse(s)
      PROVE  tr' \in [Spokes -> Replays]
  BY <1>3, CollectType, Zenon DEF OnHeartbeatResponse, SpokeTypeOK
<1>4. CASE SendHeartbeat(s)
  BY <1>4, <1>3, HeartbeatType, ReplaySummariesType, Zenon DEF SendHeartbeat, SpokeTypeOK
<1>5. CASE DelayHeartbeat(s)
  BY <1>5, HubUnchanged, ReplaySummariesType, Zenon DEF DelayHeartbeat, SpokeTypeOK
<1>6. CASE ServeDelayed(s)
  <2>1. beat[s] \in Summaries /\ beat' \in [Spokes -> Summaries \cup {NoBeat}]
    BY <1>6, Zenon DEF ServeDelayed, SpokeTypeOK
  <2> QED
    BY <1>6, <1>3, <2>1, HeartbeatType, Zenon DEF ServeDelayed, SpokeTypeOK
<1>7. CASE LoseDelayed(s)
  BY <1>7, HubUnchanged, Zenon DEF LoseDelayed, SpokeTypeOK
<1>8. CASE HeartbeatExpires(s) /\ UNCHANGED spokeVars
  BY <1>8, SpokeUnchanged, Zenon DEF HeartbeatExpires, HubTypeOK
<1> QED
  BY <1>1, <1>2, <1>4, <1>5, <1>6, <1>7, <1>8, Zenon DEF MessageSteps

\* A pass over a TrafficReplay.
LEMMA ReplayStepType ==
  ASSUME HubTypeOK, SpokeTypeOK, NEW s \in Spokes, NEW k \in LoadTests, NEW i \in Shards,
         NEW t \in TrafficReplay, ReplayStep(s, k, i, t)
  PROVE  HubTypeOK' /\ SpokeTypeOK'
<1>1. Reports(s, k, i, t) \/ UNCHANGED hubVars
  BY Zenon DEF ReplayStep
<1>2. SummaryOf(t) \in Summary \cup {NoSummary}
  BY SummaryOfType, Zenon
<1>3. HubTypeOK'
  BY <1>1, <1>2, ReportType, HubUnchanged, Zenon DEF Reports
<1>4. tr' \in [Spokes -> Replays]
  BY OneReplayType, Zenon DEF ReplayStep, WritePhase
<1>5. t.run \in Nat
  BY Zenon DEF TrafficReplay
<1>6. done' \subseteq LoadTests \X Nat \X Shards
  BY <1>5 DEF ReplayStep, WritePhase, SpokeTypeOK
<1> QED
  BY <1>3, <1>4, <1>6, Zenon DEF ReplayStep, WritePhase, SpokeTypeOK

\* The TrafficReplay reconciler's steps preserve the types.
LEMMA ReplayType ==
  ASSUME HubTypeOK, SpokeTypeOK, NEW s \in Spokes, NEW k \in LoadTests, NEW i \in Shards,
         ReplaySteps(s, k, i)
  PROVE  HubTypeOK' /\ SpokeTypeOK'
<1>1. tr[s][k][i] \in TrafficReplay \cup {NoReplay}
  BY DEF SpokeTypeOK, Replays
<1>2. CASE ReplayProgress(s, k, i)
  <2>1. PICK t \in Progressed(tr[s][k][i]) : ReplayStep(s, k, i, t)
    BY <1>2, Zenon DEF ReplayProgress
  <2>2. t \in TrafficReplay
    BY <1>1, <1>2, Zenon DEF ReplayProgress, Progressed, TrafficReplay, ReplayPhases
  <2> QED
    BY <2>1, <2>2, ReplayStepType, Zenon
<1>3. CASE ReplayFinish(s, k, i)
  <2>1. PICK t \in Finished(tr[s][k][i]) : ReplayStep(s, k, i, t)
    BY <1>3, Zenon DEF ReplayFinish
  <2>2. tr[s][k][i] \in TrafficReplay
    BY <1>1, <1>3, Zenon DEF ReplayFinish
  <2>3. CASE tr[s][k][i].finalizer
    <3>1. PICK outcome \in TerminalReplay \X (Results \cup {NoResult}) :
             t = [tr[s][k][i] EXCEPT !.phase = outcome[1], !.result = outcome[2]]
      BY <2>1, <2>3, Zenon DEF Finished
    <3>2. outcome[1] \in ReplayPhases /\ outcome[2] \in Results \cup {NoResult}
      BY Zenon DEF TerminalReplay, ReplayPhases
    <3>3. t \in TrafficReplay
      BY <2>2, <3>1, <3>2, Zenon DEF TrafficReplay
    <3> QED
      BY <2>1, <3>3, ReplayStepType, Zenon
  <2>4. CASE ~tr[s][k][i].finalizer
    <3>1. t = [tr[s][k][i] EXCEPT !.finalizer = TRUE, !.phase = "Failed"]
      BY <2>1, <2>4, Zenon DEF Finished
    <3>2. t \in TrafficReplay
      BY <2>2, <3>1, Zenon DEF TrafficReplay, ReplayPhases
    <3> QED
      BY <2>1, <3>2, ReplayStepType, Zenon
  <2> QED
    BY <2>3, <2>4, Zenon
<1>4. ASSUME NEW t \in TrafficReplay \cup {NoReplay}, tr' = [tr EXCEPT ![s][k][i] = t],
             UNCHANGED <<proc, terminating, beat, done, hubVars>>
      PROVE  HubTypeOK' /\ SpokeTypeOK'
  BY <1>4, OneReplayType, HubUnchanged, Zenon DEF SpokeTypeOK
<1>5. CASE ReplayDelete(s, k, i)
  BY <1>4, <1>5, Zenon DEF ReplayDelete
<1>6. ASSUME NEW from, Age(s, k, i, from)
      PROVE  HubTypeOK' /\ SpokeTypeOK'
  <2> DEFINE t == [tr[s][k][i] EXCEPT !.age = "old"]
  <2>1. t \in TrafficReplay
    BY <1>1, <1>6, Zenon DEF Age, TrafficReplay
  <2>2. tr' = [tr EXCEPT ![s][k][i] = t]
    BY <1>6, Zenon DEF Age
  <2> QED
    BY <1>4, <1>6, <2>1, <2>2, Zenon DEF Age
<1>7. CASE ReplayFails(s, k, i)
  <2> DEFINE t == [tr[s][k][i] EXCEPT !.finalizer = TRUE]
  <2>1. t \in TrafficReplay
    BY <1>1, <1>7, Zenon DEF ReplayFails, Runnable, TrafficReplay
  <2>2. tr' = [tr EXCEPT ![s][k][i] = t]
    BY <1>7, Zenon DEF ReplayFails
  <2> QED
    BY <1>4, <1>7, <2>1, <2>2, Zenon DEF ReplayFails
<1> QED
  BY <1>2, <1>3, <1>5, <1>6, <1>7, Zenon DEF ReplaySteps, ReplayResource

-----------------------------------------------------------------------------
(***************************************************************************)
(* Every step keeps the types.                                             *)
(***************************************************************************)
\* The initial states are well typed.
LEMMA TypeInit ==
  ASSUME Init
  PROVE  TypeOK
<1>1. HubTypeOK
  <2>1. directives \in [Spokes -> Seq(Directive)] /\ \A s \in Spokes : Len(directives[s]) <= BufferSize
    BY BufferSizeAssumption DEF Init, HubInit
  <2> QED
    BY <2>1, NoSummariesType, Zenon DEF Init, HubInit, HubTypeOK, NoActive
<1>2. CtlTypeOK
  BY Zenon DEF Init, CtlInit, CtlTypeOK
<1>3. SpokeTypeOK
  BY Zenon DEF Init, SpokeInit, SpokeTypeOK, Replays
<1> QED
  BY <1>1, <1>2, <1>3, Zenon DEF Init, TypeOK

\* A step leaves a well-typed state well typed.
LEMMA TypeStep ==
  ASSUME ConstantFacts, TypeOK, [Next]_vars
  PROVE  TypeOK'
<1>0. HubTypeOK /\ CtlTypeOK /\ SpokeTypeOK
  BY Zenon DEF TypeOK
<1>a. UNCHANGED ctlVars => CtlTypeOK'
  BY <1>0, Zenon DEF CtlTypeOK, ctlVars
<1>b. EnvSame => runs' \in [LoadTests -> Nat] /\ faults' \in Nat
  BY DEF EnvSame, TypeOK
<1>1. CASE \E k \in LoadTests : CreateTest(k)
  <2>1. PICK k \in LoadTests : CreateTest(k)
    BY <1>1, Zenon
  <2>2. [run |-> runs[k] + 1, deleting |-> FALSE, finalizer |-> FALSE,
         phase |-> "", plan |-> NoPlan, aborting |-> FALSE] \in LoadTest
    BY NoPlanType DEF TypeOK, LoadTest, Phases
  <2>3. CtlTypeOK'
    BY <2>1, <2>2, <1>0, StoreType, Zenon DEF CreateTest, CtlTypeOK
  <2>4. runs' \in [LoadTests -> Nat] /\ faults' \in Nat
    <3>1. runs \in [LoadTests -> Nat] /\ faults \in Nat
      BY Zenon DEF TypeOK
    <3>2. runs' = [runs EXCEPT ![k] = runs[k] + 1] /\ faults' = faults
      BY <2>1, Zenon DEF CreateTest
    <3> QED
      BY <3>1, <3>2
  <2> QED
    BY <1>0, <2>1, <2>3, <2>4, HubUnchanged, SpokeUnchanged, Zenon
       DEF CreateTest, TypeOK
<1>2. CASE \E k \in LoadTests : DeleteTest(k)
  <2>1. PICK k \in LoadTests : DeleteTest(k)
    BY <1>2, Zenon
  <2>2. cr[k] # Absent => [cr[k] EXCEPT !.deleting = TRUE] \in LoadTest
    BY <1>0, Zenon DEF CtlTypeOK, LoadTest
  <2>3. CtlTypeOK'
    BY <2>1, <2>2, <1>0, StoreType, Zenon DEF DeleteTest, CtlTypeOK
  <2> QED
    BY <1>0, <2>1, <2>3, HubUnchanged, SpokeUnchanged, Zenon DEF DeleteTest, TypeOK, envVars
<1>3. CASE \E k \in LoadTests : PassBegins(k) /\ UNCHANGED spokeVars /\ EnvSame
  BY <1>0, <1>b, <1>3, BeginPassType, SpokeUnchanged, Zenon DEF PassBegins, TypeOK
<1>4. CASE PassContinues /\ UNCHANGED spokeVars /\ EnvSame
  BY <1>0, <1>b, <1>4, ContinuePassType, SpokeUnchanged, Zenon
     DEF PassContinues, TypeOK
<1>5. CASE \E k \in LoadTests : /\ (CacheSync(k) \/ MaxDurationExceeded(k))
                                 /\ UNCHANGED <<hubVars, spokeVars, envVars>>
  <2>1. CtlTypeOK'
    BY <1>0, <1>5, Zenon DEF CtlTypeOK, CacheSync, MaxDurationExceeded
  <2> QED
    BY <1>0, <1>5, <2>1, HubUnchanged, SpokeUnchanged, Zenon DEF TypeOK, envVars
<1>6. CASE HubServes /\ EnvSame
  <2>1. CASE CaptureHubReconcile
    <3>1. HubTypeOK'
      BY <1>0, <2>1, Zenon
         DEF CaptureHubReconcile, NewServer, SetActiveLoadTests, HubTypeOK
    <3>2. tr' \in [Spokes -> Replays]
      BY <1>0, <2>1, ListedType, Zenon DEF CaptureHubReconcile, SpokeTypeOK
    <3>3. SpokeTypeOK'
      BY <1>0, <2>1, <3>2, Zenon DEF CaptureHubReconcile, SpokeTypeOK
    <3> QED
      BY <1>a, <1>b, <1>6, <2>1, <3>1, <3>3, Zenon DEF CaptureHubReconcile, TypeOK
  <2>2. CASE ListFails
    <3>1. HubTypeOK'
      BY <1>0, <2>2, Zenon DEF ListFails, NewServer, SetActiveLoadTests, HubTypeOK
    <3> QED
      BY <1>0, <1>a, <1>b, <1>6, <2>2, <3>1, SpokeUnchanged, Zenon DEF ListFails, TypeOK
  <2>3. CASE HubRestart \/ Reconfigure
    <3>1. rec' \in StartPass \cup StopPass \cup {Idle}
      <4>1. rec \in StartPass => [rec EXCEPT !.live = FALSE] \in StartPass
        BY Zenon DEF StartPass
      <4>2. rec \in StopPass => [rec EXCEPT !.live = FALSE] \in StopPass
        BY Zenon DEF StopPass
      <4> QED
        BY <1>0, <2>3, <4>1, <4>2, Zenon DEF HubRestart, Reconfigure, CtlTypeOK
    <3>2. CtlTypeOK'
      BY <1>0, <2>3, <3>1, Zenon DEF HubRestart, Reconfigure, CtlTypeOK
    <3> QED
      BY <1>0, <1>b, <1>6, <2>3, <3>2, StopServerType, SpokeUnchanged, Zenon
         DEF HubRestart, Reconfigure, TypeOK
  <2> QED
    BY <1>6, <2>1, <2>2, <2>3, Zenon DEF HubServes
<1>7. CASE \E s \in Spokes : ProcessSteps(s) /\ UNCHANGED ctlVars /\ EnvSame
  BY <1>0, <1>a, <1>b, <1>7, ProcessType, Zenon DEF ProcessSteps, TypeOK
<1>8. CASE \E s \in Spokes : MessageSteps(s) /\ UNCHANGED ctlVars /\ EnvSame
  BY <1>0, <1>a, <1>b, <1>8, MessageType, Zenon DEF MessageSteps, TypeOK
<1>9. CASE \E s \in Spokes, k \in LoadTests, i \in Shards :
             ReplaySteps(s, k, i) /\ UNCHANGED ctlVars /\ EnvSame
  BY <1>0, <1>a, <1>b, <1>9, ReplayType, Zenon DEF ReplaySteps, TypeOK
<1>10. CASE UNCHANGED vars
  BY <1>0, <1>a, <1>10, HubUnchanged, SpokeUnchanged, Zenon DEF vars, envVars, TypeOK
<1> QED
  BY <1>1, <1>2, <1>3, <1>4, <1>5, <1>6, <1>7, <1>8, <1>9, <1>10, NextCases, Zenon

-----------------------------------------------------------------------------
(***************************************************************************)
(* Where completed TrafficReplays, statuses and heartbeats come from.      *)
(***************************************************************************)
\* A TrafficReplay that is not written to is as completed as it was.
LEMMA SameCompletions ==
  ASSUME \A s \in Spokes, k \in LoadTests, i \in Shards :
            tr'[s][k][i] # NoReplay =>
                /\ tr[s][k][i] # NoReplay /\ tr'[s][k][i].phase = tr[s][k][i].phase
                /\ tr'[s][k][i].run = tr[s][k][i].run
  PROVE  CompletionsRan
  BY Zenon DEF CompletionsRan, CompletionRan

\* Deleting leaves the phase and the run.
LEMMA DeleteKeepsPhase ==
  ASSUME NEW t \in TrafficReplay \cup {NoReplay}, Delete(t) # NoReplay
  PROVE  t # NoReplay /\ Delete(t).phase = t.phase /\ Delete(t).run = t.run
  BY Zenon DEF Delete, TrafficReplay

\* Publishing the list and collecting orphans leave phases and runs.
LEMMA ListedCompletions ==
  ASSUME TypeOK, CaptureHubReconcile \/ \E s \in Spokes : OnHeartbeatResponse(s)
  PROVE  CompletionsRan
<1>0. tr \in [Spokes -> [LoadTests -> [Shards -> TrafficReplay \cup {NoReplay}]]]
  BY Zenon DEF TypeOK, SpokeTypeOK, Replays
<1> SUFFICES ASSUME NEW t \in Spokes, NEW k \in LoadTests, NEW i \in Shards,
                    tr'[t][k][i] # NoReplay
             PROVE  /\ tr[t][k][i] # NoReplay /\ tr'[t][k][i].phase = tr[t][k][i].phase
                    /\ tr'[t][k][i].run = tr[t][k][i].run
  BY SameCompletions, Zenon
<1>1. tr[t][k][i] \in TrafficReplay \cup {NoReplay}
  BY <1>0
<1>2. CASE tr'[t][k][i] = tr[t][k][i] \/ tr'[t][k][i] = Delete(tr[t][k][i])
  BY <1>1, <1>2, DeleteKeepsPhase, Zenon
<1>3. CASE tr[t][k][i] # NoReplay /\ tr'[t][k][i] = [tr[t][k][i] EXCEPT !.age = "listed"]
  BY <1>1, <1>3, Zenon DEF TrafficReplay
<1>4. CASE CaptureHubReconcile
  <2>1. \/ tr'[t][k][i] = tr[t][k][i]
        \/ tr[t][k][i] # NoReplay /\ tr'[t][k][i] = [tr[t][k][i] EXCEPT !.age = "listed"]
    BY <1>4, Zenon DEF CaptureHubReconcile, Listed
  <2> QED
    BY <1>2, <1>3, <2>1, Zenon
<1>5. ASSUME NEW s \in Spokes, OnHeartbeatResponse(s)
      PROVE  tr'[t][k][i] = tr[t][k][i] \/ tr'[t][k][i] = Delete(tr[t][k][i])
  BY <1>0, <1>5, Zenon DEF OnHeartbeatResponse, Collect
<1> QED
  BY <1>2, <1>4, <1>5, Zenon

\* Directives create TrafficReplays that have not run, and delete.
LEMMA ReceivedCompletions ==
  ASSUME TypeOK, NEW s \in Spokes, ReceiveDirective(s)
  PROVE  CompletionsRan
<1> DEFINE d == Head(directives[s])
<1>0. tr \in [Spokes -> [LoadTests -> [Shards -> TrafficReplay \cup {NoReplay}]]]
  BY Zenon DEF TypeOK, SpokeTypeOK, Replays
<1>1. d \in Directive
  <2>1. directives[s] \in Seq(Directive) /\ directives[s] # << >>
    BY Zenon DEF ReceiveDirective, WatchDirectives, TypeOK, HubTypeOK
  <2> QED
    BY <2>1
<1>2. tr' = [tr EXCEPT ![s] = IF d.action = "START" THEN handleStart(tr[s], d)
                                                    ELSE handleStop(tr[s], d)]
  BY Zenon DEF ReceiveDirective
<1> HIDE DEF d
<1> SUFFICES ASSUME NEW t \in Spokes, NEW k \in LoadTests, NEW i \in Shards
             PROVE  CompletionRan(t, k, i)
  BY Zenon DEF CompletionsRan
<1>3. tr[t][k][i] \in TrafficReplay \cup {NoReplay}
  BY <1>0
<1>4. CASE tr'[t][k][i] = tr[t][k][i] \/ tr'[t][k][i] = Delete(tr[t][k][i])
  BY <1>3, <1>4, DeleteKeepsPhase, Zenon DEF CompletionRan
<1>5. CASE t # s
  BY <1>0, <1>2, <1>4, <1>5, Zenon
<1>6. CASE t = s /\ d.action = "START"
  <2>1. d.test \in LoadTests /\ d.shard \in Shards
    <3>1. d \in StartDirective
      BY <1>1, <1>6, Zenon DEF Directive, StopDirective
    <3> QED
      BY <3>1, Zenon DEF StartDirective
  <2>2. tr'[t] = handleStart(tr[t], d)
    BY <1>0, <1>2, <1>6, Zenon
  <2>3. tr'[t][k][i] = tr[t][k][i] \/ tr'[t][k][i] = NewReplay(d.run)
    BY <1>0, <2>1, <2>2 DEF handleStart
  <2>4. NewReplay(d.run).phase # "Completed"
    BY DEF NewReplay
  <2> QED
    BY <1>4, <2>3, <2>4, Zenon DEF CompletionRan
<1>7. CASE t = s /\ d.action # "START"
  <2>1. d.test \in LoadTests
    BY <1>1, <1>7, Zenon DEF Directive, StartDirective, StopDirective
  <2>2. tr'[t] = handleStop(tr[t], d)
    BY <1>0, <1>2, <1>7, Zenon
  <2>3. tr'[t][k][i] = IF k = d.test THEN Delete(tr[t][k][i]) ELSE tr[t][k][i]
    BY <1>0, <2>1, <2>2 DEF handleStop
  <2> QED
    BY <1>4, <2>3, Zenon
<1> QED
  BY <1>5, <1>6, <1>7, Zenon

ShardWritten(s, k, i, t) ==
    /\ tr' = [tr EXCEPT ![s][k][i] = t]
    /\ \/ t = NoReplay
       \/ /\ t.run = tr[s][k][i].run
          /\ \/ t.phase = tr[s][k][i].phase \/ t.phase # "Completed"
             \/ <<k, t.run, i>> \in done'

\* One TrafficReplay is written to.
LEMMA WrittenShard ==
  ASSUME TypeOK, NEW s \in Spokes, NEW k \in LoadTests, NEW i \in Shards, tr[s][k][i] # NoReplay,
         NEW t, ShardWritten(s, k, i, t)
  PROVE  CompletionsRan
<1>0. tr \in [Spokes -> [LoadTests -> [Shards -> TrafficReplay \cup {NoReplay}]]]
  BY Zenon DEF TypeOK, SpokeTypeOK, Replays
<1> SUFFICES ASSUME NEW r \in Spokes, NEW l \in LoadTests, NEW j \in Shards
             PROVE  CompletionRan(r, l, j)
  BY Zenon DEF CompletionsRan
<1>1. tr' = [tr EXCEPT ![s][k][i] = t]
  BY Zenon DEF ShardWritten
<1>2. CASE r = s /\ l = k /\ j = i
  <2>1. tr'[r][l][j] = t
    BY <1>0, <1>1, <1>2
  <2> QED
    BY <1>2, <2>1, Zenon DEF ShardWritten, CompletionRan
<1>3. CASE ~(r = s /\ l = k /\ j = i)
  <2>1. tr'[r][l][j] = tr[r][l][j]
    BY <1>0, <1>1, <1>3
  <2> QED
    BY <2>1, Zenon DEF CompletionRan
<1> QED
  BY <1>2, <1>3, Zenon

\* The reconciler writes Completed to a shard that ran.
LEMMA WrittenCompletions ==
  ASSUME TypeOK, NEW s \in Spokes, NEW k \in LoadTests, NEW i \in Shards, ReplaySteps(s, k, i)
  PROVE  /\ CompletionsRan
         /\ UNCHANGED done \/ (tr[s][k][i] # NoReplay /\ done' = done \cup {<<k, tr[s][k][i].run, i>>})
<1>0. tr \in [Spokes -> [LoadTests -> [Shards -> TrafficReplay \cup {NoReplay}]]]
  BY Zenon DEF TypeOK, SpokeTypeOK, Replays
<1>1. tr[s][k][i] \in TrafficReplay
  <2>1. tr[s][k][i] # NoReplay
    BY Zenon
       DEF ReplaySteps, ReplayProgress, ReplayFinish, ReplayResource, ReplayDelete, Age,
           ReplayFails, Runnable
  <2> QED
    BY <1>0, <2>1
<1>2. tr[s][k][i] # NoReplay
  BY <1>1, NoReplayAssumption, Zenon
<1>3. ASSUME NEW t, t \in Progressed(tr[s][k][i]) \cup Finished(tr[s][k][i]), WritePhase(s, k, i, t)
      PROVE  /\ ShardWritten(s, k, i, t)
             /\ UNCHANGED done \/ done' = done \cup {<<k, tr[s][k][i].run, i>>}
  <2>1. t.run = tr[s][k][i].run
    BY <1>1, <1>3, Zenon DEF Progressed, Finished, TrafficReplay
  <2> QED
    BY <1>3, <2>1, Zenon DEF WritePhase, ShardWritten
<1>4. CASE ReplayProgress(s, k, i) \/ ReplayFinish(s, k, i)
  BY <1>2, <1>3, <1>4, WrittenShard, Zenon DEF ReplayProgress, ReplayFinish, ReplayStep
<1>5. CASE ReplayDelete(s, k, i)
  <2>1. ShardWritten(s, k, i, NoReplay) /\ UNCHANGED done
    BY <1>5, Zenon DEF ReplayDelete, ShardWritten
  <2> QED
    BY <1>2, <2>1, WrittenShard, Zenon
<1>6. CASE ReplayFails(s, k, i) \/ \E age : Age(s, k, i, age)
  <2>1. PICK t : /\ tr' = [tr EXCEPT ![s][k][i] = t] /\ UNCHANGED done
                 /\ \/ t = [tr[s][k][i] EXCEPT !.age = "old"]
                    \/ t = [tr[s][k][i] EXCEPT !.finalizer = TRUE]
    BY <1>6, Zenon DEF ReplayFails, Age
  <2>2. t.phase = tr[s][k][i].phase /\ t.run = tr[s][k][i].run
    BY <1>1, <2>1, Zenon DEF TrafficReplay
  <2>3. ShardWritten(s, k, i, t)
    BY <2>1, <2>2, Zenon DEF ShardWritten
  <2> QED
    BY <1>2, <2>1, <2>3, WrittenShard, Zenon
<1> QED
  BY <1>4, <1>5, <1>6, Zenon DEF ReplaySteps, ReplayResource

\* Every step, seen from the completed TrafficReplays.
LEMMA CompletionSteps ==
  ASSUME TypeOK, [Next]_vars
  PROVE  CompletionsRan /\ DoneStep
<1>1. UNCHANGED spokeVars \/ UNCHANGED tr => CompletionsRan
  BY SameCompletions, Zenon DEF spokeVars
<1>2. UNCHANGED spokeVars \/ UNCHANGED done => DoneStep
  BY Zenon DEF spokeVars, DoneStep
<1>3. CASE \E k \in LoadTests : CreateTest(k) \/ DeleteTest(k)
  BY <1>1, <1>2, <1>3, Zenon DEF CreateTest, DeleteTest
<1>4. CASE HubServes
  BY <1>1, <1>2, <1>4, ListedCompletions, Zenon
     DEF HubServes, CaptureHubReconcile, ListFails, HubRestart, Reconfigure
<1>5. CASE \E s \in Spokes : ProcessSteps(s)
  BY <1>1, <1>2, <1>5, Zenon
     DEF ProcessSteps, SpokeStart, SpokeStartStandalone, SpokeCrash, SpokeExit, RollOut,
         PreviousExits
<1>6. CASE \E s \in Spokes : MessageSteps(s)
  <2>1. UNCHANGED done
    BY <1>6, Zenon
       DEF MessageSteps, ReceiveDirective, LoseDirective, SendHeartbeat, DelayHeartbeat,
           ServeDelayed, LoseDelayed, spokeVars
  <2>2. CompletionsRan
    BY <1>1, <1>6, ListedCompletions, ReceivedCompletions, Zenon
       DEF MessageSteps, LoseDirective, SendHeartbeat, DelayHeartbeat, ServeDelayed, LoseDelayed
  <2> QED
    BY <1>2, <2>1, <2>2, Zenon
<1>7. CASE \E s \in Spokes, k \in LoadTests, i \in Shards : ReplaySteps(s, k, i) /\ UNCHANGED ctlVars
  <2>1. PICK s \in Spokes, k \in LoadTests, i \in Shards : ReplaySteps(s, k, i) /\ UNCHANGED cr
    BY <1>7, Zenon DEF ctlVars
  <2>2. /\ CompletionsRan
        /\ UNCHANGED done \/ (tr[s][k][i] # NoReplay /\ done' = done \cup {<<k, tr[s][k][i].run, i>>})
    BY <2>1, WrittenCompletions, Zenon
  <2> QED
    BY <2>1, <2>2, Zenon DEF DoneStep
<1>8. CASE UNCHANGED vars \/ UNCHANGED <<hubVars, spokeVars, envVars>>
  BY <1>1, <1>2, <1>8, Zenon DEF vars
<1> QED
  BY <1>1, <1>2, <1>3, <1>4, <1>5, <1>6, <1>7, <1>8, NextCases, Zenon

\* Statuses are kept or forgotten.
LEMMA StatusesKept ==
  ASSUME TypeOK,
         \/ UNCHANGED replays \/ StopServer \/ \E k : ClearReplayStatuses(k)
         \/ \E s \in Spokes : RegisterSpoke(s) \/ DeregisterSpoke(s)
  PROVE  StatusesCame
<1>0. replays \in [Spokes -> [LoadTests -> [Shards -> Summary \cup {NoSummary}]]]
  BY Zenon DEF TypeOK, HubTypeOK, Summaries
<1> SUFFICES ASSUME NEW t \in Spokes, NEW l \in LoadTests, NEW j \in Shards
             PROVE  replays'[t][l][j] = replays[t][l][j] \/ replays'[t][l][j] = NoSummary
  BY Zenon DEF StatusesCame, StatusCame
<1>1. CASE StopServer
  BY <1>1, Zenon DEF StopServer, NoSummaries
<1>2. ASSUME NEW k, ClearReplayStatuses(k)
      PROVE  replays'[t][l][j] = replays[t][l][j] \/ replays'[t][l][j] = NoSummary
  BY <1>0, <1>2, Zenon DEF ClearReplayStatuses
<1>3. ASSUME NEW s \in Spokes, RegisterSpoke(s) \/ DeregisterSpoke(s)
      PROVE  replays'[t][l][j] = replays[t][l][j] \/ replays'[t][l][j] = NoSummary
  <2>1. replays' = [replays EXCEPT ![s] = NoSummaries]
    BY <1>3, Zenon DEF RegisterSpoke, DeregisterSpoke
  <2>2. NoSummaries[l][j] = NoSummary
    BY Zenon DEF NoSummaries
  <2> QED
    BY <1>0, <2>1, <2>2, Zenon
<1> QED
  BY <1>1, <1>2, <1>3, Zenon

\* A heartbeat brings what the spoke's TrafficReplays said when it was put together.
LEMMA StatusesBeaten ==
  ASSUME TypeOK, NEW s \in Spokes, NEW sums, Heartbeat(s, sums),
         \/ sums = ReplaySummaries(s)
         \/ sums = beat[s] /\ beat[s] # NoBeat
  PROVE  StatusesCame
<1>0. replays \in [Spokes -> [LoadTests -> [Shards -> Summary \cup {NoSummary}]]]
  BY Zenon DEF TypeOK, HubTypeOK, Summaries
<1> SUFFICES ASSUME NEW t \in Spokes, NEW l \in LoadTests, NEW j \in Shards
             PROVE  StatusCame(t, l, j)
  BY Zenon DEF StatusesCame
<1>1. \/ replays'[t][l][j] = replays[t][l][j]
      \/ t = s /\ sums[l][j] # NoSummary /\ replays'[t][l][j] = sums[l][j]
  BY <1>0, Zenon DEF Heartbeat, Upsert
<1>2. CASE sums = ReplaySummaries(s)
  <2>1. sums[l][j] = SummaryOf(tr[s][l][j])
    BY <1>2, Zenon DEF ReplaySummaries
  <2>2. sums[l][j] # NoSummary => tr[s][l][j] # NoReplay
    BY <2>1, Zenon DEF SummaryOf
  <2> QED
    BY <1>1, <2>1, <2>2, Zenon DEF StatusCame
<1>3. CASE sums = beat[s] /\ beat[s] # NoBeat
  BY <1>1, <1>3, Zenon DEF StatusCame
<1> QED
  BY <1>2, <1>3, Zenon

\* The reconciler reports what it wrote.
LEMMA StatusesReported ==
  ASSUME TypeOK, NEW s \in Spokes, NEW k \in LoadTests, NEW i \in Shards, ReplaySteps(s, k, i)
  PROVE  StatusesCame
<1>0. /\ replays \in [Spokes -> [LoadTests -> [Shards -> Summary \cup {NoSummary}]]]
      /\ tr \in [Spokes -> [LoadTests -> [Shards -> TrafficReplay \cup {NoReplay}]]]
  BY Zenon DEF TypeOK, HubTypeOK, SpokeTypeOK, Summaries, Replays
<1>1. UNCHANGED hubVars => StatusesCame
  BY StatusesKept, Zenon DEF hubVars
<1>2. ASSUME NEW t, WritePhase(s, k, i, t), ReportReplayStatus(s, k, i, SummaryOf(t))
      PROVE  StatusesCame
  <2>1. replays' = [replays EXCEPT ![s][k][i] = SummaryOf(t)] /\ tr' = [tr EXCEPT ![s][k][i] = t]
    BY <1>2, Zenon DEF WritePhase, ReportReplayStatus
  <2>2. replays'[s][k][i] = SummaryOf(t) /\ tr'[s][k][i] = t
    BY <1>0, <2>1
  <2>3. ASSUME NEW r \in Spokes, NEW l \in LoadTests, NEW j \in Shards, ~(r = s /\ l = k /\ j = i)
        PROVE  replays'[r][l][j] = replays[r][l][j]
    BY <1>0, <2>1, <2>3
  <2> QED
    <3>1. t = NoReplay => SummaryOf(t) = NoSummary
      BY Zenon DEF SummaryOf
    <3>2. StatusCame(s, k, i)
      BY <2>2, <3>1, Zenon DEF StatusCame
    <3>3. ASSUME NEW r \in Spokes, NEW l \in LoadTests, NEW j \in Shards, ~(r = s /\ l = k /\ j = i)
          PROVE  StatusCame(r, l, j)
      BY <2>3, <3>3, Zenon DEF StatusCame
    <3> QED
      BY <3>2, <3>3, Zenon DEF StatusesCame
<1> QED
  BY <1>1, <1>2, Zenon
     DEF ReplaySteps, ReplayProgress, ReplayFinish, ReplayStep, Reports, ReplayResource,
         ReplayDelete, Age, ReplayFails

\* Every step, seen from the statuses the hub holds.
LEMMA StatusSteps ==
  ASSUME TypeOK, [Next]_vars
  PROVE  StatusesCame
<1>1. UNCHANGED hubVars \/ UNCHANGED replays => StatusesCame
  BY StatusesKept, Zenon DEF hubVars
<1>2. CASE \E k \in LoadTests : CreateTest(k) \/ DeleteTest(k) \/ PassBegins(k)
  BY <1>1, <1>2, Zenon
     DEF CreateTest, DeleteTest, PassBegins, ReconcileFinalizer, ReconcileDenied, ReconcilePending,
         ReconcilePlan, ReconcileResume, ReconcileDelete, ReconcileDeleteNoServer
<1>3. CASE PassContinues
  <2>1. SendStart \/ SendStop => UNCHANGED replays
    BY Zenon DEF SendStart, SendStop, Send, queueDirective, hubVars
  <2>2. UpdateStatus \/ BeginAbort \/ FinishAbort => UNCHANGED hubVars
    BY Zenon DEF UpdateStatus, BeginAbort, FinishAbort
  <2>3. ClearStopped => UNCHANGED hubVars \/ ClearReplayStatuses(rec.test)
    BY Zenon DEF ClearStopped
  <2> QED
    BY <1>1, <1>3, <2>1, <2>2, <2>3, StatusesKept, Zenon DEF PassContinues, FinishDelete, UpdateFails
<1>4. CASE HubServes
  BY <1>1, <1>4, StatusesKept, Zenon
     DEF HubServes, CaptureHubReconcile, ListFails, HubRestart, Reconfigure
<1>5. CASE \E s \in Spokes : ProcessSteps(s)
  BY <1>1, <1>5, StatusesKept, Zenon
     DEF ProcessSteps, SpokeStart, SpokeStartStandalone, SpokeCrash, SpokeExit, RollOut,
         PreviousExits
<1>6. CASE \E s \in Spokes : MessageSteps(s)
  BY <1>1, <1>6, StatusesBeaten, Zenon
     DEF MessageSteps, ReceiveDirective, WatchDirectives, LoseDirective, SendHeartbeat,
         DelayHeartbeat, ServeDelayed, LoseDelayed, HeartbeatExpires
<1>7. CASE \E s \in Spokes, k \in LoadTests, i \in Shards : ReplaySteps(s, k, i)
  BY <1>7, StatusesReported, Zenon
<1>8. CASE UNCHANGED vars \/ UNCHANGED <<hubVars, spokeVars, envVars>>
  BY <1>1, <1>8, Zenon DEF vars
<1> QED
  BY <1>2, <1>3, <1>4, <1>5, <1>6, <1>7, <1>8, NextCases, Zenon

\* Every step, seen from the heartbeats on their way.
LEMMA BeatSteps ==
  ASSUME TypeOK, [Next]_vars
  PROVE  BeatsCame
<1>0. beat \in [Spokes -> Summaries \cup {NoBeat}]
  BY Zenon DEF TypeOK, SpokeTypeOK
<1>1. UNCHANGED spokeVars \/ UNCHANGED beat => BeatsCame
  BY Zenon DEF spokeVars, BeatsCame, BeatCame
<1>2. ASSUME NEW s \in Spokes, beat' = [beat EXCEPT ![s] = NoBeat]
      PROVE  BeatsCame
  BY <1>0, <1>2, Zenon DEF BeatsCame, BeatCame
<1>3. ASSUME NEW s \in Spokes, beat' = [beat EXCEPT ![s] = ReplaySummaries(s)]
      PROVE  BeatsCame
  <2>1. ASSUME NEW k \in LoadTests, NEW i \in Shards, ReplaySummaries(s)[k][i] # NoSummary
        PROVE  tr[s][k][i] # NoReplay /\ ReplaySummaries(s)[k][i] = SummaryOf(tr[s][k][i])
    BY <2>1, Zenon DEF ReplaySummaries, SummaryOf
  <2>2. ASSUME NEW r \in Spokes
        PROVE  (r = s /\ beat'[r] = ReplaySummaries(s)) \/ beat'[r] = beat[r]
    BY <1>0, <1>3, Zenon
  <2>3. ASSUME NEW r \in Spokes, NEW k \in LoadTests, NEW i \in Shards
        PROVE  BeatCame(r, k, i)
    BY <2>1, <2>2, Zenon DEF BeatCame
  <2> QED
    BY <2>3, Zenon DEF BeatsCame
<1>4. CASE \E k \in LoadTests : CreateTest(k) \/ DeleteTest(k)
  BY <1>1, <1>4, Zenon DEF CreateTest, DeleteTest
<1>5. CASE HubServes
  BY <1>1, <1>5, Zenon DEF HubServes, CaptureHubReconcile, ListFails, HubRestart, Reconfigure
<1>6. CASE \E s \in Spokes : ProcessSteps(s)
  BY <1>1, <1>6, Zenon
     DEF ProcessSteps, SpokeStart, SpokeStartStandalone, SpokeCrash, SpokeExit, RollOut,
         PreviousExits
<1>7. CASE \E s \in Spokes : MessageSteps(s)
  BY <1>1, <1>2, <1>3, <1>7, Zenon
     DEF MessageSteps, ReceiveDirective, LoseDirective, SendHeartbeat, DelayHeartbeat, ServeDelayed,
         LoseDelayed
<1>8. CASE \E s \in Spokes, k \in LoadTests, i \in Shards : ReplaySteps(s, k, i)
  <2>1. ASSUME NEW s \in Spokes, NEW k \in LoadTests, NEW i \in Shards, ReplaySteps(s, k, i)
        PROVE  UNCHANGED beat
    BY <2>1, Zenon
       DEF ReplaySteps, ReplayProgress, ReplayFinish, ReplayStep, WritePhase, ReplayResource,
           ReplayDelete, Age, ReplayFails
  <2> QED
    BY <1>1, <1>8, <2>1, Zenon
<1>9. CASE UNCHANGED vars \/ UNCHANGED <<hubVars, spokeVars, envVars>>
  BY <1>1, <1>9, Zenon DEF vars
<1> QED
  BY <1>1, <1>4, <1>5, <1>6, <1>7, <1>8, <1>9, NextCases, Zenon

LEMMA ProvenanceStep ==
  ASSUME TypeOK, [Next]_vars
  PROVE  Provenance
  BY CompletionSteps, StatusSteps, BeatSteps, Zenon DEF Provenance
=============================================================================
