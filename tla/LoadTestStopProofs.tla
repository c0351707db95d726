-------------------------- MODULE LoadTestStopProofs --------------------------
(***************************************************************************)
(* What a spoke is told and when: denied tests are never started, a START  *)
(* of a run that is over has a STOP behind it, and, while no directive is  *)
(* lost, no shard outlives its run without a STOP on its way.              *)
(* LoadTestSafetyProofs draws the theorems.                                *)
(***************************************************************************)
EXTENDS LoadTestPlacementProofs

-----------------------------------------------------------------------------
(***************************************************************************)
(* Denied tests.  The pass that sends a START has passed the safety gate   *)
(* for that test, so nothing denied is queued, and what is not queued is   *)
(* not created.                                                            *)
(***************************************************************************)
Gated == rec # Idle /\ rec.pc = "start" => rec.test \notin Denied

Denials == DeniedTargetsNeverReplayed /\ Gated

\* What the channels hold after a send of something that is no START of k.
LEMMA SendsNoStart ==
  ASSUME TypeOK, SendStart \/ SendStop, NEW k, SendStart => rec.test # k,
         NEW s \in Spokes, NEW n \in DOMAIN directives'[s], IsFor(directives'[s][n], k)
  PROVE  \E m \in DOMAIN directives[s] : directives'[s][n] = directives[s][m]
<1>1. CASE SendStart
  <2> DEFINE i == First(rec.todo)
             d == [action |-> "START", test |-> rec.test, shard |-> i, run |-> rec.lt.run]
  <2>1. PICK code \in Codes : Send(rec.lt.plan[i], d, code)
    BY <1>1, Zenon DEF SendStart
  <2>2. d.test = rec.test
    BY Zenon
  <2> HIDE DEF i, d
  <2> QED
    BY <1>1, <2>1, <2>2, SendQueues DEF IsFor
<1>2. CASE SendStop
  <2> DEFINE d == [action |-> "STOP", test |-> rec.test]
  <2>1. PICK code \in Codes : Send(FirstSpoke(rec.todo), d, code)
    BY <1>2, Zenon DEF SendStop
  <2>2. d.action # "START"
    BY Zenon
  <2> HIDE DEF d
  <2> QED
    BY <2>1, <2>2, SendQueues DEF IsFor
<1> QED
  BY <1>1, <1>2, Zenon

\* Nothing is queued, running or under way in the initial states.
LEMMA DenialsInit ==
  ASSUME Init
  PROVE  Denials
<1>1. (\A s \in Spokes : DOMAIN directives[s] = {}) /\ rec = Idle
  BY DEF Init, HubInit, CtlInit
<1>2. \A s \in Spokes, k \in LoadTests, i \in Shards : tr[s][k][i] = NoReplay
  BY Zenon DEF Init, SpokeInit
<1> QED
  BY <1>1, <1>2, PolicyAssumption, Zenon DEF Denials, DeniedTargetsNeverReplayed, Gated

\* Every step keeps Denials.
LEMMA DenialsStep ==
  ASSUME ConstantFacts, TypeOK, Denials, [Next]_vars
  PROVE  Denials'
<1>1. Gated'
  BY ControllerSteps, Zenon DEF PassStep, GoesOn, Begun, Denials, Gated
<1> SUFFICES ASSUME NEW s \in Spokes, NEW k \in Denied
             PROVE  /\ \A i \in Shards : tr'[s][k][i] = NoReplay
                    /\ \A n \in DOMAIN directives'[s] : ~IsFor(directives'[s][n], k)
  BY <1>1, Zenon DEF Denials, DeniedTargetsNeverReplayed, IsFor
<1>2. /\ \A n \in DOMAIN directives[s] : ~IsFor(directives[s][n], k)
      /\ \A i \in Shards : tr[s][k][i] = NoReplay
      /\ k \in LoadTests
  BY PolicyAssumption, Zenon DEF Denials, DeniedTargetsNeverReplayed, IsFor
<1>3. ASSUME NEW n \in DOMAIN directives'[s], IsFor(directives'[s][n], k)
      PROVE  FALSE
  <2>1. CASE ChannelsFollow
    BY <1>2, <1>3, <2>1, Zenon DEF ChannelsFollow, Follows
  <2>2. SendStart => rec.test # k
    BY Zenon DEF SendStart, Denials, Gated
  <2>3. CASE SendStart \/ SendStop
    BY <1>2, <1>3, <2>2, <2>3, SendsNoStart, Zenon
  <2> QED
    BY <2>1, <2>3, ChannelCases, Zenon
<1>4. ASSUME NEW i \in Shards
      PROVE  tr'[s][k][i] = NoReplay
  <2>1. CASE ReplaysKept
    BY <1>2, <2>1, Zenon DEF ReplaysKept
  <2>2. ASSUME NEW t \in Spokes, ReceiveDirective(t), tr'[s][k][i] # NoReplay
        PROVE  FALSE
    <3>1. Received(t, s, k, i)
      BY <1>2, <2>2, ReceiveEffect, Zenon
    <3> QED
      BY <1>2, <3>1, Zenon DEF Received
  <2> QED
    BY <2>1, <2>2, ReplayCases, Zenon
<1> QED
  BY <1>3, <1>4, Zenon

-----------------------------------------------------------------------------
(***************************************************************************)
(* STOP behind START.  A run ends when its pass has seen every STOP        *)
(* accepted, so the invariant says what that pass has achieved so far: the *)
(* spokes it has been to have a STOP behind every START of the test        *)
(* (PassStops).  For that to be enough when the run ends, the pass must be *)
(* of the current run (PassCurrent), a planned or deleted object must have *)
(* its finalizer (Finalized), and an unregistered spoke must have nothing  *)
(* queued (Entries), since its STOP counts as accepted.                    *)
(***************************************************************************)
Entries ==
    /\ ~server => registered = {}
    /\ \A s \in Spokes : s \notin registered => DOMAIN directives[s] = {}
    /\ rec # Idle /\ ~rec.live => \A s \in Spokes : DOMAIN directives[s] = {}

Guarded(lt) == Planned(lt) \/ lt.deleting => lt.finalizer

Finalized == \A k \in LoadTests : cr[k] # Absent => Guarded(cr[k])

PassCurrent ==
    rec # Idle =>
        /\ cr[rec.test] # Absent
        /\ cr[rec.test].run = rec.lt.run
        /\ cr[rec.test].plan = rec.lt.plan
        /\ cr[rec.test].finalizer
        /\ rec.pc = "delete" => cr[rec.test].deleting
        /\ rec.pc # "delete" => cr[rec.test].phase # "Aborted" /\ rec.phase # "Aborted"

\* Every START of k in channel q has a STOP behind it.
Stopped(q, k) == \A n \in DOMAIN q : IsFor(q[n], k) => StopAfter(q, n, k)

Sweeping == rec # Idle /\ rec.pc # "start" /\ rec.delivered

PassStops ==
    Sweeping => \A s \in AssignedSpokes(rec.lt) \ rec.todo : Stopped(directives[s], rec.test)

Fresh == ~CacheLag /\ \A k \in LoadTests : cache[k] = cr[k]

Stops == Fresh /\ Entries /\ Finalized /\ PassCurrent /\ PassStops /\ StopFollowsStart

\* A channel that a STOP of the test was appended to, or that only lost directives.
LEMMA StoppedChannels ==
  ASSUME NEW q \in Seq(Directive), NEW k \in LoadTests
  PROVE  /\ Stopped(Append(q, Stop(k)), k)
         /\ \A r : Follows(q, r) /\ Stopped(q, k) => Stopped(r, k)
<1>1. ~IsFor(Stop(k), k)
  BY Zenon DEF IsFor, Stop
<1>2. ASSUME NEW n \in DOMAIN Append(q, Stop(k)), IsFor(Append(q, Stop(k))[n], k)
      PROVE  StopAfter(Append(q, Stop(k)), n, k)
  BY <1>1, <1>2, FollowsAppend
<1>3. Stopped(Append(q, Stop(k)), k)
  BY <1>2, Zenon DEF Stopped
<1> QED
  BY <1>3, Zenon DEF Follows, Stopped

\* What a send does to the channels, and what it says when it does nothing.
LEMMA SendEffect ==
  ASSUME TypeOK, NEW t, NEW d, NEW code, Send(t, d, code)
  PROVE  /\ UNCHANGED <<server, registered>>
         /\ \/ UNCHANGED directives /\ (~rec.live \/ t \notin registered \/ code = "ResourceExhausted")
            \/ /\ rec.live /\ t \in registered /\ t \in Spokes
               /\ directives' = [directives EXCEPT ![t] = Append(directives[t], d)]
<1>1. registered \subseteq Spokes
  BY Zenon DEF TypeOK, HubTypeOK
<1>2. QueueCode(t) = "OK" => t \in registered
  BY Zenon DEF QueueCode
<1>3. QueueCode(t) # "OK" => t \notin registered \/ QueueCode(t) = "ResourceExhausted"
  BY Zenon DEF QueueCode
<1>4. CASE rec.live
  BY <1>1, <1>2, <1>3, <1>4, Zenon DEF Send, queueDirective
<1>5. CASE ~rec.live
  BY <1>5, Zenon DEF Send, hubVars
<1> QED
  BY <1>4, <1>5, Zenon

\* The registry: entries come and go one by one, or all go.
LEMMA RegistryCases ==
  ASSUME TypeOK, [Next]_vars
  PROVE  \/ UNCHANGED registered /\ (server' = server \/ server')
         \/ StopServer
         \/ \E s \in Spokes : RegisterSpoke(s) \/ DeregisterSpoke(s)
<1>1. CASE \E k \in LoadTests : CreateTest(k) \/ DeleteTest(k) \/ PassBegins(k)
  BY <1>1, Zenon
     DEF CreateTest, DeleteTest, PassBegins, ReconcileFinalizer, ReconcileDenied, ReconcilePending,
         ReconcilePlan, ReconcileResume, ReconcileDelete, ReconcileDeleteNoServer, hubVars
<1>2. CASE SendStart \/ SendStop
  <2>1. \E t, d, code : Send(t, d, code)
    BY <1>2, Zenon DEF SendStart, SendStop
  <2> QED
    BY <2>1, SendEffect, Zenon
<1>3. CASE PassContinues /\ ~SendStart /\ ~SendStop
  BY <1>3, Zenon
     DEF PassContinues, UpdateStatus, BeginAbort, FinishAbort, FinishDelete, UpdateFails,
         ClearStopped, ClearReplayStatuses, hubVars
<1>4. CASE HubServes
  BY <1>4, Zenon
     DEF HubServes, CaptureHubReconcile, ListFails, HubRestart, Reconfigure, NewServer
<1>5. CASE \E s \in Spokes : ProcessSteps(s) \/ MessageSteps(s)
  BY <1>5, Zenon
     DEF ProcessSteps, SpokeStart, SpokeStartStandalone, SpokeCrash, SpokeExit, RollOut,
         PreviousExits, MessageSteps, ReceiveDirective, LoseDirective, WatchDirectives,
         SendHeartbeat, DelayHeartbeat, ServeDelayed, LoseDelayed, HeartbeatExpires, Heartbeat,
         hubVars
<1>6. CASE \E s \in Spokes, k \in LoadTests, i \in Shards : ReplaySteps(s, k, i)
  BY <1>6, ReplayStepsKept, Zenon
<1>7. CASE UNCHANGED vars \/ UNCHANGED <<hubVars, spokeVars, envVars>>
  BY <1>7, Zenon DEF vars, hubVars
<1> QED
  BY <1>1, <1>2, <1>3, <1>4, <1>5, <1>6, <1>7, NextCases, Zenon

\* The directive a pass sends, and to whom.
LEMMA PassSends ==
  ASSUME TypeOK, SendStart \/ SendStop
  PROVE  \E t, d, code : Send(t, d, code) /\ (SendStop => t = FirstSpoke(rec.todo))
  BY Zenon DEF SendStart, SendStop

\* An unregistered spoke has nothing queued, and neither has a retired server.
LEMMA EntriesStep ==
  ASSUME ConstantFacts, TypeOK, Entries, [Next]_vars
  PROVE  Entries'
<1>1. ~server' => registered' = {}
  <2>1. CASE UNCHANGED registered /\ (server' = server \/ server')
    BY <2>1, Zenon DEF Entries
  <2>2. ASSUME NEW s \in Spokes, RegisterSpoke(s) \/ DeregisterSpoke(s)
        PROVE  server' = server /\ (server \/ s \in registered)
    BY <2>2, Zenon DEF RegisterSpoke, DeregisterSpoke
  <2>3. ASSUME NEW s \in registered
        PROVE  server
    BY <2>3, Zenon DEF Entries
  <2>4. CASE StopServer
    BY <2>4, Zenon DEF StopServer
  <2> QED
    BY <2>1, <2>2, <2>3, <2>4, RegistryCases, Zenon
<1>2. directives \in [Spokes -> Seq(Directive)]
  BY Zenon DEF TypeOK, HubTypeOK
<1>3. ASSUME NEW s \in Spokes, DOMAIN directives[s] = {}, ChannelsFollow
      PROVE  DOMAIN directives'[s] = {}
  BY <1>3, Zenon DEF ChannelsFollow, Follows
<1>4. ASSUME NEW s \in Spokes, s \notin registered'
      PROVE  DOMAIN directives'[s] = {}
  <2>1. CASE s \notin registered
    <3>1. DOMAIN directives[s] = {}
      BY <2>1, Zenon DEF Entries
    <3>2. CASE SendStart \/ SendStop
      <4>1. PICK t, d, code : Send(t, d, code)
        BY <3>2, PassSends, Zenon
      <4>2. directives'[s] = directives[s]
        BY <1>2, <2>1, <4>1, SendEffect, Zenon
      <4> QED
        BY <3>1, <4>2, Zenon
    <3> QED
      BY <1>3, <3>1, <3>2, ChannelCases, Zenon
  <2>2. CASE s \in registered
    <3>1. directives'[s] = << >>
      BY <1>2, <1>4, <2>2, RegistryCases, Zenon DEF StopServer, RegisterSpoke, DeregisterSpoke
    <3> QED
      BY <3>1
  <2> QED
    BY <2>1, <2>2, Zenon
<1>5. ASSUME rec' # Idle, ~rec'.live, NEW s \in Spokes
      PROVE  DOMAIN directives'[s] = {}
  <2>1. CASE Reconfigure
    BY <2>1 DEF Reconfigure, StopServer
  <2>2. CASE rec # Idle /\ ~rec.live
    <3>1. DOMAIN directives[s] = {}
      BY <2>2, Zenon DEF Entries
    <3>2. CASE SendStart \/ SendStop
      <4>1. PICK t, d, code : Send(t, d, code)
        BY <3>2, PassSends, Zenon
      <4>2. directives' = directives
        BY <2>2, <4>1, SendEffect, Zenon
      <4> QED
        BY <3>1, <4>2, Zenon
    <3> QED
      BY <1>3, <3>1, <3>2, ChannelCases, Zenon
  <2> QED
    BY <1>5, <2>1, <2>2, ControllerSteps, Zenon DEF PassStep, GoesOn, Begun
<1> QED
  BY <1>1, <1>4, <1>5, Zenon DEF Entries

\* A planned or deleted object keeps its finalizer.
LEMMA FinalizedStep ==
  ASSUME Finalized, CtlSteps
  PROVE  Finalized'
<1> SUFFICES ASSUME NEW k \in LoadTests, cr'[k] # Absent
             PROVE  Guarded(cr'[k])
  BY Zenon DEF Finalized
<1>1. cr[k] # Absent => Guarded(cr[k])
  BY Zenon DEF Finalized
<1>2. CASE Created(k)
  BY <1>2, Zenon DEF Created, Guarded
<1>3. CASE Marked(k)
  BY <1>3, Zenon DEF Marked, Guarded
<1>4. CASE cr[k] # Absent /\ Rewritten(cr[k], cr'[k])
  BY <1>1, <1>4, Zenon DEF Rewritten, Guarded, Planned
<1> QED
  BY <1>1, <1>2, <1>3, <1>4, Zenon DEF CtlSteps, CrStep, Written

\* A pass in progress stays the pass of the stored run.
LEMMA PassCurrentStep ==
  ASSUME TypeOK, Fresh, Finalized, Finalized', PassCurrent, CtlSteps, PassStep
  PROVE  PassCurrent'
<1> SUFFICES ASSUME rec' # Idle
             PROVE  /\ cr'[rec'.test] # Absent
                    /\ cr'[rec'.test].run = rec'.lt.run
                    /\ cr'[rec'.test].plan = rec'.lt.plan
                    /\ cr'[rec'.test].finalizer
                    /\ rec'.pc = "delete" => cr'[rec'.test].deleting
                    /\ rec'.pc # "delete" => cr'[rec'.test].phase # "Aborted" /\ rec'.phase # "Aborted"
  BY Zenon DEF PassCurrent
<1>1. CASE GoesOn
  <2> DEFINE k == rec.test
  <2>1. rec # Idle /\ rec'.test = k /\ rec'.lt = rec.lt /\ rec'.phase = rec.phase
    BY <1>1, Zenon DEF GoesOn
  <2>2. rec'.pc = "delete" <=> rec.pc = "delete"
    BY <1>1, Zenon DEF GoesOn
  <2>3. k \in LoadTests
    BY <2>1, Zenon DEF TypeOK, CtlTypeOK, StartPass, StopPass
  <2>4. cr[k] # Absent /\ cr[k].finalizer
    BY <2>1, Zenon DEF PassCurrent
  <2>5. cr'[k] = cr[k] \/ Marked(k)
    BY <2>1, <2>3, <2>4, Zenon DEF CtlSteps, CrStep, Created
  <2> HIDE DEF k
  <2>6. /\ cr'[k] # Absent /\ cr'[k].run = cr[k].run /\ cr'[k].plan = cr[k].plan
        /\ cr'[k].phase = cr[k].phase /\ cr'[k].finalizer /\ (cr[k].deleting => cr'[k].deleting)
    BY <2>4, <2>5, Zenon DEF Marked
  <2> QED
    BY <2>1, <2>2, <2>6, Zenon DEF PassCurrent, k
<1>2. CASE Begun
  <2>1. rec'.test \in LoadTests /\ rec'.lt # Absent /\ rec'.lt = cr'[rec'.test]
    BY <1>2, Zenon DEF Begun, Fresh
  <2>2. cr'[rec'.test].finalizer
    BY <1>2, <2>1, Zenon DEF Begun, Finalized, Guarded
  <2>3. \/ /\ rec'.pc = "start"
           /\ cr'[rec'.test].phase # "Aborted" /\ rec'.phase # "Aborted"
        \/ rec'.pc = "delete" /\ cr'[rec'.test].deleting
    BY <1>2, <2>1, Zenon DEF Begun
  <2> QED
    BY <2>1, <2>2, <2>3, Zenon
<1> QED
  BY <1>1, <1>2, Zenon DEF PassStep

\* A sweep has a STOP behind every START wherever it has been.
LEMMA PassStopsStep ==
  ASSUME ConstantFacts, TypeOK, Entries, PassStops, CtlSteps, PassStep, [Next]_vars
  PROVE  PassStops'
<1>1. directives \in [Spokes -> Seq(Directive)]
  BY Zenon DEF TypeOK, HubTypeOK
<1>2. CASE SendStop
  <2> DEFINE t == FirstSpoke(rec.todo)
             k == rec.test
  <2>1. PICK code \in Codes :
            /\ Send(t, Stop(k), code)
            /\ rec' = [rec EXCEPT !.todo = @ \ {t}, !.delivered = @ /\ code # "ResourceExhausted"]
    BY <1>2, Zenon DEF SendStop, Stop
  <2>2. /\ rec # Idle /\ rec.pc # "start" /\ rec \in StopPass /\ t \in Spokes /\ k \in LoadTests
        /\ rec.lt \in LoadTest
    BY <1>2, Zenon DEF SendStop, ConstantFacts, TypeOK, CtlTypeOK, StartPass, StopPass
  <2>3. rec'.lt = rec.lt /\ rec'.test = k /\ rec'.todo = rec.todo \ {t}
    BY <2>1, <2>2, Zenon DEF StopPass
  <2>4. rec'.delivered => rec.delivered /\ code # "ResourceExhausted"
    BY <2>1, <2>2, Zenon DEF StopPass
  <2> HIDE DEF t, k
  <2> SUFFICES ASSUME rec'.delivered, NEW s \in AssignedSpokes(rec.lt), s \notin rec.todo \/ s = t
               PROVE  Stopped(directives'[s], k)
    BY <2>3, Zenon DEF PassStops, Sweeping, AssignedSpokes
  <2>5. s \in Spokes
    BY <2>2, PassTypes, Zenon
  <2>6. s # t => Stopped(directives[s], k)
    BY <2>2, <2>4, Zenon DEF PassStops, Sweeping, k
  <2>7. CASE UNCHANGED directives /\ (~rec.live \/ t \notin registered)
    <3>1. DOMAIN directives[t] = {}
      BY <2>2, <2>7, Zenon DEF Entries
    <3>2. s = t => Stopped(directives'[s], k)
      BY <2>7, <3>1, Zenon DEF Stopped
    <3> QED
      BY <2>6, <2>7, <3>2, Zenon
  <2>8. CASE directives' = [directives EXCEPT ![t] = Append(directives[t], Stop(k))]
    <3>1. CASE s = t
      <4>1. directives'[s] = Append(directives[t], Stop(k)) /\ directives[t] \in Seq(Directive)
        BY <1>1, <2>2, <2>8, <3>1, Zenon
      <4> QED
        BY <2>2, <4>1, StoppedChannels, Zenon
    <3>2. CASE s # t
      <4>1. directives'[s] = directives[s]
        BY <1>1, <2>5, <2>8, <3>2, Zenon
      <4> QED
        BY <2>6, <3>2, <4>1, Zenon
    <3> QED
      BY <3>1, <3>2, Zenon
  <2> QED
    BY <2>1, <2>4, <2>7, <2>8, SendEffect, Zenon
<1>3. CASE ~SendStop
  <2> SUFFICES ASSUME Sweeping', NEW s \in AssignedSpokes(rec'.lt), s \notin rec'.todo
               PROVE  Stopped(directives'[s], rec'.test)
    BY Zenon DEF PassStops, Sweeping, AssignedSpokes
  <2>1. /\ rec # Idle /\ rec.pc # "start" /\ rec.delivered
        /\ rec'.test = rec.test /\ rec'.lt = rec.lt /\ rec'.todo = rec.todo
    BY <1>3, Zenon DEF Sweeping, PassStep, GoesOn, Begun
  <2>2. rec.test \in LoadTests /\ rec.lt \in LoadTest
    BY <2>1, PassTypes, Zenon
  <2>3. s \in Spokes
    BY <2>1, PassTypes, Zenon
  <2>4. Stopped(directives[s], rec.test)
    BY <2>1, Zenon DEF PassStops, Sweeping
  <2>5. directives[s] \in Seq(Directive)
    BY <1>1, <2>3, Zenon
  <2>6. ~SendStart
    BY <2>1, Zenon DEF SendStart
  <2>7. Follows(directives[s], directives'[s])
    BY <1>3, <2>3, <2>6, ChannelCases, Zenon DEF ChannelsFollow
  <2> QED
    BY <2>1, <2>2, <2>4, <2>5, <2>7, StoppedChannels, Zenon
<1> QED
  BY <1>2, <1>3, Zenon

\* A planned run ends by the hand of a sweep that has been to all of its spokes,
\* or when there is no server.
LEMMA LiveRunEnds ==
  ASSUME TypeOK, Finalized, PassCurrent, NEW k \in LoadTests, CrStep(k), NEW run,
         Live(k, run), Planned(cr[k]),
         ~(cr'[k] # Absent /\ cr'[k].run = run /\ cr'[k].phase # "Aborted")
  PROVE  ~server \/ AllStopped(k)
<1>1. cr[k] # Absent /\ cr[k].run = run /\ cr[k].phase # "Aborted"
  BY Zenon DEF Live
<1>2. cr[k].finalizer
  BY <1>1, Zenon DEF Finalized, Guarded
<1>3. ~Written(k)
  BY <1>1, Zenon DEF Written, Rewritten, PassCurrent
<1>4. ~Created(k) /\ ~Marked(k) /\ cr'[k] # cr[k]
  BY <1>1, Zenon DEF Created, Marked
<1> QED
  BY <1>1, <1>2, <1>3, <1>4, Zenon DEF CrStep

\* What a send adds to a channel.
LEMMA StopFollowsStartStep ==
  ASSUME ConstantFacts, TypeOK, Placement, Stops, CtlSteps, [Next]_vars
  PROVE  StopFollowsStart'
<1> SUFFICES ASSUME NEW s \in Spokes, NEW n \in DOMAIN directives'[s],
                    NEW d, d = directives'[s][n], d.action = "START",
                    ~(cr'[d.test] # Absent /\ cr'[d.test].run = d.run
                      /\ cr'[d.test].phase # "Aborted")
             PROVE  StopAfter(directives'[s], n, d.test)
  BY DEF StopFollowsStart, StopAfter, Stop, Live
<1>0. directives \in [Spokes -> Seq(Directive)]
  BY Zenon DEF TypeOK, HubTypeOK
<1>1. ASSUME NEW m \in DOMAIN directives[s], directives[s][m] = d
      PROVE  StopAfter(directives[s], m, d.test)
  <2>1. CASE ~Live(d.test, d.run)
    BY <1>1, <2>1, Zenon DEF Stops, StopFollowsStart, StopAfter, Stop
  <2>2. CASE Live(d.test, d.run)
    <3>1. d.test \in LoadTests
      BY <1>1, QueuedType, Zenon DEF StartDirective
    <3>2. Placed(s, cr[d.test], d.run, d.shard)
      BY <1>1, Zenon DEF Placement, QueuePlaced
    <3>3. /\ cr[d.test] # Absent /\ d.shard \in DOMAIN cr[d.test].plan
          /\ cr[d.test].plan[d.shard] = s
      BY <2>2, <3>2, Zenon DEF Live, Placed
    <3>4. Planned(cr[d.test])
      BY <3>3, Zenon DEF Planned
    <3>5. ~server \/ AllStopped(d.test)
      BY <2>2, <3>1, <3>4, LiveRunEnds, Zenon DEF Stops, CtlSteps
    <3>6. server
      BY <1>1, Zenon DEF Stops, Entries
    <3>7. /\ Sweeping /\ rec.test = d.test /\ rec.todo = {}
          /\ rec.lt.plan = cr[d.test].plan
      BY <3>5, <3>6, Zenon DEF AllStopped, Sweeping, Stops, PassCurrent
    <3>8. s \in AssignedSpokes(rec.lt) \ rec.todo
      BY <3>3, <3>7, Zenon DEF AssignedSpokes
    <3>9. Stopped(directives[s], d.test)
      BY <3>7, <3>8, Zenon DEF Stops, PassStops
    <3> QED
      BY <1>1, <3>9, Zenon DEF Stopped, IsFor
  <2> QED
    BY <2>1, <2>2, Zenon
<1>2. CASE ChannelsFollow
  <2>1. PICK m \in DOMAIN directives[s] :
            /\ directives'[s][n] = directives[s][m]
            /\ \A k \in LoadTests : StopAfter(directives[s], m, k) => StopAfter(directives'[s], n, k)
    BY <1>2, Zenon DEF ChannelsFollow, Follows
  <2>2. d.test \in LoadTests
    BY <2>1, QueuedType, Zenon DEF StartDirective
  <2> QED
    BY <1>1, <2>1, <2>2, Zenon
<1>3. ASSUME NEW t, NEW e, NEW code, Send(t, e, code), e.action = "START" => d # e
      PROVE  StopAfter(directives'[s], n, d.test)
  <2>1. CASE directives'[s] = directives[s]
    BY <1>1, <2>1, Zenon
  <2>2. CASE directives'[s] = Append(directives[s], e)
    <3>1. directives[s] \in Seq(Directive)
      BY <1>0, Zenon
    <3>2. n \in DOMAIN directives[s] /\ d = directives[s][n]
      BY <1>3, <2>2, <3>1, FollowsAppend
    <3>3. d.test \in LoadTests
      BY <3>2, QueuedType, Zenon DEF StartDirective
    <3>4. StopAfter(directives[s], n, d.test)
      BY <1>1, <3>2, Zenon
    <3> QED
      BY <2>2, <3>1, <3>2, <3>3, <3>4, FollowsAppend
  <2> QED
    BY <1>0, <1>3, <2>1, <2>2, SendEffect
<1>4. CASE SendStart
  <2> DEFINE i == First(rec.todo)
             e == [action |-> "START", test |-> rec.test, shard |-> i, run |-> rec.lt.run]
  <2>1. PICK code \in Codes : Send(rec.lt.plan[i], e, code)
    BY <1>4, Zenon DEF SendStart
  <2>2. e.test = rec.test /\ e.run = rec.lt.run
    BY Zenon
  <2> HIDE DEF i, e
  <2>3. cr' = cr /\ rec # Idle /\ rec.pc # "delete"
    BY <1>4, Zenon DEF SendStart
  <2>4. d # e
    BY <2>2, <2>3, Zenon DEF Stops, PassCurrent
  <2> QED
    BY <1>3, <2>1, <2>4, Zenon
<1>5. CASE SendStop
  <2> DEFINE e == [action |-> "STOP", test |-> rec.test]
  <2>1. PICK code \in Codes : Send(FirstSpoke(rec.todo), e, code)
    BY <1>5, Zenon DEF SendStop
  <2>2. e.action # "START"
    BY Zenon
  <2> HIDE DEF e
  <2> QED
    BY <1>3, <2>1, <2>2, Zenon
<1> QED
  BY <1>2, <1>4, <1>5, ChannelCases, Zenon

\* Nothing is stored, queued or under way in the initial states.
LEMMA StopsInit ==
  ASSUME ~CacheLag, Init
  PROVE  Stops
<1>1. (\A s \in Spokes : DOMAIN directives[s] = {}) /\ registered = {} /\ rec = Idle
  BY DEF Init, HubInit, CtlInit
<1>2. \A k \in LoadTests : cr[k] = Absent /\ cache[k] = Absent
  BY Zenon DEF Init, CtlInit
<1> QED
  BY <1>1, <1>2, Zenon
     DEF Stops, Fresh, Entries, Finalized, PassCurrent, PassStops, Sweeping, StopFollowsStart

\* Every step keeps Stops.
LEMMA StopsStep ==
  ASSUME ConstantFacts, TypeOK, Placement, Stops, [Next]_vars
  PROVE  Stops'
<1>1. CtlSteps /\ PassStep
  BY ControllerSteps, Zenon
<1>2. Fresh'
  BY <1>1, Zenon DEF Stops, Fresh, CtlSteps, CacheStep
<1>3. Finalized'
  BY <1>1, FinalizedStep, Zenon DEF Stops
<1> QED
  BY <1>1, <1>2, <1>3, EntriesStep, PassCurrentStep, PassStopsStep, StopFollowsStartStep, Zenon
     DEF Stops

-----------------------------------------------------------------------------
(***************************************************************************)
(* No orphans.  While no directive is lost, a spoke that has a shard of a  *)
(* test is registered (Joined), so a sweep that has been there has put a   *)
(* STOP into its channel (PassSweeps), and only that STOP itself takes it  *)
(* out again.                                                              *)
(***************************************************************************)
Lossless == Events \cap LossEvents = {}

HasStop(q, k) == \E m \in DOMAIN q : q[m] = Stop(k)

Active(s, k, i) == tr[s][k][i] # NoReplay /\ ~tr[s][k][i].deleting

Joined ==
    /\ terminating = {}
    /\ \A s \in registered : proc[s] # "down"
    /\ \A s \in Spokes, k \in LoadTests, i \in Shards : tr[s][k][i] # NoReplay => s \in registered
    /\ rec # Idle => rec.live

PassSweeps ==
    Sweeping => \A s \in AssignedSpokes(rec.lt) \ rec.todo, i \in Shards :
                    Active(s, rec.test, i) => HasStop(directives[s], rec.test)

Sweeps == Joined /\ PassSweeps /\ OverMeansStopping

ChannelsGrow ==
    \A s \in Spokes, k \in LoadTests : HasStop(directives[s], k) => HasStop(directives'[s], k)

\* A STOP goes only when it is received.
LEMMA StopInTail ==
  ASSUME NEW q \in Seq(Directive), q # << >>, NEW k
  PROVE  /\ HasStop(q, k) => q[1] = Stop(k) \/ HasStop(Tail(q), k)
         /\ StopAfter(q, 1, k) => HasStop(Tail(q), k)
<1>1. ASSUME NEW m \in DOMAIN q, m > 1
      PROVE  m - 1 \in DOMAIN Tail(q) /\ Tail(q)[m - 1] = q[m]
  BY <1>1
<1>2. \A m \in DOMAIN q : m = 1 \/ m > 1
  OBVIOUS
<1> QED
  BY <1>1, <1>2, Zenon DEF HasStop, StopAfter

\* Steps when nothing is lost: a spoke receives, a spoke joins, or channels grow.
LEMMA LosslessCases ==
  ASSUME TypeOK, Lossless, terminating = {}, [Next]_vars
  PROVE  \/ \E s \in Spokes : ReceiveDirective(s) /\ UNCHANGED ctlVars
         \/ \E s \in Spokes : SpokeStart(s)
         \/ /\ UNCHANGED <<registered, terminating>>
            /\ \A s \in Spokes : proc[s] # "down" => proc'[s] # "down"
            /\ ChannelsGrow
            /\ ReplaysKept
<1>0. directives \in [Spokes -> Seq(Directive)] /\ proc \in [Spokes -> {"down", "joined", "standalone"}]
  BY Zenon DEF TypeOK, HubTypeOK, SpokeTypeOK
<1>1. /\ "HubRestart" \notin Events /\ "Reconfigure" \notin Events /\ "SpokeCrash" \notin Events
      /\ "SpokeExit" \notin Events /\ "RollOut" \notin Events /\ "LoseDirective" \notin Events
  BY Zenon DEF Lossless, LossEvents
<1>2. UNCHANGED directives => ChannelsGrow
  BY Zenon DEF ChannelsGrow
<1>3. UNCHANGED spokeVars \/ UNCHANGED tr => ReplaysKept
  BY ReplaysUnchanged, Zenon DEF spokeVars
<1>4. UNCHANGED spokeVars => UNCHANGED <<proc, terminating>>
  BY Zenon DEF spokeVars
<1>5. CASE \E k \in LoadTests : CreateTest(k) \/ DeleteTest(k) \/ (PassBegins(k) /\ UNCHANGED spokeVars)
  BY <1>2, <1>3, <1>4, <1>5, Zenon
     DEF CreateTest, DeleteTest, PassBegins, ReconcileFinalizer, ReconcileDenied, ReconcilePending,
         ReconcilePlan, ReconcileResume, ReconcileDelete, ReconcileDeleteNoServer, hubVars
<1>6. CASE (SendStart \/ SendStop) /\ UNCHANGED spokeVars
  <2>1. PICK t, d, code : Send(t, d, code)
    BY <1>6, PassSends, Zenon
  <2>2. UNCHANGED registered
    BY <2>1, SendEffect, Zenon
  <2>3. ChannelsGrow
    <3>1. ASSUME NEW q \in Seq(Directive), NEW k, HasStop(q, k)
          PROVE  HasStop(Append(q, d), k)
      BY <3>1 DEF HasStop
    <3>2. ASSUME NEW s \in Spokes
          PROVE  directives'[s] = directives[s] \/ directives'[s] = Append(directives[s], d)
      BY <1>0, <2>1, <3>2, SendEffect
    <3> QED
      BY <1>0, <3>1, <3>2, Zenon DEF ChannelsGrow
  <2> QED
    BY <1>3, <1>4, <1>6, <2>2, <2>3, Zenon
<1>7. CASE PassContinues /\ ~SendStart /\ ~SendStop /\ UNCHANGED spokeVars
  BY <1>2, <1>3, <1>4, <1>7, Zenon
     DEF PassContinues, UpdateStatus, BeginAbort, FinishAbort, FinishDelete, UpdateFails,
         ClearStopped, ClearReplayStatuses, hubVars
<1>8. CASE HubServes
  <2>1. CaptureHubReconcile \/ ListFails
    BY <1>1, <1>8, Zenon DEF HubServes, HubRestart, Reconfigure, Fault
  <2>2. UNCHANGED <<registered, directives, proc, terminating>>
    BY <2>1, Zenon DEF CaptureHubReconcile, ListFails, NewServer, spokeVars
  <2>3. ReplaysKept
    BY <1>3, <2>1, ListedKept, Zenon DEF ListFails
  <2> QED
    BY <1>2, <2>2, <2>3, Zenon
<1>9. ASSUME NEW s \in Spokes, ProcessSteps(s)
      PROVE  \/ SpokeStart(s)
             \/ /\ UNCHANGED <<registered, directives, terminating, tr>>
                /\ \A t \in Spokes : proc[t] # "down" => proc'[t] # "down"
  <2>1. SpokeStart(s) \/ SpokeStartStandalone(s)
    BY <1>1, <1>9, Zenon DEF ProcessSteps, PreviousExits
  <2>2. CASE SpokeStartStandalone(s)
    BY <1>0, <2>2, Zenon DEF SpokeStartStandalone, hubVars
  <2> QED
    BY <2>1, <2>2, Zenon
<1>10. ASSUME NEW s \in Spokes, MessageSteps(s), ~ReceiveDirective(s)
       PROVE  UNCHANGED <<registered, directives, proc, terminating>> /\ ReplaysKept
  BY <1>1, <1>3, <1>4, <1>10, CollectKept, Zenon
     DEF MessageSteps, SendHeartbeat, DelayHeartbeat, ServeDelayed, LoseDelayed, HeartbeatExpires,
         Heartbeat, hubVars
<1>11. CASE \E s \in Spokes, k \in LoadTests, i \in Shards : ReplaySteps(s, k, i)
  BY <1>2, <1>11, ReplayStepsKept, Zenon
<1>12. CASE UNCHANGED vars \/ UNCHANGED <<hubVars, spokeVars, envVars>>
  BY <1>2, <1>3, <1>4, <1>12, Zenon DEF vars, hubVars
<1>13. CASE \E s \in Spokes : ProcessSteps(s)
  BY <1>2, <1>3, <1>9, <1>13, Zenon
<1>14. CASE \E s \in Spokes : MessageSteps(s) /\ UNCHANGED ctlVars
  BY <1>2, <1>10, <1>14, Zenon
<1> QED
  BY <1>5, <1>6, <1>7, <1>8, <1>11, <1>12, <1>13, <1>14, NextCases, Zenon

\* Who has a shard is registered, and the server a pass works with is in place.
LEMMA JoinedStep ==
  ASSUME TypeOK, Lossless, Joined, PassStep, [Next]_vars
  PROVE  Joined'
<1>0. proc \in [Spokes -> {"down", "joined", "standalone"}] /\ registered \subseteq Spokes
  BY Zenon DEF TypeOK, HubTypeOK, SpokeTypeOK
<1>1. terminating' = {} /\ (\A s \in registered' : proc'[s] # "down") /\ registered \subseteq registered'
  <2>1. ASSUME NEW s \in Spokes, ReceiveDirective(s)
        PROVE  UNCHANGED <<registered, proc, terminating>>
    BY <2>1, Zenon DEF ReceiveDirective, WatchDirectives
  <2>2. ASSUME NEW s \in Spokes, SpokeStart(s)
        PROVE  /\ UNCHANGED terminating /\ registered' = registered \cup {s}
               /\ proc' = [proc EXCEPT ![s] = "joined"]
    BY <2>2, Zenon DEF SpokeStart, RegisterSpoke
  <2> QED
    BY <1>0, <2>1, <2>2, LosslessCases DEF Joined
<1>2. ASSUME NEW s \in Spokes, NEW k \in LoadTests, NEW i \in Shards, tr'[s][k][i] # NoReplay
      PROVE  s \in registered'
  <2>1. CASE ReplaysKept
    BY <1>1, <1>2, <2>1, Zenon DEF ReplaysKept, Joined
  <2>2. ASSUME NEW t \in Spokes, ReceiveDirective(t)
        PROVE  s \in registered
    <3>1. t \in registered
      BY <2>2, Zenon DEF ReceiveDirective, WatchDirectives
    <3>2. Received(t, s, k, i)
      BY <1>2, <2>2, ReceiveEffect, Zenon
    <3> QED
      BY <3>1, <3>2, Zenon DEF Received, Joined
  <2> QED
    BY <1>1, <2>1, <2>2, ReplayCases, Zenon
<1>3. ~Reconfigure
  BY Zenon DEF Reconfigure, Fault, Lossless, LossEvents
<1>4. rec' # Idle => rec'.live
  BY <1>3, Zenon DEF PassStep, GoesOn, Begun, Joined
<1> QED
  BY <1>1, <1>2, <1>4, Zenon DEF Joined

\* Where an active shard comes from, and what became of the STOP behind it.
LEMMA ActiveStep ==
  ASSUME TypeOK, Lossless, Joined, [Next]_vars,
         NEW s \in Spokes, NEW k \in LoadTests, NEW i \in Shards,
         tr'[s][k][i] # NoReplay, ~tr'[s][k][i].deleting
  PROVE  \/ /\ Active(s, k, i) /\ tr'[s][k][i].run = tr[s][k][i].run
            /\ HasStop(directives[s], k) => HasStop(directives'[s], k)
         \/ /\ UNCHANGED ctlVars /\ 1 \in DOMAIN directives[s] /\ IsFor(directives[s][1], k)
            /\ tr'[s][k][i].run = directives[s][1].run
            /\ StopAfter(directives[s], 1, k) => HasStop(directives'[s], k)
<1>0. directives \in [Spokes -> Seq(Directive)]
  BY Zenon DEF TypeOK, HubTypeOK
<1>1. ASSUME NEW t \in Spokes, ReceiveDirective(t), UNCHANGED ctlVars
      PROVE  \/ /\ Active(s, k, i) /\ tr'[s][k][i].run = tr[s][k][i].run
                /\ HasStop(directives[s], k) => HasStop(directives'[s], k)
             \/ /\ UNCHANGED ctlVars /\ 1 \in DOMAIN directives[s] /\ IsFor(directives[s][1], k)
                /\ tr'[s][k][i].run = directives[s][1].run
                /\ StopAfter(directives[s], 1, k) => HasStop(directives'[s], k)
  <2>1. directives[t] # << >> /\ directives' = [directives EXCEPT ![t] = Tail(directives[t])]
    BY <1>1, Zenon DEF ReceiveDirective, WatchDirectives
  <2>2. s # t => directives'[s] = directives[s]
    BY <1>0, <2>1, Zenon
  <2>3. s = t => directives'[s] = Tail(directives[s]) /\ directives[s] \in Seq(Directive) /\ directives[s] # << >>
    BY <1>0, <2>1, Zenon
  <2>4. s = t => /\ HasStop(directives[s], k) => directives[s][1] = Stop(k) \/ HasStop(directives'[s], k)
                 /\ StopAfter(directives[s], 1, k) => HasStop(directives'[s], k)
    BY <2>3, StopInTail, Zenon
  <2>5. Received(t, s, k, i)
    BY <1>1, ReceiveEffect, Zenon
  <2> QED
    BY <1>1, <2>2, <2>4, <2>5, Zenon DEF Received, Active, SameReplay
<1>2. ASSUME ReplaysKept
      PROVE  Active(s, k, i) /\ tr'[s][k][i].run = tr[s][k][i].run
  BY <1>2, Zenon DEF ReplaysKept, Active, SameReplay
<1>3. CASE ReplaysKept /\ ChannelsGrow
  BY <1>2, <1>3, Zenon DEF ChannelsGrow
<1>4. ASSUME NEW t \in Spokes, SpokeStart(t)
      PROVE  /\ Active(s, k, i) /\ tr'[s][k][i].run = tr[s][k][i].run
             /\ directives'[s] = directives[s]
  <2>1. /\ UNCHANGED tr /\ proc[t] = "down"
        /\ directives' = [directives EXCEPT ![t] = << >>]
    BY <1>4, Zenon DEF SpokeStart, RegisterSpoke
  <2>2. s # t
    BY <2>1, Zenon DEF Joined
  <2>3. directives'[s] = directives[s]
    BY <1>0, <2>1, <2>2, Zenon
  <2> QED
    BY <1>2, <2>1, <2>3, ReplaysUnchanged, Zenon
<1> QED
  BY <1>1, <1>3, <1>4, LosslessCases, Zenon DEF Joined

\* A sweep has a STOP under way to every active shard wherever it has been.
LEMMA PassSweepsStep ==
  ASSUME ConstantFacts, TypeOK, PassStops, Lossless, Joined, PassSweeps, PassStep, [Next]_vars
  PROVE  PassSweeps'
<1>0. directives \in [Spokes -> Seq(Directive)]
  BY Zenon DEF TypeOK, HubTypeOK
<1> SUFFICES ASSUME Sweeping', NEW s \in AssignedSpokes(rec'.lt), s \notin rec'.todo,
                    NEW i \in Shards, tr'[s][rec'.test][i] # NoReplay,
                    ~tr'[s][rec'.test][i].deleting
             PROVE  HasStop(directives'[s], rec'.test)
  BY Zenon DEF PassSweeps, Sweeping, AssignedSpokes, Active, HasStop
<1>1. ASSUME Sweeping, s \in AssignedSpokes(rec.lt) \ rec.todo, rec'.test = rec.test
      PROVE  HasStop(directives'[s], rec'.test)
  <2>1. rec.test \in LoadTests /\ rec.lt \in LoadTest
    BY <1>1, PassTypes, Zenon DEF Sweeping
  <2>2. s \in Spokes
    BY <1>1, PassTypes, Zenon DEF Sweeping
  <2>3. Stopped(directives[s], rec.test)
    BY <1>1, Zenon DEF PassStops
  <2>4. Active(s, rec.test, i) => HasStop(directives[s], rec.test)
    BY <1>1, Zenon DEF PassSweeps
  <2> QED
    BY <1>1, <2>1, <2>2, <2>3, <2>4, ActiveStep, Zenon DEF Stopped
<1>2. CASE SendStop
  <2> DEFINE t == FirstSpoke(rec.todo)
             k == rec.test
  <2>1. PICK code \in Codes :
            /\ Send(t, Stop(k), code) /\ UNCHANGED <<cr, cache, expired>>
            /\ rec' = [rec EXCEPT !.todo = @ \ {t}, !.delivered = @ /\ code # "ResourceExhausted"]
    BY <1>2, Zenon DEF SendStop, Stop
  <2>2. /\ rec # Idle /\ rec.pc # "start" /\ rec \in StopPass /\ t \in Spokes /\ k \in LoadTests
    BY <1>2, Zenon DEF SendStop, ConstantFacts, TypeOK, CtlTypeOK, StartPass, StopPass
  <2>3. rec'.lt = rec.lt /\ rec'.test = k /\ rec'.todo = rec.todo \ {t}
    BY <2>1, <2>2, Zenon DEF StopPass
  <2>4. rec'.delivered => rec.delivered /\ code # "ResourceExhausted"
    BY <2>1, <2>2, Zenon DEF StopPass
  <2> HIDE DEF t, k
  <2>5. Sweeping /\ code # "ResourceExhausted"
    BY <2>2, <2>4, Zenon DEF Sweeping
  <2>6. CASE s # t
    <3>1. s \in AssignedSpokes(rec.lt) \ rec.todo
      BY <2>3, <2>6, Zenon
    <3> QED
      BY <1>1, <2>3, <2>5, <3>1, Zenon DEF k
  <2>7. CASE s = t
    <3>1. s \in registered'
      BY <2>2, <2>3, <2>7, JoinedStep, Zenon DEF Joined
    <3>2. directives' = [directives EXCEPT ![t] = Append(directives[t], Stop(k))]
      BY <2>1, <2>2, <2>5, <2>7, <3>1, SendEffect, Zenon DEF Joined
    <3>3. directives'[t] = Append(directives[t], Stop(k)) /\ directives[t] \in Seq(Directive)
      BY <1>0, <2>2, <3>2, Zenon
    <3>4. ASSUME NEW q \in Seq(Directive)
          PROVE  HasStop(Append(q, Stop(k)), k)
      <4>1. Len(q) + 1 \in DOMAIN Append(q, Stop(k)) /\ Append(q, Stop(k))[Len(q) + 1] = Stop(k)
        OBVIOUS
      <4> QED
        BY <4>1, Zenon DEF HasStop
    <3> QED
      BY <2>3, <2>7, <3>3, <3>4, Zenon
  <2> QED
    BY <2>6, <2>7, Zenon
<1>3. CASE ~SendStop
  <2>1. /\ rec # Idle /\ rec.pc # "start" /\ rec.delivered
        /\ rec'.test = rec.test /\ rec'.lt = rec.lt /\ rec'.todo = rec.todo
    BY <1>3, Zenon DEF Sweeping, PassStep, GoesOn, Begun
  <2> QED
    BY <1>1, <2>1, Zenon DEF Sweeping
<1> QED
  BY <1>2, <1>3, Zenon

\* A shard whose run is over is being deleted or has a STOP coming.
LEMMA OverMeansStoppingStep ==
  ASSUME TypeOK, Placement, Stops, Lossless, Sweeps, CtlSteps, [Next]_vars
  PROVE  OverMeansStopping'
<1> SUFFICES ASSUME NEW s \in Spokes, NEW k \in LoadTests, NEW i \in Shards, NEW run,
                    tr'[s][k][i] # NoReplay, ~tr'[s][k][i].deleting, run = tr'[s][k][i].run,
                    ~(cr'[k] # Absent /\ cr'[k].run = run /\ cr'[k].phase # "Aborted")
             PROVE  HasStop(directives'[s], k)
  BY DEF OverMeansStopping, HasStop, Stop, Live
<1>1. ASSUME Active(s, k, i), run = tr[s][k][i].run
      PROVE  HasStop(directives[s], k)
  <2>1. CASE ~Live(k, run)
    BY <1>1, <2>1, Zenon DEF Sweeps, OverMeansStopping, HasStop, Stop, Active
  <2>2. CASE Live(k, run)
    <3>0. Placed(s, cr[k], run, i)
      BY <1>1, Zenon DEF Active, Placement, ReplaysPlaced
    <3>1. cr[k] # Absent /\ i \in DOMAIN cr[k].plan /\ cr[k].plan[i] = s
      BY <2>2, <3>0, Zenon DEF Live, Placed
    <3>2. Planned(cr[k])
      BY <3>1, Zenon DEF Planned
    <3>3. ~server \/ AllStopped(k)
      BY <2>2, <3>2, LiveRunEnds, Zenon DEF Stops, CtlSteps
    <3>4. s \in registered
      BY <1>1, Zenon DEF Sweeps, Joined, Active
    <3>5. server
      BY <3>4, Zenon DEF Stops, Entries
    <3>6. Sweeping /\ rec.test = k /\ rec.todo = {} /\ rec.lt.plan = cr[k].plan
      BY <3>3, <3>5, Zenon DEF AllStopped, Sweeping, Stops, PassCurrent
    <3>7. s \in AssignedSpokes(rec.lt) \ rec.todo
      BY <3>1, <3>6, Zenon DEF AssignedSpokes
    <3> QED
      BY <1>1, <3>6, <3>7, Zenon DEF Sweeps, PassSweeps
  <2> QED
    BY <2>1, <2>2, Zenon
<1>2. ASSUME UNCHANGED ctlVars, 1 \in DOMAIN directives[s], IsFor(directives[s][1], k),
             run = directives[s][1].run
      PROVE  StopAfter(directives[s], 1, k)
  <2>1. ~Live(k, run)
    BY <1>2, Zenon DEF ctlVars, Live
  <2> QED
    BY <1>2, <2>1, Zenon DEF Stops, StopFollowsStart, StopAfter, Stop, IsFor
<1> QED
  BY <1>1, <1>2, ActiveStep, Zenon DEF Sweeps

\* Nothing runs and nobody is registered in the initial states.
LEMMA SweepsInit ==
  ASSUME Init
  PROVE  Sweeps
<1>1. registered = {} /\ rec = Idle /\ terminating = {}
  BY Zenon DEF Init, HubInit, CtlInit, SpokeInit
<1>2. \A s \in Spokes, k \in LoadTests, i \in Shards : tr[s][k][i] = NoReplay
  BY Zenon DEF Init, SpokeInit
<1> QED
  BY <1>1, <1>2, Zenon DEF Sweeps, Joined, PassSweeps, Sweeping, OverMeansStopping

\* Every step keeps Sweeps while nothing is lost.
LEMMA SweepsStep ==
  ASSUME ConstantFacts, TypeOK, Placement, Stops, Lossless, Sweeps, [Next]_vars
  PROVE  Sweeps'
<1>1. CtlSteps /\ PassStep
  BY ControllerSteps, Zenon
<1> QED
  BY <1>1, JoinedStep, PassSweepsStep, OverMeansStoppingStep, Zenon DEF Sweeps, Stops
=============================================================================
