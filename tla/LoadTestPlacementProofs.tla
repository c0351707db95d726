----------------------- MODULE LoadTestPlacementProofs -----------------------
(***************************************************************************)
(* What the steps of LoadTestSystem do to the channels, the TrafficReplays *)
(* and the pass in progress, whatever invariant is to be proved, and where *)
(* shards run: what a step may do to the stored load tests and to the pass *)
(* in progress, and the inductive invariant Placement.                     *)
(* LoadTestSafetyProofs draws the theorems.                                *)
(***************************************************************************)
EXTENDS LoadTestSystem, TLAPS

(***************************************************************************)
(* Facts about the constants that take induction over sets to prove.       *)
(* LoadTestSafetyProofs proves them (ConstantFactsHold); the lemmas before *)
(* it assume them where they need them.                                    *)
(***************************************************************************)
ConstantFacts ==
    /\ \A S \in SUBSET Spokes : planDistribution(S) \subseteq Assignments
    /\ \A S \in SUBSET Shards : S # {} => First(S) \in S
    /\ \A S \in SUBSET Spokes : S # {} => FirstSpoke(S) \in S

\* A plan for some spokes has shards, and when as many statuses as a plan has
\* shards come each from the spoke its shard is assigned to, every shard has
\* one (PlanFactsHold).
PlanFacts ==
    /\ \A S \in SUBSET Spokes : S # {} => \A p \in planDistribution(S) : DOMAIN p # {}
    /\ \A plan \in Assignments, P \in SUBSET (Spokes \X Shards) :
          (/\ Cardinality(P) = Cardinality(DOMAIN plan)
           /\ \A p \in P : p[2] \in DOMAIN plan /\ plan[p[2]] = p[1])
              => \A i \in DOMAIN plan : \E p \in P : p[2] = i

-----------------------------------------------------------------------------
(***************************************************************************)
(* Every step is one of these; proofs of invariants go through them.       *)
(***************************************************************************)
PassBegins(k) ==
    \/ ReconcileFinalizer(k) \/ ReconcileDenied(k) \/ ReconcilePending(k)
    \/ ReconcilePlan(k) \/ ReconcileResume(k)
    \/ ReconcileDelete(k) \/ ReconcileDeleteNoServer(k)

PassContinues ==
    \/ SendStart \/ UpdateStatus \/ BeginAbort
    \/ SendStop \/ FinishAbort \/ FinishDelete \/ UpdateFails

HubServes == CaptureHubReconcile \/ ListFails \/ HubRestart \/ Reconfigure

ProcessSteps(s) ==
    \/ SpokeStart(s) \/ SpokeStartStandalone(s) \/ PreviousExits(s)
    \/ "SpokeCrash" \in Events /\ SpokeCrash(s)
    \/ "SpokeExit" \in Events /\ SpokeExit(s)
    \/ "RollOut" \in Events /\ RollOut(s)

MessageSteps(s) ==
    \/ ReceiveDirective(s) \/ SendHeartbeat(s) \/ DelayHeartbeat(s)
    \/ ServeDelayed(s) \/ LoseDelayed(s)
    \/ "LoseDirective" \in Events /\ LoseDirective(s)
    \/ HeartbeatExpires(s) /\ UNCHANGED spokeVars

ReplaySteps(s, k, i) ==
    \/ ReplayProgress(s, k, i) \/ ReplayFinish(s, k, i) \/ ReplayResource(s, k, i)
    \/ ReplayFails(s, k, i)

EnvSame == UNCHANGED runs /\ (faults' = faults \/ faults' = faults + 1)

\* Next, split by who acts, as the proofs are.
LEMMA NextCases ==
  ASSUME Next
  PROVE  \/ \E k \in LoadTests : CreateTest(k)
         \/ \E k \in LoadTests : DeleteTest(k)
         \/ \E k \in LoadTests : PassBegins(k) /\ UNCHANGED spokeVars /\ EnvSame
         \/ PassContinues /\ UNCHANGED spokeVars /\ EnvSame
         \/ \E k \in LoadTests : /\ (CacheSync(k) \/ MaxDurationExceeded(k))
                                  /\ UNCHANGED <<hubVars, spokeVars, envVars>>
         \/ HubServes /\ EnvSame
         \/ \E s \in Spokes : ProcessSteps(s) /\ UNCHANGED ctlVars /\ EnvSame
         \/ \E s \in Spokes : MessageSteps(s) /\ UNCHANGED ctlVars /\ EnvSame
         \/ \E s \in Spokes, k \in LoadTests, i \in Shards :
               ReplaySteps(s, k, i) /\ UNCHANGED ctlVars /\ EnvSame
<1> USE DEF EnvSame, envVars, Fault
<1>1. CASE \E k \in LoadTests : CreateTest(k) \/ DeleteTest(k)
  BY <1>1, Zenon
<1>2. CASE Hub
  BY <1>2, Zenon
     DEF Hub, Reconcile, PassBegins, PassContinues, HubServes, CaptureHubReconcile, ListFails,
              HubRestart, Reconfigure
<1>3. ASSUME NEW s \in Spokes, SpokeProcess(s), UNCHANGED ctlVars
      PROVE  ProcessSteps(s) /\ UNCHANGED ctlVars /\ EnvSame
  BY <1>3, Zenon DEF SpokeProcess, ProcessSteps
<1>4. ASSUME NEW s \in Spokes, SpokeMessages(s), UNCHANGED ctlVars
      PROVE  MessageSteps(s) /\ UNCHANGED ctlVars /\ EnvSame
  BY <1>4, Zenon DEF SpokeMessages, MessageSteps
<1>5. ASSUME NEW s \in Spokes, NEW k \in LoadTests, NEW i \in Shards,
             \/ ReplayProgress(s, k, i)
             \/ ReplayFinish(s, k, i)
             \/ ReplayResource(s, k, i) /\ UNCHANGED <<ctlVars, envVars>>
             \/ Fault("ReplayFails") /\ ReplayFails(s, k, i) /\ UNCHANGED ctlVars
      PROVE  ReplaySteps(s, k, i) /\ UNCHANGED ctlVars /\ EnvSame
  BY <1>5, Zenon DEF ReplaySteps, ReplayProgress, ReplayFinish, ReplayStep
<1> QED
  BY <1>1, <1>2, <1>3, <1>4, <1>5, Zenon DEF Next

-----------------------------------------------------------------------------
(***************************************************************************)
(* Channels as sequences.  Follows(q, r): r holds nothing that q did not   *)
(* hold, and what had a STOP behind it in q still has it in r.             *)
(***************************************************************************)
Stop(k) == [action |-> "STOP", test |-> k]

StopAfter(q, n, k) == \E m \in DOMAIN q : m > n /\ q[m] = Stop(k)

Follows(q, r) ==
    \A n \in DOMAIN r : \E m \in DOMAIN q :
        r[n] = q[m] /\ \A k \in LoadTests : StopAfter(q, m, k) => StopAfter(r, n, k)

ChannelsFollow == \A s \in Spokes : Follows(directives[s], directives'[s])

\* A channel that is read or emptied.
LEMMA FollowsShorter ==
  ASSUME NEW q \in Seq(Directive), NEW r,
         r = q \/ r = << >> \/ (q # << >> /\ r = Tail(q))
  PROVE  Follows(q, r)
<1>1. CASE r = q
  BY <1>1, Zenon DEF Follows
<1>2. CASE r = << >>
  BY <1>2 DEF Follows
<1>3. CASE q # << >> /\ r = Tail(q)
  <2> SUFFICES ASSUME NEW n \in DOMAIN r
               PROVE  /\ n + 1 \in DOMAIN q /\ r[n] = q[n + 1]
                      /\ \A k \in LoadTests : StopAfter(q, n + 1, k) => StopAfter(r, n, k)
    BY Zenon DEF Follows
  <2>1. n \in 1 .. Len(q) - 1 /\ DOMAIN r = 1 .. Len(q) - 1 /\ DOMAIN q = 1 .. Len(q)
    BY <1>3
  <2>2. \A m \in 1 .. Len(q) - 1 : r[m] = q[m + 1]
    BY <1>3
  <2>3. ASSUME NEW m \in 1 .. Len(q), m > n + 1
        PROVE  m - 1 \in 1 .. Len(q) - 1 /\ m - 1 > n /\ r[m - 1] = q[m]
    BY <2>1, <2>2, <2>3
  <2>4. ASSUME NEW k \in LoadTests, StopAfter(q, n + 1, k)
        PROVE  StopAfter(r, n, k)
    BY <2>1, <2>3, <2>4, Zenon DEF StopAfter
  <2> QED
    BY <2>1, <2>2, <2>4
<1> QED
  BY <1>1, <1>2, <1>3, Zenon

\* A channel that a directive is appended to.
LEMMA FollowsAppend ==
  ASSUME NEW q \in Seq(Directive), NEW d, NEW n \in DOMAIN Append(q, d)
  PROVE  \/ /\ n \in DOMAIN q /\ Append(q, d)[n] = q[n]
            /\ \A k \in LoadTests : StopAfter(q, n, k) \/ d = Stop(k) => StopAfter(Append(q, d), n, k)
         \/ n \notin DOMAIN q /\ Append(q, d)[n] = d
<1>1. DOMAIN Append(q, d) = 1 .. Len(q) + 1 /\ DOMAIN q = 1 .. Len(q) /\ Len(q) \in Nat
  OBVIOUS
<1>2. (\A m \in DOMAIN q : Append(q, d)[m] = q[m]) /\ Append(q, d)[Len(q) + 1] = d
  BY <1>1
<1> DEFINE r == Append(q, d)
<1> HIDE DEF r
<1>3. CASE n \in DOMAIN q
  <2>1. n < Len(q) + 1 /\ Len(q) + 1 \in DOMAIN r /\ \A m \in DOMAIN q : m \in DOMAIN r
    BY <1>1, <1>3 DEF r
  <2> QED
    BY <1>2, <1>3, <2>1, Zenon DEF r, StopAfter
<1>4. CASE n = Len(q) + 1
  BY <1>1, <1>2, <1>4
<1> QED
  BY <1>1, <1>3, <1>4

\* Types, as the proofs need them again and again.
LEMMA ReplayTypes ==
  ASSUME TypeOK, NEW s \in Spokes, NEW k \in LoadTests, NEW i \in Shards, tr[s][k][i] # NoReplay
  PROVE  tr[s][k][i] \in TrafficReplay /\ tr[s][k][i].run \in Nat
<1>1. tr[s][k][i] \in TrafficReplay
  BY DEF TypeOK, SpokeTypeOK, Replays
<1> QED
  BY <1>1, Zenon DEF TrafficReplay

\* A pass is over a load test; what it is to visit are spokes.
LEMMA PassTypes ==
  ASSUME TypeOK, rec # Idle
  PROVE  /\ rec.test \in LoadTests /\ rec.lt \in LoadTest /\ rec.lt.run \in Nat
         /\ \A s \in AssignedSpokes(rec.lt) : s \in Spokes
<1>1. rec.test \in LoadTests /\ rec.lt \in LoadTest
  BY Zenon DEF TypeOK, CtlTypeOK, StartPass, StopPass
<1>2. rec.lt.plan \in Assignments /\ rec.lt.run \in Nat
  BY <1>1, Zenon DEF LoadTest
<1> QED
  BY <1>1, <1>2 DEF AssignedSpokes, Assignments

\* Run numbers only grow.
LEMMA NatOrder ==
  ASSUME NEW a \in Nat, NEW b \in Nat, NEW c \in Nat, a <= b, c >= b
  PROVE  a <= c
  OBVIOUS

\* After a send every channel holds what it held, and perhaps the directive sent.
LEMMA SendQueues ==
  ASSUME TypeOK, NEW s, NEW d, NEW code, Send(s, d, code),
         NEW t \in Spokes, NEW n \in DOMAIN directives'[t]
  PROVE  \/ \E m \in DOMAIN directives[t] : directives'[t][n] = directives[t][m]
         \/ t = s /\ directives'[t][n] = d
<1>1. CASE UNCHANGED directives
  BY <1>1, Zenon
<1>2. CASE directives' = [directives EXCEPT ![s] = Append(directives[s], d)]
  <2>1. directives \in [Spokes -> Seq(Directive)]
    BY Zenon DEF TypeOK, HubTypeOK
  <2>2. CASE t = s
    <3>1. directives'[t] = Append(directives[t], d) /\ directives[t] \in Seq(Directive)
      BY <1>2, <2>1, <2>2, Zenon
    <3>2. n \in 1 .. Len(directives[t]) + 1
      BY <3>1
    <3>3. n <= Len(directives[t]) => n \in DOMAIN directives[t] /\ directives'[t][n] = directives[t][n]
      BY <3>1, <3>2
    <3>4. n = Len(directives[t]) + 1 => directives'[t][n] = d
      BY <3>1
    <3> QED
      BY <2>2, <3>1, <3>2, <3>3, <3>4
  <2>3. CASE t # s
    <3>1. directives'[t] = directives[t]
      BY <1>2, <2>1, <2>3, Zenon
    <3> QED
      BY <3>1, Zenon
  <2> QED
    BY <2>2, <2>3, Zenon
<1> QED
  BY <1>1, <1>2, Zenon DEF Send, queueDirective, hubVars

-----------------------------------------------------------------------------
(***************************************************************************)
(* TrafficReplays.                                                         *)
(***************************************************************************)
\* No TrafficReplay is created, and none that is being deleted comes back.
SameReplay(t, u) == u.run = t.run /\ (t.deleting => u.deleting)

ReplaysKept == \A s \in Spokes, k \in LoadTests, i \in Shards :
                  tr'[s][k][i] # NoReplay =>
                      tr[s][k][i] # NoReplay /\ SameReplay(tr[s][k][i], tr'[s][k][i])

\* Unchanged TrafficReplays are an allowed change.
LEMMA ReplaysUnchanged ==
  ASSUME UNCHANGED tr
  PROVE  ReplaysKept
  BY Zenon DEF ReplaysKept, SameReplay

\* A TrafficReplay that ages is the same TrafficReplay.
LEMMA AgeKeepsReplay ==
  ASSUME NEW t \in TrafficReplay, NEW a
  PROVE  SameReplay(t, [t EXCEPT !.age = a])
  BY Zenon DEF TrafficReplay, SameReplay

\* Publishing the list creates no TrafficReplay.
LEMMA ListedKept ==
  ASSUME TypeOK, CaptureHubReconcile
  PROVE  ReplaysKept
<1>0. tr \in [Spokes -> [LoadTests -> [Shards -> TrafficReplay \cup {NoReplay}]]]
  BY Zenon DEF TypeOK, SpokeTypeOK, Replays
<1> SUFFICES ASSUME NEW s \in Spokes, NEW k \in LoadTests, NEW i \in Shards,
                    tr'[s][k][i] # NoReplay
             PROVE  tr[s][k][i] # NoReplay /\ SameReplay(tr[s][k][i], tr'[s][k][i])
  BY Zenon DEF ReplaysKept
<1>1. tr[s][k][i] # NoReplay => tr[s][k][i] \in TrafficReplay
  BY <1>0
<1>2. \/ tr'[s][k][i] = tr[s][k][i]
      \/ tr[s][k][i] # NoReplay /\ tr'[s][k][i] = [tr[s][k][i] EXCEPT !.age = "listed"]
  BY Zenon DEF CaptureHubReconcile, Listed
<1>3. tr[s][k][i] # NoReplay =>
          SameReplay(tr[s][k][i], [tr[s][k][i] EXCEPT !.age = "listed"])
  BY <1>1, AgeKeepsReplay, Zenon
<1> QED
  BY <1>2, <1>3, Zenon DEF SameReplay

\* Deleting a TrafficReplay leaves its run.
LEMMA DeleteKeepsReplay ==
  ASSUME NEW t \in TrafficReplay \cup {NoReplay}, Delete(t) # NoReplay
  PROVE  t # NoReplay /\ SameReplay(t, Delete(t)) /\ Delete(t).deleting
  BY Zenon DEF Delete, TrafficReplay, SameReplay

\* The orphan collector creates no TrafficReplay.
LEMMA CollectKept ==
  ASSUME TypeOK, NEW s \in Spokes, OnHeartbeatResponse(s)
  PROVE  ReplaysKept
<1>0. tr \in [Spokes -> [LoadTests -> [Shards -> TrafficReplay \cup {NoReplay}]]]
  BY Zenon DEF TypeOK, SpokeTypeOK, Replays
<1> SUFFICES ASSUME NEW t \in Spokes, NEW k \in LoadTests, NEW i \in Shards,
                    tr'[t][k][i] # NoReplay
             PROVE  tr[t][k][i] # NoReplay /\ SameReplay(tr[t][k][i], tr'[t][k][i])
  BY Zenon DEF ReplaysKept
<1>1. tr'[t][k][i] = tr[t][k][i] \/ tr'[t][k][i] = Delete(tr[t][k][i])
  BY <1>0, Zenon DEF OnHeartbeatResponse, Collect
<1>2. tr[t][k][i] \in TrafficReplay \cup {NoReplay}
  BY <1>0
<1> QED
  BY <1>1, <1>2, DeleteKeepsReplay, Zenon DEF SameReplay

\* TrafficReplays make progress, age and go; none is created.
LEMMA ReplayStepsKept ==
  ASSUME TypeOK, NEW s \in Spokes, NEW k \in LoadTests, NEW i \in Shards, ReplaySteps(s, k, i)
  PROVE  UNCHANGED <<server, registered, directives, proc, terminating>> /\ ReplaysKept
<1>0. tr \in [Spokes -> [LoadTests -> [Shards -> TrafficReplay \cup {NoReplay}]]]
  BY Zenon DEF TypeOK, SpokeTypeOK, Replays
<1>1. UNCHANGED <<server, registered, directives, proc, terminating>>
  BY Zenon
     DEF ReplaySteps, ReplayProgress, ReplayFinish, ReplayStep, WritePhase, Reports,
                       ReportReplayStatus, ReplayResource, ReplayDelete, Age, ReplayFails, hubVars
<1>2. tr[s][k][i] \in TrafficReplay
  <2>1. tr[s][k][i] # NoReplay
    BY Zenon
       DEF ReplaySteps, ReplayProgress, ReplayFinish, ReplayResource, ReplayDelete, Age,
           ReplayFails, Runnable
  <2> QED
    BY <1>0, <2>1
<1>3. PICK t : tr' = [tr EXCEPT ![s][k][i] = t] /\ (t # NoReplay => SameReplay(tr[s][k][i], t))
  <2>1. CASE ReplayProgress(s, k, i)
    <3>1. PICK t \in Progressed(tr[s][k][i]) : tr' = [tr EXCEPT ![s][k][i] = t]
      BY <2>1, Zenon DEF ReplayProgress, ReplayStep, WritePhase
    <3>2. SameReplay(tr[s][k][i], t)
      BY <1>2, Zenon DEF Progressed, TrafficReplay, SameReplay
    <3> QED
      BY <3>1, <3>2, Zenon
  <2>2. CASE ReplayFinish(s, k, i)
    <3>1. PICK t \in Finished(tr[s][k][i]) : tr' = [tr EXCEPT ![s][k][i] = t]
      BY <2>2, Zenon DEF ReplayFinish, ReplayStep, WritePhase
    <3>2. SameReplay(tr[s][k][i], t)
      BY <1>2, Zenon DEF Finished, TrafficReplay, SameReplay
    <3> QED
      BY <3>1, <3>2, Zenon
  <2>3. CASE ReplayDelete(s, k, i)
    BY <2>3, Zenon DEF ReplayDelete
  <2>4. CASE \E age : Age(s, k, i, age)
    <3>1. tr' = [tr EXCEPT ![s][k][i] = [tr[s][k][i] EXCEPT !.age = "old"]]
      BY <2>4, Zenon DEF Age
    <3>2. SameReplay(tr[s][k][i], [tr[s][k][i] EXCEPT !.age = "old"])
      BY <1>2, AgeKeepsReplay, Zenon
    <3> QED
      BY <3>1, <3>2, Zenon
  <2>5. CASE ReplayFails(s, k, i)
    <3>1. tr' = [tr EXCEPT ![s][k][i] = [tr[s][k][i] EXCEPT !.finalizer = TRUE]]
      BY <2>5, Zenon DEF ReplayFails
    <3>2. SameReplay(tr[s][k][i], [tr[s][k][i] EXCEPT !.finalizer = TRUE])
      BY <1>2, Zenon DEF TrafficReplay, SameReplay
    <3> QED
      BY <3>1, <3>2, Zenon
  <2> QED
    BY <2>1, <2>2, <2>3, <2>4, <2>5, Zenon DEF ReplaySteps, ReplayResource
<1>4. tr[s][k][i] # NoReplay
  BY <1>2, NoReplayAssumption, Zenon
<1>5. ReplaysKept
  BY <1>0, <1>3, <1>4 DEF ReplaysKept, SameReplay
<1> QED
  BY <1>1, <1>5, Zenon

-----------------------------------------------------------------------------
(***************************************************************************)
(* Every step, seen from the channels, the TrafficReplays and the pass.    *)
(***************************************************************************)
\* Only a pass puts anything into a channel (queueDirective).
LEMMA ChannelCases ==
  ASSUME TypeOK, [Next]_vars
  PROVE  \/ ChannelsFollow
         \/ SendStart /\ UNCHANGED spokeVars /\ EnvSame
         \/ SendStop /\ UNCHANGED spokeVars /\ EnvSame
<1>1. directives \in [Spokes -> Seq(Directive)]
  BY Zenon DEF TypeOK, HubTypeOK
<1>2. UNCHANGED directives => ChannelsFollow
  BY <1>1, FollowsShorter, Zenon DEF ChannelsFollow
<1>3. ASSUME NEW s \in Spokes, RegisterSpoke(s) \/ DeregisterSpoke(s) \/ WatchDirectives(s) \/ StopServer
      PROVE  ChannelsFollow
  <2> SUFFICES ASSUME NEW t \in Spokes
               PROVE  Follows(directives[t], directives'[t])
    BY Zenon DEF ChannelsFollow
  <2>1. \/ directives'[t] = directives[t] \/ directives'[t] = << >>
        \/ directives[t] # << >> /\ directives'[t] = Tail(directives[t])
    BY <1>1, <1>3, Zenon DEF RegisterSpoke, DeregisterSpoke, WatchDirectives, StopServer
  <2> QED
    BY <1>1, <2>1, FollowsShorter, Zenon
<1>4. CASE \E k \in LoadTests : CreateTest(k) \/ DeleteTest(k) \/ (PassBegins(k) /\ UNCHANGED spokeVars)
  BY <1>2, <1>4, Zenon
     DEF CreateTest, DeleteTest, PassBegins, ReconcileFinalizer, ReconcileDenied, ReconcilePending,
         ReconcilePlan, ReconcileResume, ReconcileDelete, ReconcileDeleteNoServer, hubVars
<1>5. CASE PassContinues /\ UNCHANGED spokeVars /\ EnvSame
  BY <1>2, <1>5, Zenon
     DEF PassContinues, UpdateStatus, BeginAbort, FinishAbort, FinishDelete, UpdateFails,
         ClearStopped, ClearReplayStatuses, hubVars
<1>6. CASE HubServes
  <2>1. StopServer => ChannelsFollow
    BY <1>1, FollowsShorter, Zenon DEF StopServer, ChannelsFollow
  <2> QED
    BY <1>2, <1>6, <2>1, Zenon
       DEF HubServes, CaptureHubReconcile, ListFails, HubRestart, Reconfigure
<1>7. CASE \E s \in Spokes : ProcessSteps(s) \/ MessageSteps(s)
  BY <1>2, <1>3, <1>7, Zenon
     DEF ProcessSteps, SpokeStart, SpokeStartStandalone, SpokeCrash, SpokeExit, RollOut,
         PreviousExits, MessageSteps, ReceiveDirective, LoseDirective, SendHeartbeat,
         DelayHeartbeat, ServeDelayed, LoseDelayed, HeartbeatExpires, Heartbeat, hubVars
<1>8. CASE \E s \in Spokes, k \in LoadTests, i \in Shards : ReplaySteps(s, k, i)
  BY <1>2, <1>8, ReplayStepsKept, Zenon
<1>9. CASE UNCHANGED vars \/ UNCHANGED <<hubVars, spokeVars, envVars>>
  BY <1>2, <1>9, Zenon DEF vars, hubVars
<1> QED
  BY <1>4, <1>5, <1>6, <1>7, <1>8, <1>9, NextCases, Zenon

\* Only a directive makes a spoke create a TrafficReplay (handleStart).
LEMMA ReplayCases ==
  ASSUME TypeOK, [Next]_vars
  PROVE  ReplaysKept \/ \E s \in Spokes : ReceiveDirective(s) /\ UNCHANGED ctlVars /\ EnvSame
<1>1. UNCHANGED spokeVars \/ UNCHANGED tr => ReplaysKept
  BY ReplaysUnchanged, Zenon DEF spokeVars
<1>2. CASE \E k \in LoadTests : CreateTest(k) \/ DeleteTest(k)
  BY <1>1, <1>2, Zenon DEF CreateTest, DeleteTest
<1>3. CASE HubServes
  BY <1>1, <1>3, ListedKept, Zenon DEF HubServes, ListFails, HubRestart, Reconfigure
<1>4. CASE \E s \in Spokes : ProcessSteps(s)
  BY <1>1, <1>4, Zenon
     DEF ProcessSteps, SpokeStart, SpokeStartStandalone, SpokeCrash, SpokeExit, RollOut,
         PreviousExits
<1>5. CASE \E s \in Spokes : MessageSteps(s) /\ UNCHANGED ctlVars /\ EnvSame
  BY <1>1, <1>5, CollectKept, Zenon
     DEF MessageSteps, LoseDirective, SendHeartbeat, DelayHeartbeat, ServeDelayed, LoseDelayed
<1>6. CASE \E s \in Spokes, k \in LoadTests, i \in Shards : ReplaySteps(s, k, i)
  BY <1>6, ReplayStepsKept, Zenon
<1>7. CASE UNCHANGED vars \/ UNCHANGED <<hubVars, spokeVars, envVars>>
  BY <1>1, <1>7, Zenon DEF vars
<1> QED
  BY <1>1, <1>2, <1>3, <1>4, <1>5, <1>6, <1>7, NextCases, Zenon

IsFor(d, k) == d.action = "START" /\ d.test = k

\* What a directive does to the TrafficReplays: START creates one of its own
\* run, STOP marks or removes those of its test.
Received(t, s, k, i) ==
    \/ /\ tr[s][k][i] # NoReplay /\ SameReplay(tr[s][k][i], tr'[s][k][i])
       /\ s = t /\ directives[t][1] = Stop(k) => tr'[s][k][i].deleting
    \/ /\ s = t /\ IsFor(directives[t][1], k) /\ tr'[s][k][i].run = directives[t][1].run
       /\ directives[t][1].shard = i /\ 1 \in DOMAIN directives[t]

\* That is all a directive does.
LEMMA ReceiveEffect ==
  ASSUME TypeOK, NEW t \in Spokes, ReceiveDirective(t),
         NEW s \in Spokes, NEW k \in LoadTests, NEW i \in Shards, tr'[s][k][i] # NoReplay
  PROVE  Received(t, s, k, i)
<1> USE DEF Received
<1> DEFINE d == directives[t][1]
<1>0. tr \in [Spokes -> [LoadTests -> [Shards -> TrafficReplay \cup {NoReplay}]]]
  BY Zenon DEF TypeOK, SpokeTypeOK, Replays
<1>1. d \in Directive /\ d = Head(directives[t]) /\ 1 \in DOMAIN directives[t]
  <2>1. directives[t] \in Seq(Directive) /\ directives[t] # << >>
    BY Zenon DEF ReceiveDirective, WatchDirectives, TypeOK, HubTypeOK
  <2>2. ASSUME NEW q \in Seq(Directive), q # << >>
        PROVE  q[1] \in Directive /\ q[1] = Head(q) /\ 1 \in DOMAIN q
    BY <2>2
  <2> QED
    BY <2>1, <2>2, Zenon
<1> HIDE DEF d
<1>2. tr' = [tr EXCEPT ![t] = IF d.action = "START" THEN handleStart(tr[t], d)
                                                    ELSE handleStop(tr[t], d)]
  BY <1>1, Zenon DEF ReceiveDirective
<1>3. CASE s # t
  BY <1>0, <1>2, <1>3, Zenon DEF SameReplay
<1>4. CASE s = t /\ d.action = "START"
  <2>1. d \in StartDirective
    BY <1>1, <1>4, Zenon DEF Directive, StopDirective
  <2>2. d.test \in LoadTests /\ d.shard \in Shards
    BY <2>1, Zenon DEF StartDirective
  <2>3. tr'[s] = handleStart(tr[s], d)
    BY <1>0, <1>2, <1>4, Zenon
  <2>4. d # Stop(k)
    BY <1>4 DEF Stop
  <2>5. CASE k = d.test /\ i = d.shard /\ tr[s][k][i] = NoReplay
    <3>1. tr'[s][k][i] = NewReplay(d.run)
      BY <1>0, <2>2, <2>3, <2>5 DEF handleStart
    <3>2. tr'[s][k][i].run = d.run
      BY <3>1 DEF NewReplay
    <3> QED
      BY <1>1, <1>4, <2>5, <3>2, Zenon DEF IsFor, d
  <2>6. CASE ~(k = d.test /\ i = d.shard /\ tr[s][k][i] = NoReplay)
    <3>1. tr'[s][k][i] = tr[s][k][i]
      BY <1>0, <2>2, <2>3, <2>6 DEF handleStart
    <3> QED
      BY <2>4, <3>1, Zenon DEF SameReplay, d
  <2> QED
    BY <2>5, <2>6, Zenon
<1>5. CASE s = t /\ d.action # "START"
  <2>1. d.test \in LoadTests
    BY <1>1, <1>5, Zenon DEF Directive, StartDirective, StopDirective
  <2>2. tr'[s] = handleStop(tr[s], d)
    BY <1>0, <1>2, <1>5, Zenon
  <2>3. tr'[s][k][i] = IF k = d.test THEN Delete(tr[s][k][i]) ELSE tr[s][k][i]
    BY <1>0, <2>1, <2>2 DEF handleStop
  <2>4. d = Stop(k) => k = d.test
    BY DEF Stop
  <2>5. tr[s][k][i] \in TrafficReplay \cup {NoReplay}
    BY <1>0
  <2> QED
    BY <2>3, <2>4, <2>5, DeleteKeepsReplay, Zenon DEF SameReplay, d
<1> QED
  BY <1>3, <1>4, <1>5, Zenon

\* A pass that sends a directive, or loses its server, goes on with its object.
LEMMA PassGoesOn ==
  ASSUME TypeOK, rec # Idle, SendStart \/ SendStop \/ Reconfigure
  PROVE  /\ rec'.pc = rec.pc /\ rec'.test = rec.test /\ rec'.lt = rec.lt
         /\ rec'.phase = rec.phase
         /\ rec'.live = rec.live \/ Reconfigure
<1>1. rec \in StartPass \cup StopPass
  BY Zenon DEF TypeOK, CtlTypeOK
<1>2. CASE SendStart
  BY <1>1, <1>2, Zenon DEF SendStart, StartPass, StopPass
<1>3. CASE SendStop
  <2>1. rec \in StopPass
    <3>1. rec.pc \in {"abort", "delete"}
      BY <1>3, Zenon DEF SendStop
    <3> QED
      BY <1>1, <3>1, Zenon DEF StartPass
  <2> DEFINE s == FirstSpoke(rec.todo)
             d == [action |-> "STOP", test |-> rec.test]
  <2>2. PICK code \in Codes :
           /\ Send(s, d, code)
           /\ rec' = [rec EXCEPT !.todo = @ \ {s}, !.delivered = @ /\ code # "ResourceExhausted"]
    BY <1>3, Zenon DEF SendStop
  <2> HIDE DEF s, d
  <2> QED
    BY <2>1, <2>2, Zenon DEF StopPass
<1>4. CASE Reconfigure
  <2>1. /\ rec'.pc = rec.pc /\ rec'.test = rec.test /\ rec'.lt = rec.lt
        /\ rec'.phase = rec.phase
    BY <1>1, <1>4, Zenon DEF Reconfigure, StartPass, StopPass
  <2> QED
    BY <1>4, <2>1, Zenon
<1> QED
  BY <1>2, <1>3, <1>4, Zenon

-----------------------------------------------------------------------------
(***************************************************************************)
(* What a step may do to a stored object: nothing, create it, remove it    *)
(* before it has a finalizer, mark it for deletion, write it without       *)
(* changing its run or an existing plan, or end its run, which takes a     *)
(* missing server or a pass whose STOPs were all accepted.                 *)
(***************************************************************************)
Rewritten(lt, new) ==
    /\ new # Absent
    /\ new.run = lt.run
    /\ new.deleting = lt.deleting
    /\ lt.finalizer => new.finalizer
    /\ new.plan = lt.plan \/ (~Planned(lt) /\ new.finalizer)

Created(k) ==
    /\ cr[k] = Absent
    /\ runs'[k] = runs[k] + 1
    /\ cr'[k].run = runs[k] + 1
    /\ ~Planned(cr'[k])
    /\ ~cr'[k].deleting

Marked(k) ==
    /\ cr'[k] # Absent
    /\ cr'[k].run = cr[k].run
    /\ cr'[k].plan = cr[k].plan
    /\ cr'[k].phase = cr[k].phase
    /\ cr[k].finalizer /\ cr'[k].finalizer /\ cr'[k].deleting

Written(k) ==
    /\ Rewritten(cr[k], cr'[k])
    /\ \/ cr'[k].phase # "Aborted"
       \/ rec # Idle /\ rec.test = k /\ rec.pc # "delete" /\ cr'[k].phase = rec.phase

AllStopped(k) ==
    /\ rec # Idle
    /\ rec.test = k /\ rec.lt = cr[k]
    /\ rec.pc # "start" /\ rec.todo = {} /\ rec.delivered

CrStep(k) ==
    \/ cr'[k] = cr[k]
    \/ Created(k)
    \/ cr[k] # Absent /\ cr'[k] = Absent /\ ~cr[k].finalizer
    \/ cr[k] # Absent /\ Marked(k)
    \/ /\ cr[k] # Absent
       /\ rec = Idle \/ rec' = Idle
       /\ \/ Written(k)
          \/ cr'[k] = Absent /\ ~server
          \/ AllStopped(k) /\ (cr'[k] = Absent \/ Rewritten(cr[k], cr'[k]))

RunsStep(k) == runs'[k] \in Nat /\ runs'[k] >= runs[k]

\* The cache shows the write, or lags.
CacheStep(k) ==
    \/ cache'[k] = cr'[k]
    \/ cache'[k] = cache[k] /\ (CacheLag \/ cr'[k] = cr[k])

CtlSteps == \A k \in LoadTests : CrStep(k) /\ RunsStep(k) /\ CacheStep(k)

(***************************************************************************)
(* What a step may do to the pass: end it, go on with its object, or begin *)
(* one with the object that was read, or that was stored with its plan.    *)
(***************************************************************************)
GoesOn ==
    /\ rec # Idle
    /\ rec'.test = rec.test /\ rec'.lt = rec.lt /\ rec'.phase = rec.phase
    /\ rec'.live = rec.live \/ Reconfigure
    /\ \/ /\ rec'.pc = rec.pc /\ rec'.todo = rec.todo
          /\ rec.pc # "start" => rec'.delivered = rec.delivered
       \/ rec.pc = "start" /\ rec'.pc = "start" /\ rec'.todo \subseteq rec.todo
       \/ rec.pc = "start" /\ rec'.pc = "abort" /\ rec'.todo = AssignedSpokes(rec.lt)
       \/ rec.pc # "start" /\ rec'.pc = rec.pc /\ SendStop

Begun ==
    /\ rec'.test \in LoadTests /\ rec'.lt # Absent /\ rec'.live
    /\ rec'.lt = cr'[rec'.test] \/ (rec'.lt = cache[rec'.test] /\ UNCHANGED cr)
    /\ \/ /\ rec'.pc = "start"
          /\ rec'.test \notin Denied
          /\ rec'.todo \subseteq DOMAIN rec'.lt.plan
          /\ rec'.lt.phase # "Aborted" /\ rec'.phase # "Aborted"
          /\ rec'.lt.finalizer \/ Planned(rec'.lt)
       \/ /\ rec'.pc = "delete"
          /\ rec'.todo = AssignedSpokes(rec'.lt)
          /\ rec'.lt.deleting

PassStep == rec' = Idle \/ GoesOn \/ Begun

\* One object is stored.
LEMMA StoreSteps ==
  ASSUME TypeOK, UNCHANGED runs, NEW k \in LoadTests, NEW lt, Store(k, lt),
         cr'[k] = lt => CrStep(k)
  PROVE  CtlSteps /\ cr'[k] = lt
<1>1. /\ cr' = [cr EXCEPT ![k] = lt]
      /\ (cache' = cache /\ CacheLag) \/ cache' = [cache EXCEPT ![k] = lt]
  BY Zenon DEF Store
<1>2. cr \in [LoadTests -> LoadTest \cup {Absent}] /\ cache \in [LoadTests -> LoadTest \cup {Absent}]
  BY Zenon DEF TypeOK, CtlTypeOK
<1>3. \A j \in LoadTests : RunsStep(j)
  BY DEF TypeOK, RunsStep
<1>4. \A j \in LoadTests : CacheStep(j)
  BY <1>1, <1>2, Zenon DEF CacheStep
<1>5. \A j \in LoadTests : CrStep(j)
  BY <1>1, <1>2, Zenon DEF CrStep
<1> QED
  BY <1>1, <1>2, <1>3, <1>4, <1>5, Zenon DEF CtlSteps

\* Nothing is stored.
LEMMA SameSteps ==
  ASSUME TypeOK, UNCHANGED <<runs, cr>>, UNCHANGED cache \/ cache' = cr
  PROVE  CtlSteps
  BY DEF TypeOK, CtlTypeOK, CtlSteps, CrStep, RunsStep, CacheStep

\* One object is stored unless there is a conflict (Update).
LEMMA UpdateSteps ==
  ASSUME TypeOK, UNCHANGED runs, NEW k \in LoadTests, NEW read, NEW lt, Update(k, read, lt),
         cr[k] = read /\ cr'[k] = lt => CrStep(k)
  PROVE  CtlSteps
<1>1. CASE cr[k] = read
  BY <1>1, StoreSteps, Zenon DEF Update
<1>2. CASE cr[k] # read
  BY <1>2, SameSteps, Zenon DEF Update
<1> QED
  BY <1>1, <1>2, Zenon

\* Users create and delete load tests.
LEMMA UserSteps ==
  ASSUME TypeOK, NEW k \in LoadTests, CreateTest(k) \/ DeleteTest(k)
  PROVE  CtlSteps
<1>1. CASE CreateTest(k)
  <2> DEFINE lt == [run |-> runs[k] + 1, deleting |-> FALSE, finalizer |-> FALSE,
                    phase |-> "", plan |-> NoPlan, aborting |-> FALSE]
  <2>1. /\ cr' = [cr EXCEPT ![k] = lt] /\ cr[k] = Absent
        /\ runs' = [runs EXCEPT ![k] = runs[k] + 1]
        /\ (cache' = cache /\ CacheLag) \/ cache' = [cache EXCEPT ![k] = lt]
    BY <1>1, Zenon DEF CreateTest, Store
  <2>2. lt.run = runs[k] + 1 /\ ~lt.deleting /\ ~Planned(lt)
    BY Zenon DEF Planned, NoPlan
  <2> HIDE DEF lt
  <2>3. runs \in [LoadTests -> Nat] /\ cr \in [LoadTests -> LoadTest \cup {Absent}]
        /\ cache \in [LoadTests -> LoadTest \cup {Absent}]
    BY Zenon DEF TypeOK, CtlTypeOK
  <2>4. \A j \in LoadTests : RunsStep(j)
    BY <2>1, <2>3 DEF RunsStep
  <2>5. \A j \in LoadTests : CacheStep(j)
    BY <2>1, <2>3, Zenon DEF CacheStep
  <2>6. \A j \in LoadTests : cr'[j] = cr[j] \/ Created(j)
    BY <2>1, <2>2, <2>3, Zenon DEF Created
  <2> QED
    BY <2>4, <2>5, <2>6, Zenon DEF CtlSteps, CrStep
<1>2. CASE DeleteTest(k)
  <2> DEFINE lt == IF cr[k].finalizer THEN [cr[k] EXCEPT !.deleting = TRUE] ELSE Absent
  <2>1. cr[k] # Absent /\ Store(k, lt) /\ UNCHANGED runs
    BY <1>2, Zenon DEF DeleteTest, envVars
  <2>2. cr[k] \in LoadTest
    BY <2>1, Zenon DEF TypeOK, CtlTypeOK
  <2>3. ASSUME cr[k].finalizer, cr'[k] = [cr[k] EXCEPT !.deleting = TRUE]
        PROVE  Marked(k)
    <3>1. cr'[k] \in LoadTest
      BY <2>2, <2>3, Zenon DEF LoadTest
    <3> QED
      BY <2>2, <2>3, <3>1, AbsentAssumption, Zenon DEF Marked, LoadTest
  <2>4. cr'[k] = lt => CrStep(k)
    BY <2>1, <2>3, Zenon DEF CrStep
  <2> HIDE DEF lt
  <2> QED
    BY <2>1, <2>4, StoreSteps, Zenon
<1> QED
  BY <1>1, <1>2, Zenon

\* The beginning of a pass writes the object it read, if it writes.
LEMMA BeginSteps ==
  ASSUME ConstantFacts, TypeOK, NEW k \in LoadTests, PassBegins(k), UNCHANGED runs
  PROVE  CtlSteps /\ PassStep
<1> DEFINE read == cache[k]
<1>1. rec = Idle /\ read # Absent /\ read \in LoadTest
  BY Zenon
     DEF PassBegins, ReconcileFinalizer, ReconcileDenied, ReconcilePending, ReconcilePlan,
         ReconcileResume, ReconcileDelete, ReconcileDeleteNoServer, Begin, BeginDelete,
         TypeOK, CtlTypeOK
<1>2. read.plan \in Assignments /\ read.phase \in Phases
  BY <1>1, Zenon DEF LoadTest
<1> DEFINE W(phase, p) == [read EXCEPT !.finalizer = TRUE, !.phase = phase, !.plan = p]
<1>3. \A phase : [read EXCEPT !.finalizer = TRUE, !.phase = phase] = W(phase, read.plan)
  BY <1>1, Zenon DEF LoadTest
<1>4. [read EXCEPT !.finalizer = TRUE] = W(read.phase, read.plan)
  BY <1>1, Zenon DEF LoadTest
<1> HIDE DEF read
<1>5. ASSUME NEW phase \in Phases \ {"Aborted"}, NEW p \in Assignments,
             p = read.plan \/ ~Planned(read)
      PROVE  /\ W(phase, p) # Absent /\ W(phase, p).finalizer
             /\ W(phase, p).phase # "Aborted"
             /\ cr[k] = read /\ cr'[k] = W(phase, p) => CrStep(k)
  <2> DEFINE lt == W(phase, p)
  <2>1. lt \in LoadTest
    BY <1>1, <1>5, Zenon DEF LoadTest
  <2>2. lt # Absent
    BY <2>1, AbsentAssumption, Zenon
  <2>3. /\ lt.run = read.run /\ lt.deleting = read.deleting /\ lt.finalizer /\ lt.plan = p
        /\ lt.phase = phase
    BY <1>1, Zenon DEF LoadTest
  <2> HIDE DEF lt
  <2>4. cr[k] = read /\ cr'[k] = lt => CrStep(k)
    BY <1>1, <1>5, <2>2, <2>3, Zenon DEF CrStep, Written, Rewritten
  <2> QED
    BY <1>5, <2>2, <2>3, <2>4, Zenon DEF lt
<1> HIDE DEF W
<1>6. {"Failed", "Pending", "Distributing"} \subseteq Phases \ {"Aborted"}
  BY Zenon DEF Phases, TerminalPhases, LivePhases
<1>7. CASE ReconcileFinalizer(k)
  <2>1. /\ cr[k] = read /\ Store(k, W(read.phase, read.plan)) /\ rec' = rec
        /\ read.phase \notin TerminalPhases
    BY <1>4, <1>7, Zenon DEF ReconcileFinalizer, Begin, read
  <2>2. read.phase \in Phases \ {"Aborted"}
    BY <1>2, <2>1, Zenon DEF TerminalPhases
  <2>3. cr'[k] = W(read.phase, read.plan) => CrStep(k)
    BY <1>2, <1>5, <2>1, <2>2, Zenon
  <2> QED
    BY <1>1, <2>1, <2>3, StoreSteps, Zenon DEF PassStep
<1>8. CASE ReconcileDenied(k) \/ ReconcilePending(k)
  <2>1. PICK phase \in {"Failed", "Pending"} : Update(k, read, W(phase, read.plan))
    BY <1>3, <1>8, Zenon DEF ReconcileDenied, ReconcilePending, read
  <2>2. phase \in Phases \ {"Aborted"}
    BY <1>6, Zenon
  <2>3. cr[k] = read /\ cr'[k] = W(phase, read.plan) => CrStep(k)
    BY <1>2, <1>5, <2>2, Zenon
  <2>4. rec' = Idle
    BY <1>1, <1>8, Zenon DEF ReconcileDenied, ReconcilePending
  <2> QED
    BY <2>1, <2>3, <2>4, UpdateSteps, Zenon DEF PassStep
<1>9. CASE ReconcileDeleteNoServer(k)
  <2>1. Update(k, read, Absent) /\ rec' = Idle /\ ~server
    BY <1>1, <1>9, Zenon DEF ReconcileDeleteNoServer, read
  <2>2. cr[k] = read /\ cr'[k] = Absent => CrStep(k)
    BY <1>1, <2>1, Zenon DEF CrStep
  <2> QED
    BY <2>1, <2>2, UpdateSteps, Zenon DEF PassStep
<1>10. \A lt : StartShards(k, lt) => /\ rec'.pc = "start" /\ rec'.test = k /\ rec'.lt = lt
                                     /\ rec'.live /\ rec'.todo \subseteq DOMAIN lt.plan
                                     /\ rec'.phase = aggregate(k, lt)
  BY DEF StartShards
<1>11. \A lt : lt.phase # "Aborted" => aggregate(k, lt) # "Aborted"
  BY Zenon DEF aggregate
<1>12. CASE ReconcilePlan(k)
  <2>1. PICK p \in planDistribution(SelectSpokes(TestCells[k], MaxSpokes)) :
           Store(k, W("Distributing", p)) /\ StartShards(k, W("Distributing", p))
    BY <1>12, Zenon DEF ReconcilePlan, W, read
  <2> DEFINE lt == W("Distributing", p)
  <2>2. cr[k] = read /\ ~Planned(read) /\ k \notin Denied
    BY <1>12, Zenon DEF ReconcilePlan, read
  <2>3. SelectSpokes(TestCells[k], MaxSpokes) \in SUBSET Spokes
    BY Zenon DEF TypeOK, HubTypeOK, SelectSpokes, Eligible
  <2>4. p \in Assignments
    BY <2>1, <2>3, Zenon DEF ConstantFacts
  <2>5. "Distributing" \in Phases \ {"Aborted"}
    BY <1>6, Zenon
  <2>6. /\ lt # Absent /\ lt.finalizer /\ lt.phase # "Aborted"
        /\ cr'[k] = lt => CrStep(k)
    BY <1>5, <2>2, <2>4, <2>5, Zenon
  <2>7. CtlSteps /\ cr'[k] = lt
    BY <2>1, <2>6, StoreSteps, Zenon
  <2> QED
    BY <1>10, <1>11, <2>1, <2>2, <2>6, <2>7, Zenon DEF Begun, PassStep
<1>13. CASE ReconcileResume(k)
  <2>1. /\ StartShards(k, read) /\ k \notin Denied /\ Planned(read) /\ UNCHANGED <<cr, cache>>
        /\ read.phase \notin TerminalPhases
    BY <1>13, Zenon DEF ReconcileResume, Begin, read
  <2>2. read.phase # "Aborted"
    BY <2>1, Zenon DEF TerminalPhases
  <2>3. CtlSteps
    BY <2>1, SameSteps, Zenon
  <2>4. Begun
    BY <1>1, <1>10, <1>11, <2>1, <2>2, Zenon DEF Begun, read
  <2> QED
    BY <2>3, <2>4, Zenon DEF PassStep
<1>14. CASE ReconcileDelete(k)
  <2>1. UNCHANGED <<cr, cache>> /\ read.deleting
    BY <1>14, Zenon DEF ReconcileDelete, BeginDelete, read
  <2>2. /\ rec'.pc = "delete" /\ rec'.test = k /\ rec'.lt = read /\ rec'.live
        /\ rec'.todo = AssignedSpokes(read)
    BY <1>14, Zenon DEF ReconcileDelete, read
  <2>3. CtlSteps
    BY <2>1, SameSteps, Zenon
  <2>4. Begun
    BY <1>1, <2>1, <2>2, Zenon DEF Begun, read
  <2> QED
    BY <2>3, <2>4, Zenon DEF PassStep
<1> QED
  BY <1>7, <1>8, <1>9, <1>12, <1>13, <1>14, Zenon DEF PassBegins

\* A pass that goes on writes the object it holds, last of all.
LEMMA ContinueSteps ==
  ASSUME TypeOK, PassContinues, UNCHANGED runs
  PROVE  CtlSteps /\ PassStep
<1>1. rec # Idle /\ rec \in StartPass \cup StopPass
  BY Zenon
     DEF PassContinues, SendStart, UpdateStatus, BeginAbort, SendStop, FinishAbort, FinishDelete,
         UpdateFails, TypeOK, CtlTypeOK
<1>2. rec.test \in LoadTests /\ rec.lt \in LoadTest /\ rec.phase \in Phases
  BY <1>1, Zenon DEF StartPass, StopPass
<1>3. rec.lt # Absent
  BY <1>2, AbsentAssumption, Zenon
<1>4. CASE SendStart
  <2>1. UNCHANGED <<cr, cache>> /\ rec.pc = "start"
    BY <1>4, Zenon DEF SendStart
  <2>2. rec'.todo \subseteq rec.todo
    BY <1>1, <1>4, Zenon DEF SendStart, StartPass, StopPass
  <2>3. GoesOn
    BY <1>1, <1>4, <2>1, <2>2, PassGoesOn, Zenon DEF GoesOn
  <2> QED
    BY <2>1, <2>3, SameSteps, Zenon DEF PassStep
<1>5. CASE SendStop
  <2>1. UNCHANGED <<cr, cache>> /\ rec.pc \in {"abort", "delete"}
    BY <1>5, Zenon DEF SendStop
  <2>2. rec.pc # "start"
    BY <2>1, Zenon
  <2>3. GoesOn
    BY <1>1, <1>5, <2>2, PassGoesOn, Zenon DEF GoesOn
  <2> QED
    BY <2>1, <2>3, SameSteps, Zenon DEF PassStep
<1>6. CASE BeginAbort
  <2>1. UNCHANGED <<cr, cache>> /\ rec.pc = "start"
    BY <1>6, Zenon DEF BeginAbort
  <2>2. GoesOn
    BY <1>1, <1>6, Zenon DEF BeginAbort, GoesOn
  <2> QED
    BY <2>1, <2>2, SameSteps, Zenon DEF PassStep
<1>7. ASSUME NEW phase \in Phases, NEW b \in BOOLEAN, NEW lt,
             lt = [rec.lt EXCEPT !.phase = phase, !.aborting = b]
      PROVE  Rewritten(rec.lt, lt) /\ lt.phase = phase
  <2>1. lt \in LoadTest
    BY <1>2, <1>7, Zenon DEF LoadTest
  <2>2. lt # Absent
    BY <2>1, AbsentAssumption, Zenon
  <2> QED
    BY <1>2, <1>7, <2>2, Zenon DEF LoadTest, Rewritten
<1>8. ASSUME NEW lt, Rewritten(rec.lt, lt), lt.phase = rec.phase, rec.pc # "delete", rec' = Idle,
             Update(rec.test, rec.lt, lt)
      PROVE  CtlSteps
  <2>1. cr[rec.test] = rec.lt /\ cr'[rec.test] = lt => CrStep(rec.test)
    BY <1>1, <1>3, <1>8, Zenon DEF CrStep, Written
  <2> QED
    BY <1>2, <1>8, <2>1, UpdateSteps, Zenon
<1>9. ASSUME NEW lt, lt = Absent \/ Rewritten(rec.lt, lt), rec.pc # "start", rec.todo = {},
             rec.delivered, rec' = Idle, Update(rec.test, rec.lt, lt)
      PROVE  CtlSteps
  <2>1. cr[rec.test] = rec.lt /\ cr'[rec.test] = lt => CrStep(rec.test)
    BY <1>1, <1>3, <1>9, Zenon DEF CrStep, AllStopped
  <2> QED
    BY <1>2, <1>9, <2>1, UpdateSteps, Zenon
<1>10. CASE UpdateStatus
  <2>1. [rec.lt EXCEPT !.phase = rec.phase]
          = [rec.lt EXCEPT !.phase = rec.phase, !.aborting = rec.lt.aborting]
    BY <1>2, Zenon DEF LoadTest
  <2> DEFINE lt == [rec.lt EXCEPT !.phase = rec.phase, !.aborting = rec.lt.aborting]
  <2>2. Update(rec.test, rec.lt, lt) /\ rec' = Idle /\ rec.pc = "start"
    BY <1>10, <2>1, Zenon DEF UpdateStatus
  <2>3. rec.lt.aborting \in BOOLEAN /\ rec.pc # "delete"
    BY <1>2, <2>2, Zenon DEF LoadTest
  <2> HIDE DEF lt
  <2>4. Rewritten(rec.lt, lt) /\ lt.phase = rec.phase
    <3>1. lt = [rec.lt EXCEPT !.phase = rec.phase, !.aborting = rec.lt.aborting]
      BY Zenon DEF lt
    <3> QED
      BY <1>2, <1>7, <2>3, <3>1, Zenon
  <2> QED
    BY <1>8, <2>2, <2>3, <2>4, Zenon DEF PassStep
<1>11. CASE FinishAbort
  <2>1. rec' = Idle /\ rec.pc = "abort" /\ rec.todo = {}
    BY <1>11, Zenon DEF FinishAbort
  <2>2. rec.pc # "delete" /\ rec.pc # "start" /\ "Aborted" \in Phases
    BY <2>1, Zenon DEF Phases, TerminalPhases
  <2>3. CASE rec.delivered
    <3> DEFINE lt == [rec.lt EXCEPT !.phase = "Aborted", !.aborting = FALSE]
    <3>1. Update(rec.test, rec.lt, lt)
      BY <1>11, <2>3, Zenon DEF FinishAbort
    <3>2. Rewritten(rec.lt, lt)
      BY <1>7, <2>2, Zenon
    <3> HIDE DEF lt
    <3> QED
      BY <1>9, <2>1, <2>2, <2>3, <3>1, <3>2, Zenon DEF PassStep
  <2>4. CASE ~rec.delivered
    <3> DEFINE lt == [rec.lt EXCEPT !.phase = rec.phase, !.aborting = TRUE]
    <3>1. Update(rec.test, rec.lt, lt)
      BY <1>11, <2>4, Zenon DEF FinishAbort
    <3>2. Rewritten(rec.lt, lt) /\ lt.phase = rec.phase
      BY <1>2, <1>7, Zenon
    <3> HIDE DEF lt
    <3> QED
      BY <1>8, <2>1, <2>2, <3>1, <3>2, Zenon DEF PassStep
  <2> QED
    BY <2>3, <2>4, Zenon
<1>12. CASE FinishDelete
  <2>1. rec' = Idle /\ rec.pc = "delete" /\ rec.todo = {}
    BY <1>12, Zenon DEF FinishDelete
  <2>2. rec.pc # "start"
    BY <2>1, Zenon
  <2>3. (rec.delivered /\ Update(rec.test, rec.lt, Absent)) \/ UNCHANGED <<cr, cache>>
    BY <1>12, Zenon DEF FinishDelete
  <2> QED
    BY <1>9, <2>1, <2>2, <2>3, SameSteps, Zenon DEF PassStep
<1>13. CASE UpdateFails
  BY <1>13, SameSteps, Zenon DEF UpdateFails, PassStep
<1> QED
  BY <1>4, <1>5, <1>6, <1>10, <1>11, <1>12, <1>13, Zenon DEF PassContinues

\* Whatever happens, the stored objects, the cache and the pass take such steps.
LEMMA ControllerSteps ==
  ASSUME ConstantFacts, TypeOK, [Next]_vars
  PROVE  CtlSteps /\ PassStep
<1>1. EnvSame \/ UNCHANGED envVars => UNCHANGED runs
  BY Zenon DEF EnvSame, envVars
<1>2. UNCHANGED rec => PassStep
  BY Zenon DEF PassStep, GoesOn
<1>3. CASE \E k \in LoadTests : CreateTest(k) \/ DeleteTest(k)
  BY <1>2, <1>3, UserSteps, Zenon DEF CreateTest, DeleteTest
<1>4. CASE \E k \in LoadTests : PassBegins(k) /\ EnvSame
  BY <1>1, <1>4, BeginSteps, Zenon
<1>5. CASE PassContinues /\ EnvSame
  BY <1>1, <1>5, ContinueSteps, Zenon
<1>6. CASE UNCHANGED ctlVars /\ (EnvSame \/ UNCHANGED envVars)
  BY <1>1, <1>2, <1>6, SameSteps, Zenon DEF ctlVars
<1>7. CASE HubRestart /\ EnvSame
  BY <1>1, <1>7, SameSteps, Zenon DEF HubRestart, PassStep
<1>8. CASE Reconfigure /\ EnvSame
  <2>1. UNCHANGED <<cr, cache>>
    BY <1>8, Zenon DEF Reconfigure
  <2>2. rec # Idle => rec'.todo = rec.todo /\ (rec.pc # "start" => rec'.delivered = rec.delivered)
    BY <1>8, Zenon DEF Reconfigure, TypeOK, CtlTypeOK, StartPass, StopPass
  <2>3. rec # Idle => GoesOn
    BY <1>8, <2>2, PassGoesOn, Zenon DEF GoesOn
  <2>4. rec = Idle => rec' = Idle
    BY <1>8, Zenon DEF Reconfigure
  <2> QED
    BY <1>1, <1>8, <2>1, <2>3, <2>4, SameSteps, Zenon DEF PassStep
<1>9. CASE \E k \in LoadTests : (CacheSync(k) \/ MaxDurationExceeded(k)) /\ UNCHANGED envVars
  <2>1. UNCHANGED <<cr, rec>>
    BY <1>9, Zenon DEF CacheSync, MaxDurationExceeded
  <2>2. CtlSteps
    BY <1>1, <1>9, <2>1
       DEF CacheSync, MaxDurationExceeded, TypeOK, CtlTypeOK, CtlSteps, CrStep, RunsStep, CacheStep
  <2> QED
    BY <1>2, <2>1, <2>2, Zenon
<1> QED
  BY <1>3, <1>4, <1>5, <1>6, <1>7, <1>8, <1>9, NextCases, Zenon
     DEF HubServes, CaptureHubReconcile, ListFails, vars

-----------------------------------------------------------------------------
(***************************************************************************)
(* ShardsRunWhereAssigned is about TrafficReplays, but a TrafficReplay is  *)
(* as good as the START it was created from, and the START as good as the  *)
(* object that the pass that sent it had read.  So the inductive invariant *)
(* says the same of queued STARTs, and that the cache and the pass in      *)
(* progress know the plan of the current run if they know one.  Run        *)
(* numbers never exceed the number of creations, so nothing that is left   *)
(* of an earlier run belongs to the next one.                              *)
(***************************************************************************)
Placed(s, stored, run, i) ==
    (stored # Absent /\ stored.run = run) => i \in DOMAIN stored.plan /\ stored.plan[i] = s

SamePlan(stored, lt) == (stored # Absent /\ stored.run = lt.run) => stored.plan = lt.plan

QueuePlaced ==
    \A s \in Spokes : \A n \in DOMAIN directives[s] :
        directives[s][n].action = "START" =>
            /\ directives[s][n].run <= runs[directives[s][n].test]
            /\ Placed(s, cr[directives[s][n].test], directives[s][n].run, directives[s][n].shard)

ReplaysPlaced ==
    \A s \in Spokes, k \in LoadTests, i \in Shards :
        tr[s][k][i] # NoReplay =>
            tr[s][k][i].run <= runs[k] /\ Placed(s, cr[k], tr[s][k][i].run, i)

CrPlaced == \A k \in LoadTests : cr[k] # Absent => cr[k].run <= runs[k]

\* An object that was read earlier is no newer than the stored one of that
\* name, and has the plan of its run, if it has one.
Known(stored, created, lt) ==
    /\ lt.run <= created
    /\ Planned(lt) => SamePlan(stored, lt)

CachePlaced == \A k \in LoadTests : cache[k] # Absent => Known(cr[k], runs[k], cache[k])

PassPlaced ==
    rec # Idle =>
        /\ Known(cr[rec.test], runs[rec.test], rec.lt)
        /\ rec.pc = "start" => rec.todo \subseteq DOMAIN rec.lt.plan

Placement == QueuePlaced /\ ReplaysPlaced /\ CrPlaced /\ CachePlaced /\ PassPlaced

\* An object keeps its run and its plan while it is stored.
LEMMA PlanKept ==
  ASSUME NEW k \in LoadTests, CrStep(k), cr'[k] # Absent
  PROVE  \/ cr[k] = Absent /\ cr'[k].run = runs[k] + 1
         \/ cr[k] # Absent /\ cr'[k].run = cr[k].run /\ (cr'[k].plan = cr[k].plan \/ ~Planned(cr[k]))
  BY Zenon DEF CrStep, Created, Marked, Written, Rewritten

\* A placement stays right while the object takes such steps.
LEMMA PlacedStable ==
  ASSUME NEW k \in LoadTests, NEW s, NEW i, NEW run \in Nat, runs[k] \in Nat,
         CrStep(k), run <= runs[k], Placed(s, cr[k], run, i)
  PROVE  Placed(s, cr'[k], run, i)
  BY PlanKept DEF Placed, Planned

\* A known object stays known.
LEMMA KnownStable ==
  ASSUME NEW k \in LoadTests, NEW lt \in LoadTest, runs[k] \in Nat, CrStep(k), RunsStep(k),
         Known(cr[k], runs[k], lt)
  PROVE  Known(cr'[k], runs'[k], lt)
<1>1. lt.run \in Nat /\ lt.run <= runs'[k]
  BY DEF RunsStep, Known, LoadTest
<1>2. ASSUME Planned(lt), cr'[k] # Absent, cr'[k].run = lt.run
      PROVE  cr'[k].plan = lt.plan
  BY <1>1, <1>2, PlanKept DEF Known, SamePlan, Planned
<1> QED
  BY <1>1, <1>2, Zenon DEF Known, SamePlan

\* Queued STARTs and TrafficReplays have run numbers.
LEMMA QueuedType ==
  ASSUME TypeOK, NEW s \in Spokes, NEW n \in DOMAIN directives[s],
         directives[s][n].action = "START"
  PROVE  directives[s][n] \in StartDirective
<1>1. directives[s] \in Seq(Directive)
  BY Zenon DEF TypeOK, HubTypeOK
<1>2. directives[s][n] \in Directive
  BY <1>1
<1> QED
  BY <1>2, Zenon DEF Directive, StopDirective

\* A START that was queued in the last state is as well placed in the next.
LEMMA StartStays ==
  ASSUME TypeOK, QueuePlaced, CtlSteps, NEW s \in Spokes, NEW n \in DOMAIN directives[s],
         NEW d, d = directives[s][n], d.action = "START"
  PROVE  d.run <= runs'[d.test] /\ Placed(s, cr'[d.test], d.run, d.shard)
<1>1. d.test \in LoadTests /\ d.run \in Nat /\ runs[d.test] \in Nat
  BY QueuedType, Zenon DEF StartDirective, TypeOK
<1>2. d.run <= runs[d.test] /\ Placed(s, cr[d.test], d.run, d.shard)
  BY Zenon DEF QueuePlaced
<1>3. CrStep(d.test) /\ RunsStep(d.test)
  BY <1>1, Zenon DEF CtlSteps
<1>4. d.run <= runs'[d.test]
  BY <1>1, <1>2, <1>3, NatOrder, Zenon DEF RunsStep
<1> QED
  BY <1>1, <1>2, <1>3, <1>4, PlacedStable, Zenon

\* Queued STARTs stay placed: the ones a pass adds are those of the plan it knows.
LEMMA QueueStep ==
  ASSUME ConstantFacts, TypeOK, QueuePlaced, PassPlaced, CtlSteps, [Next]_vars
  PROVE  QueuePlaced'
<1> SUFFICES ASSUME NEW s \in Spokes, NEW n \in DOMAIN directives'[s],
                    directives'[s][n].action = "START"
             PROVE  /\ directives'[s][n].run <= runs'[directives'[s][n].test]
                    /\ Placed(s, cr'[directives'[s][n].test], directives'[s][n].run, directives'[s][n].shard)
  BY Zenon DEF QueuePlaced
<1>1. CASE \E m \in DOMAIN directives[s] : directives'[s][n] = directives[s][m]
  BY <1>1, StartStays, Zenon
<1>2. CASE SendStart /\ EnvSame
  <2> DEFINE i == First(rec.todo)
             d == [action |-> "START", test |-> rec.test, shard |-> i, run |-> rec.lt.run]
  <2>1. rec # Idle /\ rec.pc = "start" /\ rec.todo # {} /\ UNCHANGED <<cr, runs>>
    BY <1>2, Zenon DEF SendStart, EnvSame
  <2>2. rec.todo \in SUBSET Shards /\ rec.lt \in LoadTest
    BY <2>1, Zenon DEF TypeOK, CtlTypeOK, StartPass, StopPass
  <2>3. i \in rec.todo
    BY <2>1, <2>2, Zenon DEF ConstantFacts
  <2>4. PICK code \in Codes : Send(rec.lt.plan[i], d, code)
    BY <1>2, Zenon DEF SendStart
  <2>5. d.test = rec.test /\ d.shard = i /\ d.run = rec.lt.run
    BY Zenon
  <2> HIDE DEF i, d
  <2>6. i \in DOMAIN rec.lt.plan /\ Planned(rec.lt) /\ Known(cr[rec.test], runs[rec.test], rec.lt)
    BY <2>1, <2>3, Zenon DEF PassPlaced, Planned
  <2>7. d.run <= runs'[d.test] /\ Placed(rec.lt.plan[i], cr'[d.test], d.run, d.shard)
    BY <2>1, <2>5, <2>6, Zenon DEF Known, SamePlan, Placed
  <2> QED
    BY <1>1, <2>4, <2>7, SendQueues
<1>3. CASE SendStop
  <2> DEFINE d == [action |-> "STOP", test |-> rec.test]
  <2>1. PICK code \in Codes : Send(FirstSpoke(rec.todo), d, code)
    BY <1>3, Zenon DEF SendStop
  <2>2. d.action # "START"
    BY Zenon
  <2> HIDE DEF d
  <2> QED
    BY <1>1, <2>1, <2>2, SendQueues
<1>4. CASE ChannelsFollow
  BY <1>1, <1>4, Zenon DEF ChannelsFollow, Follows
<1> QED
  BY <1>2, <1>3, <1>4, ChannelCases, Zenon

\* TrafficReplays stay placed: a new one is as good as its START.
LEMMA ReplaysStep ==
  ASSUME TypeOK, QueuePlaced, ReplaysPlaced, CtlSteps, [Next]_vars
  PROVE  ReplaysPlaced'
<1> SUFFICES ASSUME NEW s \in Spokes, NEW k \in LoadTests, NEW i \in Shards,
                    tr'[s][k][i] # NoReplay
             PROVE  tr'[s][k][i].run <= runs'[k] /\ Placed(s, cr'[k], tr'[s][k][i].run, i)
  BY Zenon DEF ReplaysPlaced
<1>1. CASE tr[s][k][i] # NoReplay /\ tr'[s][k][i].run = tr[s][k][i].run
  <2>1. tr[s][k][i].run \in Nat /\ runs[k] \in Nat
    BY <1>1, ReplayTypes, Zenon DEF TypeOK
  <2>2. tr[s][k][i].run <= runs[k] /\ Placed(s, cr[k], tr[s][k][i].run, i)
    BY <1>1, Zenon DEF ReplaysPlaced
  <2>3. CrStep(k) /\ RunsStep(k)
    BY Zenon DEF CtlSteps
  <2>4. tr[s][k][i].run <= runs'[k]
    BY <2>1, <2>2, <2>3, NatOrder, Zenon DEF RunsStep
  <2> QED
    BY <1>1, <2>1, <2>2, <2>3, <2>4, PlacedStable, Zenon
<1>2. CASE ReplaysKept
  BY <1>1, <1>2, Zenon DEF ReplaysKept, SameReplay
<1>3. ASSUME NEW t \in Spokes, ReceiveDirective(t)
      PROVE  tr'[s][k][i].run <= runs'[k] /\ Placed(s, cr'[k], tr'[s][k][i].run, i)
  <2> DEFINE d == directives[t][1]
  <2>0. Received(t, s, k, i)
    BY <1>3, ReceiveEffect, Zenon
  <2> HIDE DEF d
  <2>1. \/ tr[s][k][i] # NoReplay /\ SameReplay(tr[s][k][i], tr'[s][k][i])
        \/ /\ s = t /\ IsFor(d, k) /\ tr'[s][k][i].run = d.run
           /\ d.shard = i /\ 1 \in DOMAIN directives[t]
    BY <2>0, Zenon DEF Received, d
  <2>2. ASSUME s = t, 1 \in DOMAIN directives[t], IsFor(d, k)
        PROVE  d.run <= runs'[d.test] /\ Placed(s, cr'[d.test], d.run, d.shard)
    BY <2>2, StartStays, Zenon DEF IsFor, d
  <2> QED
    BY <1>1, <2>1, <2>2, Zenon DEF SameReplay, IsFor
<1> QED
  BY <1>2, <1>3, ReplayCases, Zenon

\* What the cache and the pass know stays true of the stored objects.
LEMMA ReadStep ==
  ASSUME TypeOK, CrPlaced, CachePlaced, PassPlaced, PassStep, CtlSteps
  PROVE  CrPlaced' /\ CachePlaced' /\ PassPlaced'
<1>1. /\ runs \in [LoadTests -> Nat]
      /\ cr \in [LoadTests -> LoadTest \cup {Absent}]
      /\ cache \in [LoadTests -> LoadTest \cup {Absent}]
  BY Zenon DEF TypeOK, CtlTypeOK
<1>2. \A k \in LoadTests : CrStep(k) /\ RunsStep(k) /\ CacheStep(k)
  BY Zenon DEF CtlSteps
<1>3. CrPlaced'
  <2> SUFFICES ASSUME NEW k \in LoadTests, cr'[k] # Absent
               PROVE  cr'[k].run <= runs'[k]
    BY Zenon DEF CrPlaced
  <2>1. cr[k] # Absent => cr[k].run \in Nat /\ cr[k].run <= runs[k]
    BY <1>1, Zenon DEF CrPlaced, LoadTest
  <2>2. CASE Created(k)
    BY <1>1, <2>2 DEF Created
  <2>3. CASE cr[k] # Absent /\ cr'[k].run = cr[k].run
    BY <1>1, <1>2, <2>1, <2>3 DEF RunsStep
  <2> QED
    BY <1>2, <2>2, <2>3, Zenon DEF CrStep, Marked, Written, Rewritten
<1>4. ASSUME NEW k \in LoadTests, cr'[k] # Absent
      PROVE  Known(cr'[k], runs'[k], cr'[k])
  BY <1>3, <1>4, Zenon DEF CrPlaced, Known, SamePlan
<1>5. ASSUME NEW k \in LoadTests, cache[k] # Absent
      PROVE  Known(cr'[k], runs'[k], cache[k])
  BY <1>1, <1>2, <1>5, KnownStable, Zenon DEF CachePlaced
<1>6. CachePlaced'
  BY <1>2, <1>4, <1>5, Zenon DEF CachePlaced, CacheStep
<1>7. PassPlaced'
  <2> SUFFICES ASSUME rec' # Idle
               PROVE  /\ Known(cr'[rec'.test], runs'[rec'.test], rec'.lt)
                      /\ rec'.pc = "start" => rec'.todo \subseteq DOMAIN rec'.lt.plan
    BY Zenon DEF PassPlaced
  <2>1. CASE GoesOn
    <3>1. rec # Idle /\ rec'.test = rec.test /\ rec'.lt = rec.lt
      BY <2>1, Zenon DEF GoesOn
    <3>2. rec'.pc = "start" => rec.pc = "start" /\ rec'.todo \subseteq rec.todo
      BY <2>1, Zenon DEF GoesOn
    <3>3. rec.test \in LoadTests /\ rec.lt \in LoadTest
      BY <3>1, Zenon DEF TypeOK, CtlTypeOK, StartPass, StopPass
    <3>4. Known(cr'[rec.test], runs'[rec.test], rec.lt)
      BY <1>1, <1>2, <3>1, <3>3, KnownStable, Zenon DEF PassPlaced
    <3> QED
      BY <3>1, <3>2, <3>4, Zenon DEF PassPlaced
  <2>2. CASE Begun
    <3>1. /\ rec'.test \in LoadTests /\ rec'.lt # Absent
          /\ rec'.lt = cache[rec'.test] \/ rec'.lt = cr'[rec'.test]
      BY <2>2, Zenon DEF Begun
    <3>2. rec'.pc = "start" => rec'.todo \subseteq DOMAIN rec'.lt.plan
      BY <2>2, Zenon DEF Begun
    <3> QED
      BY <1>4, <1>5, <3>1, <3>2, Zenon
  <2> QED
    BY <2>1, <2>2, Zenon DEF PassStep
<1> QED
  BY <1>3, <1>6, <1>7, Zenon

\* Nothing is queued, running or stored in the initial states.
LEMMA PlacementInit ==
  ASSUME Init
  PROVE  Placement
<1>1. (\A s \in Spokes : DOMAIN directives[s] = {}) /\ rec = Idle
  BY DEF Init, HubInit, CtlInit
<1>2. \A s \in Spokes, k \in LoadTests, i \in Shards : tr[s][k][i] = NoReplay
  BY Zenon DEF Init, SpokeInit
<1>3. \A k \in LoadTests : cr[k] = Absent /\ cache[k] = Absent
  BY Zenon DEF Init, CtlInit
<1> QED
  BY <1>1, <1>2, <1>3, Zenon
     DEF Placement, QueuePlaced, ReplaysPlaced, CrPlaced, CachePlaced, PassPlaced

\* Every step keeps Placement.
LEMMA PlacementStep ==
  ASSUME ConstantFacts, TypeOK, Placement, [Next]_vars
  PROVE  Placement'
  BY ControllerSteps, QueueStep, ReplaysStep, ReadStep, Zenon DEF Placement

-----------------------------------------------------------------------------
(***************************************************************************)
(* Where completed TrafficReplays, statuses and heartbeats come from:      *)
(* LoadTestTypeProofs proves it of every step (ProvenanceStep).            *)
(***************************************************************************)
CompletionRan(s, k, i) ==
    (tr'[s][k][i] # NoReplay /\ tr'[s][k][i].phase = "Completed") =>
        \/ /\ tr[s][k][i] # NoReplay /\ tr[s][k][i].phase = "Completed"
           /\ tr'[s][k][i].run = tr[s][k][i].run
        \/ <<k, tr'[s][k][i].run, i>> \in done'

CompletionsRan == \A s \in Spokes, k \in LoadTests, i \in Shards : CompletionRan(s, k, i)

DoneStep ==
    \/ UNCHANGED done
    \/ \E s \in Spokes, k \in LoadTests, i \in Shards :
          tr[s][k][i] # NoReplay /\ done' = done \cup {<<k, tr[s][k][i].run, i>>} /\ UNCHANGED cr


StatusCame(s, k, i) ==
    replays'[s][k][i] # NoSummary =>
        \/ replays'[s][k][i] = replays[s][k][i]
        \/ beat[s] # NoBeat /\ replays'[s][k][i] = beat[s][k][i]
        \/ tr[s][k][i] # NoReplay /\ replays'[s][k][i] = SummaryOf(tr[s][k][i])
        \/ tr'[s][k][i] # NoReplay /\ replays'[s][k][i] = SummaryOf(tr'[s][k][i])

StatusesCame == \A s \in Spokes, k \in LoadTests, i \in Shards : StatusCame(s, k, i)

BeatCame(s, k, i) ==
    beat'[s] # NoBeat /\ beat'[s][k][i] # NoSummary =>
        \/ beat[s] # NoBeat /\ beat'[s][k][i] = beat[s][k][i]
        \/ tr[s][k][i] # NoReplay /\ beat'[s][k][i] = SummaryOf(tr[s][k][i])

BeatsCame == \A s \in Spokes, k \in LoadTests, i \in Shards : BeatCame(s, k, i)

Provenance == CompletionsRan /\ DoneStep /\ StatusesCame /\ BeatsCame
=============================================================================
