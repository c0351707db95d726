----------------------- MODULE LoadTestLifecycleProofs -----------------------
(***************************************************************************)
(* The stored load tests behave as LoadTestLifecycle says, and a run that  *)
(* ended as Completed did complete, or counted what an earlier run of its  *)
(* name completed.  LoadTestSafetyProofs draws the theorems.               *)
(***************************************************************************)
EXTENDS LoadTestPlacementProofs, LoadTestRefinement

-----------------------------------------------------------------------------
(***************************************************************************)
(* aggregate counts statuses by the name of the load test.  What it counts *)
(* is worth as much as where it comes from, so the inductive invariant     *)
(* says of every status, stored by the hub or on its way in a heartbeat,   *)
(* and of every TrafficReplay: it belongs to a run that was created, sits  *)
(* on the spoke the plan of that run names, and says Completed only if the *)
(* shard ran.  A pass holds an object it may work on, and the phase it is  *)
(* going to write is justified by the statuses it read.                    *)
(***************************************************************************)
Genuine(s, k, i, t, created, stored, ran) ==
    /\ 1 <= t.run /\ t.run <= created
    /\ Placed(s, stored, t.run, i)
    /\ t.phase = "Completed" => <<k, t.run, i>> \in ran

ReplaysGenuine ==
    \A s \in Spokes, k \in LoadTests, i \in Shards :
        tr[s][k][i] # NoReplay => Genuine(s, k, i, tr[s][k][i], runs[k], cr[k], done)

StatusesGenuine ==
    \A s \in Spokes, k \in LoadTests, i \in Shards :
        replays[s][k][i] # NoSummary => Genuine(s, k, i, replays[s][k][i], runs[k], cr[k], done)

BeatsGenuine ==
    \A s \in Spokes, k \in LoadTests, i \in Shards :
        beat[s] # NoBeat /\ beat[s][k][i] # NoSummary =>
            Genuine(s, k, i, beat[s][k][i], runs[k], cr[k], done)

RunsNumbered ==
    /\ \A k \in LoadTests : cache[k] # Absent => 1 <= cache[k].run
    /\ rec # Idle => 1 <= rec.lt.run
    /\ \A s \in Spokes : \A n \in DOMAIN directives[s] :
          directives[s][n].action = "START" => 1 <= directives[s][n].run

Underway(lt) == ~lt.deleting /\ lt.phase \notin TerminalPhases /\ Planned(lt)

\* Every shard of the run ran, or one of an earlier run of the name did.
AllRan(k, run, plan, ran) ==
    \/ \A i \in DOMAIN plan : <<k, run, i>> \in ran
    \/ \E earlier \in 1 .. run - 1, i \in Shards : <<k, earlier, i>> \in ran

\* The stored object is the latest of its name, nothing was written to it
\* before its finalizer was in place, and it is Completed only if it is.
Sound(k, lt, created, ran) ==
    /\ created <= MaxRuns
    /\ lt # Absent =>
          /\ lt.run = created /\ 1 <= created
          /\ ~lt.finalizer => lt.phase = "" /\ ~Planned(lt)
          /\ lt.phase = "Completed" => AllRan(k, lt.run, lt.plan, ran)

StoredSound == \A k \in LoadTests : Sound(k, cr[k], runs[k], done)

PassJustified ==
    rec # Idle =>
        /\ rec.pc = "delete" => rec.lt.deleting
        /\ rec.pc # "delete" =>
              Underway(rec.lt) /\ rec.phase \in {"Completed", "Failed", "Running", rec.lt.phase}
        /\ (/\ rec.pc # "delete" /\ rec.phase = "Completed"
            /\ cr[rec.test] # Absent /\ cr[rec.test].run = rec.lt.run)
              => AllRan(rec.test, rec.lt.run, rec.lt.plan, done)

Life ==
    /\ ReplaysGenuine /\ StatusesGenuine /\ BeatsGenuine
    /\ RunsNumbered /\ PassJustified /\ StoredSound

-----------------------------------------------------------------------------
(***************************************************************************)
(* What a step does to a stored object, in the terms of the lifecycle.     *)
(***************************************************************************)
NewTest(run) == [run |-> run, deleting |-> FALSE, finalizer |-> FALSE,
                 phase |-> "", plan |-> NoPlan, aborting |-> FALSE]

Creates(k, new) ==
    /\ cr[k] = Absent /\ runs[k] < MaxRuns
    /\ new = NewTest(runs[k] + 1)
    /\ runs' = [runs EXCEPT ![k] = runs[k] + 1]

Marks(k, new) == cr[k] # Absent /\ cr[k].finalizer /\ new = [cr[k] EXCEPT !.deleting = TRUE]

Drops(k, new) == cr[k] # Absent /\ (cr[k].deleting \/ ~cr[k].finalizer) /\ new = Absent

Writes(k, new) ==
    /\ cr[k] # Absent /\ ~cr[k].deleting /\ cr[k].phase \notin TerminalPhases
    /\ new \in LoadTest /\ new.run = cr[k].run /\ ~new.deleting /\ new.finalizer
    /\ \/ /\ new.plan = cr[k].plan
          /\ new.phase \in {cr[k].phase, "Pending"} \/ (k \in Denied /\ new.phase = "Failed")
       \/ ~Planned(cr[k]) /\ Planned(new) /\ new.phase = "Distributing"
       \/ /\ Planned(cr[k]) /\ new.plan = cr[k].plan
          /\ new.phase \in {"Running", "Completed", "Failed", "Aborted"}
          /\ new.phase = "Completed" => AllRan(k, cr[k].run, cr[k].plan, done)

StoredStep ==
    \/ UNCHANGED <<cr, runs>>
    \/ \E k \in LoadTests, new \in LoadTest \cup {Absent} :
          /\ cr' = [cr EXCEPT ![k] = new] /\ UNCHANGED done
          /\ Creates(k, new) \/ ((Marks(k, new) \/ Drops(k, new) \/ Writes(k, new)) /\ UNCHANGED runs)


\* Users create and delete load tests.
LEMMA UserMoves ==
  ASSUME TypeOK, NEW k \in LoadTests, CreateTest(k) \/ DeleteTest(k)
  PROVE  StoredStep
<1>1. CASE CreateTest(k)
  <2>1. /\ cr[k] = Absent /\ runs[k] < MaxRuns /\ cr' = [cr EXCEPT ![k] = NewTest(runs[k] + 1)]
        /\ runs' = [runs EXCEPT ![k] = runs[k] + 1] /\ UNCHANGED done
    BY <1>1, Zenon DEF CreateTest, Store, NewTest, spokeVars
  <2>2. runs[k] + 1 \in Nat
    BY DEF TypeOK
  <2>3. NoPlan \in Assignments
    <3>1. NoPlan \in [{} -> Spokes] /\ {} \in SUBSET Shards
      BY DEF NoPlan
    <3> QED
      BY <3>1, Zenon DEF Assignments
  <2>4. NewTest(runs[k] + 1) \in LoadTest
    BY <2>2, <2>3, Zenon DEF NewTest, LoadTest, Phases
  <2> QED
    BY <2>1, <2>4, Zenon DEF StoredStep, Creates
<1>2. CASE DeleteTest(k)
  <2> DEFINE new == IF cr[k].finalizer THEN [cr[k] EXCEPT !.deleting = TRUE] ELSE Absent
  <2>1. cr[k] # Absent /\ cr' = [cr EXCEPT ![k] = new] /\ UNCHANGED <<runs, done>>
    BY <1>2, Zenon DEF DeleteTest, Store, envVars, spokeVars
  <2>2. cr[k] \in LoadTest
    BY <2>1, Zenon DEF TypeOK, CtlTypeOK
  <2>3. [cr[k] EXCEPT !.deleting = TRUE] \in LoadTest
    BY <2>2, Zenon DEF LoadTest
  <2>4. new \in LoadTest \cup {Absent} /\ (Marks(k, new) \/ Drops(k, new))
    BY <2>1, <2>3, Zenon DEF Marks, Drops
  <2> HIDE DEF new
  <2> QED
    BY <2>1, <2>4, Zenon DEF StoredStep
<1> QED
  BY <1>1, <1>2, Zenon

\* The object a pass updates, unless there is a conflict.
LEMMA UpdateMoves ==
  ASSUME NEW k \in LoadTests, NEW read, NEW new \in LoadTest \cup {Absent}, UNCHANGED <<runs, done>>,
         \/ Store(k, new) /\ cr[k] = read
         \/ Update(k, read, new),
         cr[k] = read => Drops(k, new) \/ Writes(k, new)
  PROVE  StoredStep
  BY Zenon DEF Update, Store, StoredStep

Rewrite(read, phase, p) == [read EXCEPT !.finalizer = TRUE, !.phase = phase, !.plan = p]

\* What the first write of a pass leaves of the object it read.
LEMMA RewriteShape ==
  ASSUME NEW read \in LoadTest, NEW phase \in Phases, NEW p \in Assignments,
         NEW new, new = Rewrite(read, phase, p)
  PROVE  /\ new \in LoadTest /\ new.run = read.run /\ new.deleting = read.deleting /\ new.finalizer
         /\ new.phase = phase /\ new.plan = p
  BY Zenon DEF LoadTest, Rewrite

\* The beginning of a pass.
LEMMA BeginMoves ==
  ASSUME ConstantFacts, PlanFacts, TypeOK, NEW k \in LoadTests, PassBegins(k), UNCHANGED <<runs, done>>
  PROVE  StoredStep
<1> DEFINE read == cache[k]
<1>1. read # Absent /\ read \in LoadTest
  BY Zenon
     DEF PassBegins, ReconcileFinalizer, ReconcileDenied, ReconcilePending, ReconcilePlan,
         ReconcileResume, ReconcileDelete, ReconcileDeleteNoServer, Begin, BeginDelete,
         TypeOK, CtlTypeOK
<1>2. /\ \A phase : [read EXCEPT !.finalizer = TRUE, !.phase = phase] = Rewrite(read, phase, read.plan)
      /\ [read EXCEPT !.finalizer = TRUE] = Rewrite(read, read.phase, read.plan)
      /\ read.phase \in Phases /\ read.plan \in Assignments
  BY <1>1, Zenon DEF LoadTest, Rewrite
<1> HIDE DEF read
<1>3. ASSUME NEW phase \in Phases, NEW p \in Assignments
      PROVE  Rewrite(read, phase, p) \in LoadTest
  BY <1>1, <1>3, RewriteShape, Zenon
<1>4. {"Failed", "Pending", "Distributing"} \subseteq Phases
  BY Zenon DEF Phases, TerminalPhases, LivePhases
<1>5. ASSUME ~read.deleting, read.phase \notin TerminalPhases, cr[k] = read,
             NEW phase \in Phases, phase \in {read.phase, "Pending"} \/ (k \in Denied /\ phase = "Failed")
      PROVE  Writes(k, Rewrite(read, phase, read.plan))
  <2>1. PICK p \in Assignments : p = read.plan
    BY <1>2, Zenon
  <2>a. PICK new : new = Rewrite(read, phase, p)
    BY Zenon
  <2>2. /\ new \in LoadTest /\ new.run = read.run /\ new.deleting = read.deleting /\ new.finalizer
        /\ new.phase = phase /\ new.plan = p
    BY <1>1, <1>5, <2>a, RewriteShape
  <2>3. Writes(k, new)
    BY <1>1, <1>5, <2>1, <2>2, Zenon DEF Writes
  <2> QED
    BY <2>1, <2>a, <2>3, Zenon
<1>6. CASE ReconcileFinalizer(k)
  <2>1. /\ cr[k] = read /\ Store(k, Rewrite(read, read.phase, read.plan))
        /\ ~read.deleting /\ read.phase \notin TerminalPhases
    BY <1>2, <1>6, Zenon DEF ReconcileFinalizer, Begin, read
  <2>2. Writes(k, Rewrite(read, read.phase, read.plan))
    BY <1>2, <1>5, <2>1, Zenon
  <2> QED
    BY <1>2, <1>3, <2>1, <2>2, UpdateMoves, Zenon
<1>7. CASE ReconcileDenied(k) \/ ReconcilePending(k)
  <2>1. /\ ~read.deleting /\ read.phase \notin TerminalPhases
        /\ \/ Update(k, read, Rewrite(read, "Pending", read.plan))
           \/ k \in Denied /\ Update(k, read, Rewrite(read, "Failed", read.plan))
    BY <1>2, <1>7, Zenon DEF ReconcileDenied, ReconcilePending, Begin, read
  <2>2. /\ cr[k] = read => Writes(k, Rewrite(read, "Pending", read.plan))
        /\ cr[k] = read /\ k \in Denied => Writes(k, Rewrite(read, "Failed", read.plan))
    BY <1>4, <1>5, <2>1, Zenon
  <2>3. Rewrite(read, "Pending", read.plan) \in LoadTest /\ Rewrite(read, "Failed", read.plan) \in LoadTest
    BY <1>2, <1>3, <1>4, Zenon
  <2> QED
    BY <2>1, <2>2, <2>3, UpdateMoves, Zenon
<1>8. CASE ReconcileDeleteNoServer(k)
  <2>1. Update(k, read, Absent) /\ read.deleting
    BY <1>8, Zenon DEF ReconcileDeleteNoServer, BeginDelete, read
  <2>2. cr[k] = read => Drops(k, Absent)
    BY <1>1, <2>1, Zenon DEF Drops
  <2> QED
    BY <2>1, <2>2, UpdateMoves, Zenon
<1>9. CASE ReconcilePlan(k)
  <2> DEFINE selected == SelectSpokes(TestCells[k], MaxSpokes)
  <2>1. PICK p \in planDistribution(selected) : Store(k, Rewrite(read, "Distributing", p))
    BY <1>9, Zenon DEF ReconcilePlan, Rewrite, read
  <2>2. /\ cr[k] = read /\ ~Planned(read) /\ selected # {}
        /\ ~read.deleting /\ read.phase \notin TerminalPhases
    BY <1>9, Zenon DEF ReconcilePlan, Begin, read
  <2>3. selected \in SUBSET Spokes
    BY Zenon DEF TypeOK, HubTypeOK, SelectSpokes, Eligible
  <2> HIDE DEF selected
  <2>4. p \in Assignments /\ DOMAIN p # {}
    BY <2>2, <2>3, Zenon DEF ConstantFacts, PlanFacts
  <2>a. PICK new : new = Rewrite(read, "Distributing", p)
    BY Zenon
  <2>5. /\ new \in LoadTest /\ new.run = read.run /\ new.deleting = read.deleting /\ new.finalizer
        /\ new.phase = "Distributing" /\ new.plan = p
    <3>1. "Distributing" \in Phases
      BY <1>4, Zenon
    <3> QED
      BY <1>1, <2>4, <2>a, <3>1, RewriteShape
  <2>6. Writes(k, new)
    BY <1>1, <2>2, <2>4, <2>5, Zenon DEF Writes, Planned
  <2> QED
    BY <2>1, <2>2, <2>a, <2>5, <2>6, UpdateMoves, Zenon
<1>10. CASE ReconcileResume(k) \/ ReconcileDelete(k)
  BY <1>10, Zenon DEF ReconcileResume, ReconcileDelete, StoredStep
<1> QED
  BY <1>6, <1>7, <1>8, <1>9, <1>10, Zenon DEF PassBegins

\* The end of a pass.
LEMMA ContinueMoves ==
  ASSUME TypeOK, StoredSound, PassJustified, PassContinues, UNCHANGED <<runs, done>>
  PROVE  StoredStep
<1> DEFINE k == rec.test  lt == rec.lt
<1>1. rec # Idle /\ k \in LoadTests /\ lt \in LoadTest /\ rec.phase \in Phases
  BY Zenon
     DEF PassContinues, SendStart, UpdateStatus, BeginAbort, SendStop, FinishAbort, FinishDelete,
         UpdateFails, TypeOK, CtlTypeOK, StartPass, StopPass
<1>2. lt # Absent
  BY <1>1, AbsentAssumption, Zenon
<1>3. ASSUME NEW phase \in Phases, NEW b \in BOOLEAN, NEW new,
             new = [lt EXCEPT !.phase = phase, !.aborting = b],
             rec.pc # "delete", cr[k] = lt, phase \in {rec.phase, "Aborted"}
      PROVE  Writes(k, new)
  <2>1. /\ new \in LoadTest /\ new.run = lt.run /\ new.deleting = lt.deleting
        /\ new.finalizer = lt.finalizer /\ new.phase = phase /\ new.plan = lt.plan
    BY <1>1, <1>3, Zenon DEF LoadTest
  <2>2. /\ ~lt.deleting /\ lt.phase \notin TerminalPhases /\ Planned(lt)
        /\ phase \in {lt.phase, "Running", "Completed", "Failed", "Aborted"}
    BY <1>1, <1>3, Zenon DEF PassJustified, Underway
  <2>3. phase = "Completed" => AllRan(k, lt.run, lt.plan, done)
    BY <1>1, <1>2, <1>3, Zenon DEF PassJustified
  <2>4. lt.finalizer
    BY <1>1, <1>2, <1>3, <2>2, Zenon DEF StoredSound, Sound
  <2> HIDE DEF k, lt
  <2> QED
    BY <1>2, <1>3, <2>1, <2>2, <2>3, <2>4, Zenon DEF Writes
<1> HIDE DEF k, lt
<1>4. CASE UpdateStatus
  <2> DEFINE new == [lt EXCEPT !.phase = rec.phase, !.aborting = lt.aborting]
  <2>1. new = [lt EXCEPT !.phase = rec.phase] /\ new \in LoadTest /\ lt.aborting \in BOOLEAN
    BY <1>1, Zenon DEF LoadTest
  <2>2. Update(k, lt, new) /\ rec.pc # "delete"
    BY <1>4, <2>1, Zenon DEF UpdateStatus, k, lt
  <2>3. cr[k] = lt => Writes(k, new)
    BY <1>1, <1>3, <2>1, <2>2, Zenon
  <2> QED
    BY <1>1, <2>1, <2>2, <2>3, UpdateMoves, Zenon
<1>5. CASE FinishAbort
  <2>1. rec.pc # "delete" /\ "Aborted" \in Phases
    BY <1>5, Zenon DEF FinishAbort, Phases, TerminalPhases
  <2>2. ASSUME NEW phase \in Phases, NEW b \in BOOLEAN, phase \in {rec.phase, "Aborted"},
               Update(k, lt, [lt EXCEPT !.phase = phase, !.aborting = b])
        PROVE  StoredStep
    <3> DEFINE new == [lt EXCEPT !.phase = phase, !.aborting = b]
    <3>1. new \in LoadTest
      BY <1>1, <2>2, Zenon DEF LoadTest
    <3>2. cr[k] = lt => Writes(k, new)
      BY <1>1, <1>3, <2>1, <2>2, Zenon
    <3> QED
      BY <1>1, <2>2, <3>1, <3>2, UpdateMoves, Zenon
  <2>3. \/ Update(k, lt, [lt EXCEPT !.phase = "Aborted", !.aborting = FALSE])
        \/ Update(k, lt, [lt EXCEPT !.phase = rec.phase, !.aborting = TRUE])
    BY <1>5, Zenon DEF FinishAbort, k, lt
  <2> QED
    BY <1>1, <2>1, <2>2, <2>3, Zenon
<1>6. CASE FinishDelete
  <2>1. rec.pc = "delete" /\ (Update(k, lt, Absent) \/ UNCHANGED cr)
    BY <1>6, Zenon DEF FinishDelete, k, lt
  <2>2. cr[k] = lt => Drops(k, Absent)
    BY <1>1, <1>2, <2>1, Zenon DEF PassJustified, Drops, lt
  <2> QED
    BY <1>1, <2>1, <2>2, UpdateMoves, Zenon DEF StoredStep
<1>7. CASE SendStart \/ BeginAbort \/ SendStop \/ UpdateFails
  BY <1>7, Zenon DEF SendStart, BeginAbort, SendStop, UpdateFails, StoredStep
<1> QED
  BY <1>4, <1>5, <1>6, <1>7, Zenon DEF PassContinues

\* Every step, seen from the stored objects.
LEMMA StoredSteps ==
  ASSUME ConstantFacts, PlanFacts, TypeOK, StoredSound, PassJustified, [Next]_vars
  PROVE  StoredStep
<1>1. EnvSame \/ UNCHANGED envVars => UNCHANGED runs
  BY Zenon DEF EnvSame, envVars
<1>2. UNCHANGED spokeVars => UNCHANGED done
  BY Zenon DEF spokeVars
<1>3. UNCHANGED <<cr, runs>> => StoredStep
  BY Zenon DEF StoredStep
<1>4. CASE \E k \in LoadTests : CreateTest(k) \/ DeleteTest(k)
  BY <1>4, UserMoves, Zenon
<1>5. CASE \E k \in LoadTests : PassBegins(k) /\ UNCHANGED spokeVars /\ EnvSame
  BY <1>1, <1>2, <1>5, BeginMoves, Zenon
<1>6. CASE PassContinues /\ UNCHANGED spokeVars /\ EnvSame
  BY <1>1, <1>2, <1>6, ContinueMoves, Zenon
<1>7. CASE UNCHANGED ctlVars /\ (EnvSame \/ UNCHANGED envVars)
  BY <1>1, <1>3, <1>7, Zenon DEF ctlVars
<1>8. CASE HubServes /\ EnvSame
  BY <1>1, <1>3, <1>8, Zenon
     DEF HubServes, CaptureHubReconcile, ListFails, HubRestart, Reconfigure, ctlVars
<1>9. CASE \E k \in LoadTests : (CacheSync(k) \/ MaxDurationExceeded(k)) /\ UNCHANGED envVars
  BY <1>1, <1>3, <1>9, Zenon DEF CacheSync, MaxDurationExceeded
<1> QED
  BY <1>4, <1>5, <1>6, <1>7, <1>8, <1>9, NextCases, Zenon DEF vars

-----------------------------------------------------------------------------
(***************************************************************************)
(* Every step keeps the invariant.                                         *)
(***************************************************************************)
\* What is genuine stays so: runs are only created, plans and what ran stay.
LEMMA GenuineStays ==
  ASSUME NEW s, NEW k \in LoadTests, NEW i, NEW t, t.run \in Nat, runs[k] \in Nat,
         CrStep(k), RunsStep(k), done \subseteq done',
         Genuine(s, k, i, t, runs[k], cr[k], done)
  PROVE  Genuine(s, k, i, t, runs'[k], cr'[k], done')
<1>1. /\ 1 <= t.run /\ t.run <= runs[k] /\ Placed(s, cr[k], t.run, i)
      /\ t.phase = "Completed" => <<k, t.run, i>> \in done
  BY Zenon DEF Genuine
<1>2. t.run <= runs'[k]
  BY <1>1, NatOrder, Zenon DEF RunsStep
<1>3. Placed(s, cr'[k], t.run, i)
  BY <1>1, PlacedStable, Zenon
<1> QED
  BY <1>1, <1>2, <1>3, Zenon DEF Genuine

\* What ran stays so.
LEMMA DoneKept ==
  ASSUME DoneStep
  PROVE  done \subseteq done'
  BY Zenon DEF DoneStep

\* A summary is as genuine as the TrafficReplay it was made from.
LEMMA SummaryGenuine ==
  ASSUME NEW s, NEW k, NEW i, NEW t, t # NoReplay, NEW created, NEW stored, NEW ran,
         Genuine(s, k, i, t, created, stored, ran)
  PROVE  Genuine(s, k, i, SummaryOf(t), created, stored, ran)
<1>1. SummaryOf(t).phase = t.phase /\ SummaryOf(t).run = t.run
  BY DEF SummaryOf
<1> QED
  BY <1>1, Zenon DEF Genuine

\* TrafficReplays stay genuine.
LEMMA ReplaysGenuineStep ==
  ASSUME TypeOK, ReplaysGenuine, RunsNumbered, ReplaysPlaced', Provenance, [Next]_vars
  PROVE  ReplaysGenuine'
<1> SUFFICES ASSUME NEW s \in Spokes, NEW k \in LoadTests, NEW i \in Shards,
                    tr'[s][k][i] # NoReplay
             PROVE  Genuine(s, k, i, tr'[s][k][i], runs'[k], cr'[k], done')
  BY Zenon DEF ReplaysGenuine
<1>1. tr'[s][k][i].run <= runs'[k] /\ Placed(s, cr'[k], tr'[s][k][i].run, i)
  BY Zenon DEF ReplaysPlaced
<1>2. tr[s][k][i] # NoReplay =>
          /\ 1 <= tr[s][k][i].run
          /\ tr[s][k][i].phase = "Completed" => <<k, tr[s][k][i].run, i>> \in done
  BY Zenon DEF ReplaysGenuine, Genuine
<1>3. tr'[s][k][i].phase = "Completed" => <<k, tr'[s][k][i].run, i>> \in done'
  <2>1. CompletionRan(s, k, i)
    BY Zenon DEF Provenance, CompletionsRan
  <2> QED
    BY <1>2, <2>1, DoneKept, Zenon DEF CompletionRan, Provenance
<1>4. 1 <= tr'[s][k][i].run
  <2>1. CASE ReplaysKept
    <3>1. tr[s][k][i] # NoReplay /\ tr'[s][k][i].run = tr[s][k][i].run
      BY <2>1, Zenon DEF ReplaysKept, SameReplay
    <3> QED
      BY <1>2, <3>1
  <2>2. ASSUME NEW t \in Spokes, ReceiveDirective(t)
        PROVE  1 <= tr'[s][k][i].run
    <3>1. Received(t, s, k, i)
      BY <2>2, ReceiveEffect, Zenon
    <3> QED
      BY <1>2, <3>1, Zenon DEF Received, SameReplay, IsFor, RunsNumbered
  <2> QED
    BY <2>1, <2>2, ReplayCases, Zenon
<1> QED
  BY <1>1, <1>3, <1>4, Zenon DEF Genuine

\* Run numbers of statuses and heartbeats.
LEMMA StatusTypes ==
  ASSUME TypeOK, NEW s \in Spokes, NEW k \in LoadTests, NEW i \in Shards
  PROVE  /\ replays[s][k][i] # NoSummary => replays[s][k][i].run \in Nat
         /\ beat[s] # NoBeat /\ beat[s][k][i] # NoSummary => beat[s][k][i].run \in Nat
<1>1. /\ replays \in [Spokes -> [LoadTests -> [Shards -> Summary \cup {NoSummary}]]]
      /\ beat \in [Spokes -> [LoadTests -> [Shards -> Summary \cup {NoSummary}]] \cup {NoBeat}]
  BY Zenon DEF TypeOK, HubTypeOK, SpokeTypeOK, Summaries
<1>2. /\ replays[s][k][i] # NoSummary => replays[s][k][i] \in Summary
      /\ beat[s] # NoBeat /\ beat[s][k][i] # NoSummary => beat[s][k][i] \in Summary
  BY <1>1
<1> QED
  BY <1>2, Zenon DEF Summary

\* Statuses and heartbeats stay genuine.
LEMMA StatusesGenuineStep ==
  ASSUME TypeOK, ReplaysGenuine, StatusesGenuine, BeatsGenuine, ReplaysGenuine', CtlSteps, Provenance
  PROVE  StatusesGenuine' /\ BeatsGenuine'
<1>1. ASSUME NEW s \in Spokes, NEW k \in LoadTests, NEW i \in Shards, NEW t, t.run \in Nat,
             Genuine(s, k, i, t, runs[k], cr[k], done)
      PROVE  Genuine(s, k, i, t, runs'[k], cr'[k], done')
  <2>1. runs[k] \in Nat /\ CrStep(k) /\ RunsStep(k)
    BY Zenon DEF TypeOK, CtlSteps
  <2> QED
    BY <1>1, <2>1, DoneKept, GenuineStays, Zenon DEF Provenance
<1>2. ASSUME NEW s \in Spokes, NEW k \in LoadTests, NEW i \in Shards, tr[s][k][i] # NoReplay
      PROVE  Genuine(s, k, i, SummaryOf(tr[s][k][i]), runs'[k], cr'[k], done')
  <2>1. tr[s][k][i].run \in Nat
    BY <1>2, ReplayTypes, Zenon
  <2>2. Genuine(s, k, i, tr[s][k][i], runs'[k], cr'[k], done')
    BY <1>1, <1>2, <2>1, Zenon DEF ReplaysGenuine
  <2> QED
    BY <1>2, <2>2, SummaryGenuine, Zenon
<1>3. ASSUME NEW s \in Spokes, NEW k \in LoadTests, NEW i \in Shards, tr'[s][k][i] # NoReplay
      PROVE  Genuine(s, k, i, SummaryOf(tr'[s][k][i]), runs'[k], cr'[k], done')
  BY <1>3, SummaryGenuine, Zenon DEF ReplaysGenuine
<1>4. ASSUME NEW s \in Spokes, NEW k \in LoadTests, NEW i \in Shards
      PROVE  /\ replays[s][k][i] # NoSummary =>
                    Genuine(s, k, i, replays[s][k][i], runs'[k], cr'[k], done')
             /\ beat[s] # NoBeat /\ beat[s][k][i] # NoSummary =>
                    Genuine(s, k, i, beat[s][k][i], runs'[k], cr'[k], done')
  BY <1>1, StatusTypes, Zenon DEF StatusesGenuine, BeatsGenuine
<1>5. ASSUME NEW s \in Spokes, NEW k \in LoadTests, NEW i \in Shards, replays'[s][k][i] # NoSummary
      PROVE  Genuine(s, k, i, replays'[s][k][i], runs'[k], cr'[k], done')
  <2>1. StatusCame(s, k, i)
    BY Zenon DEF Provenance, StatusesCame
  <2> QED
    BY <1>2, <1>3, <1>4, <1>5, <2>1, Zenon DEF StatusCame
<1>6. ASSUME NEW s \in Spokes, NEW k \in LoadTests, NEW i \in Shards,
             beat'[s] # NoBeat, beat'[s][k][i] # NoSummary
      PROVE  Genuine(s, k, i, beat'[s][k][i], runs'[k], cr'[k], done')
  <2>1. BeatCame(s, k, i)
    BY Zenon DEF Provenance, BeatsCame
  <2> QED
    BY <1>2, <1>4, <1>6, <2>1, Zenon DEF BeatCame
<1> QED
  BY <1>5, <1>6, Zenon DEF StatusesGenuine, BeatsGenuine

\* The stored objects stay sound.
LEMMA StoredSoundStep ==
  ASSUME TypeOK, StoredSound, StoredStep, DoneStep
  PROVE  StoredSound'
<1>0. cr \in [LoadTests -> LoadTest \cup {Absent}] /\ runs \in [LoadTests -> Nat]
  BY Zenon DEF TypeOK, CtlTypeOK
<1> SUFFICES ASSUME NEW j \in LoadTests
             PROVE  Sound(j, cr'[j], runs'[j], done')
  BY Zenon DEF StoredSound
<1>1. Sound(j, cr[j], runs[j], done)
  BY Zenon DEF StoredSound
<1>2. CASE cr'[j] = cr[j] /\ runs'[j] = runs[j]
  BY <1>1, <1>2, DoneKept, Zenon DEF Sound, AllRan
<1>3. ASSUME NEW new \in LoadTest \cup {Absent}, cr' = [cr EXCEPT ![j] = new], UNCHANGED done,
             Creates(j, new) \/ ((Marks(j, new) \/ Drops(j, new) \/ Writes(j, new)) /\ UNCHANGED runs)
      PROVE  Sound(j, new, runs'[j], done)
  <2>1. CASE Creates(j, new)
    <3>1. /\ new.run = runs[j] + 1 /\ new.phase = "" /\ ~Planned(new)
          /\ runs[j] < MaxRuns /\ runs'[j] = runs[j] + 1
      BY <1>0, <2>1, Zenon DEF Creates, NewTest, Planned, NoPlan
    <3>2. runs[j] \in Nat /\ \A n \in Nat : n < MaxRuns => n + 1 <= MaxRuns /\ 1 <= n + 1
      BY <1>0, BoundsAssumption
    <3> QED
      BY <3>1, <3>2, Zenon DEF Sound
  <2>2. CASE Marks(j, new) /\ UNCHANGED runs
    <3>1. cr[j] \in LoadTest
      BY <1>0, <2>2, Zenon DEF Marks
    <3>2. /\ new.run = cr[j].run /\ new.phase = cr[j].phase /\ new.plan = cr[j].plan
          /\ new.finalizer = cr[j].finalizer /\ cr[j] # Absent
      BY <2>2, <3>1, Zenon DEF Marks, LoadTest
    <3> QED
      BY <1>1, <2>2, <3>2, Zenon DEF Sound, Planned
  <2>3. CASE Drops(j, new) /\ UNCHANGED runs
    BY <1>1, <2>3, Zenon DEF Sound, Drops
  <2>4. CASE Writes(j, new) /\ UNCHANGED runs
    <3>1. new.run = cr[j].run /\ new.finalizer /\ cr[j] # Absent
      BY <2>4, Zenon DEF Writes
    <3>2. ASSUME new.phase = "Completed"
          PROVE  AllRan(j, new.run, new.plan, done)
      BY <2>4, <3>2, Zenon DEF Writes, TerminalPhases
    <3> QED
      BY <1>1, <2>4, <3>1, <3>2, Zenon DEF Sound
  <2> QED
    BY <1>3, <2>1, <2>2, <2>3, <2>4, Zenon
<1>4. ASSUME NEW k \in LoadTests, NEW new \in LoadTest \cup {Absent}, cr' = [cr EXCEPT ![k] = new],
             Creates(k, new) \/ UNCHANGED runs, k # j
      PROVE  cr'[j] = cr[j] /\ runs'[j] = runs[j]
  BY <1>0, <1>4, Zenon DEF Creates
<1>5. ASSUME NEW new, cr' = [cr EXCEPT ![j] = new]
      PROVE  cr'[j] = new
  BY <1>0, <1>5, Zenon
<1> QED
  BY <1>2, <1>3, <1>4, <1>5, Zenon DEF StoredStep

\* Run numbers stay above zero, wherever they are copied.
LEMMA RunsNumberedStep ==
  ASSUME TypeOK, RunsNumbered, StoredSound', CtlSteps, PassStep, [Next]_vars
  PROVE  RunsNumbered'
<1>1. \A k \in LoadTests : cr'[k] # Absent => 1 <= cr'[k].run
  BY Zenon DEF StoredSound, Sound
<1>2. ASSUME NEW k \in LoadTests, cache'[k] # Absent
      PROVE  1 <= cache'[k].run
  <2>1. cache'[k] = cr'[k] \/ cache'[k] = cache[k]
    BY Zenon DEF CtlSteps, CacheStep
  <2> QED
    BY <1>1, <1>2, <2>1, Zenon DEF RunsNumbered
<1>3. ASSUME rec' # Idle
      PROVE  1 <= rec'.lt.run
  <2>1. CASE GoesOn
    BY <2>1, Zenon DEF GoesOn, RunsNumbered
  <2>2. CASE Begun
    BY <1>1, <2>2, Zenon DEF Begun, RunsNumbered
  <2> QED
    BY <1>3, <2>1, <2>2, Zenon DEF PassStep
<1>4. ASSUME NEW s \in Spokes, NEW n \in DOMAIN directives'[s], directives'[s][n].action = "START"
      PROVE  1 <= directives'[s][n].run
  <2>1. CASE \E m \in DOMAIN directives[s] : directives'[s][n] = directives[s][m]
    BY <1>4, <2>1, Zenon DEF RunsNumbered
  <2>2. CASE ChannelsFollow
    BY <1>4, <2>1, <2>2, Zenon DEF ChannelsFollow, Follows
  <2>3. CASE SendStart
    <3> DEFINE d == [action |-> "START", test |-> rec.test, shard |-> First(rec.todo), run |-> rec.lt.run]
    <3>1. PICK t, code : Send(t, d, code)
      BY <2>3, Zenon DEF SendStart
    <3>2. 1 <= d.run
      BY <2>3, Zenon DEF SendStart, RunsNumbered
    <3> HIDE DEF d
    <3> QED
      BY <1>4, <2>1, <3>1, <3>2, SendQueues
  <2>4. CASE SendStop
    <3> DEFINE d == [action |-> "STOP", test |-> rec.test]
    <3>1. PICK code : Send(FirstSpoke(rec.todo), d, code)
      BY <2>4, Zenon DEF SendStop
    <3>2. d.action # "START"
      BY Zenon
    <3> HIDE DEF d
    <3> QED
      BY <1>4, <2>1, <3>1, <3>2, SendQueues
  <2> QED
    BY <2>2, <2>3, <2>4, ChannelCases, Zenon
<1> QED
  BY <1>2, <1>3, <1>4, Zenon DEF RunsNumbered

PassKept ==
    /\ rec # Idle
    /\ rec'.test = rec.test /\ rec'.lt = rec.lt /\ rec'.phase = rec.phase
    /\ rec'.pc = "delete" <=> rec.pc = "delete"

PassStarted(k) ==
    /\ rec'.test = k /\ UNCHANGED replays
    /\ \/ rec'.pc = "delete" /\ rec'.lt.deleting
       \/ rec'.pc = "start" /\ Underway(rec'.lt) /\ rec'.phase = aggregate(k, rec'.lt)

\* A pass that begins and goes on past its first write.
LEMMA PassStarts ==
  ASSUME PlanFacts, TypeOK, NEW k \in LoadTests, PassBegins(k), rec' # Idle
  PROVE  PassStarted(k)
<1>1. rec = Idle /\ UNCHANGED replays /\ cache[k] # Absent
  BY Zenon
     DEF PassBegins, ReconcileFinalizer, ReconcileDenied, ReconcilePending, ReconcilePlan,
         ReconcileResume, ReconcileDelete, ReconcileDeleteNoServer, Begin, BeginDelete, hubVars
<1>2. cache[k] \in LoadTest
  BY <1>1, Zenon DEF TypeOK, CtlTypeOK
<1>3. ASSUME NEW lt, StartShards(k, lt)
      PROVE  rec'.pc = "start" /\ rec'.test = k /\ rec'.lt = lt /\ rec'.phase = aggregate(k, lt)
  BY <1>3, Zenon DEF StartShards
<1>4. CASE ReconcilePlan(k)
  <2> DEFINE selected == SelectSpokes(TestCells[k], MaxSpokes)
             lt(p) == [cache[k] EXCEPT !.finalizer = TRUE, !.phase = "Distributing", !.plan = p]
  <2>1. PICK p \in planDistribution(selected) : StartShards(k, lt(p))
    BY <1>4, Zenon DEF ReconcilePlan
  <2>2. selected # {} /\ ~cache[k].deleting
    BY <1>4, Zenon DEF ReconcilePlan, Begin
  <2>3. selected \in SUBSET Spokes
    BY Zenon DEF TypeOK, HubTypeOK, SelectSpokes, Eligible
  <2> HIDE DEF selected
  <2>4. DOMAIN p # {}
    BY <2>2, <2>3, Zenon DEF PlanFacts
  <2>5. lt(p).deleting = cache[k].deleting /\ lt(p).phase = "Distributing" /\ lt(p).plan = p
    BY <1>2, Zenon DEF LoadTest
  <2> HIDE DEF lt
  <2>6. Underway(lt(p))
    BY <2>2, <2>4, <2>5, Zenon DEF Underway, Planned, TerminalPhases
  <2> QED
    BY <1>1, <1>3, <2>1, <2>6, Zenon DEF PassStarted
<1>5. CASE ReconcileResume(k)
  <2>1. StartShards(k, cache[k]) /\ Underway(cache[k])
    BY <1>5, Zenon DEF ReconcileResume, Begin, Underway
  <2> QED
    BY <1>1, <1>3, <2>1, Zenon DEF PassStarted
<1>6. CASE ReconcileDelete(k)
  BY <1>1, <1>6, Zenon DEF ReconcileDelete, BeginDelete, PassStarted
<1> QED
  BY <1>1, <1>4, <1>5, <1>6, Zenon
     DEF PassBegins, ReconcileFinalizer, ReconcileDenied, ReconcilePending, ReconcileDeleteNoServer

\* Every step, seen from the pass.
LEMMA PassCases ==
  ASSUME PlanFacts, TypeOK, [Next]_vars, rec' # Idle
  PROVE  PassKept \/ \E k \in LoadTests : PassBegins(k) /\ PassStarted(k)
<1>1. UNCHANGED rec => PassKept
  BY Zenon DEF PassKept
<1>2. CASE \E k \in LoadTests : CreateTest(k) \/ DeleteTest(k)
  BY <1>1, <1>2, Zenon DEF CreateTest, DeleteTest
<1>3. CASE \E k \in LoadTests : PassBegins(k)
  BY <1>3, PassStarts, Zenon
<1>4. CASE PassContinues
  <2>1. rec # Idle
    BY <1>4, Zenon
       DEF PassContinues, SendStart, UpdateStatus, BeginAbort, SendStop, FinishAbort, FinishDelete,
           UpdateFails
  <2>2. CASE SendStart \/ SendStop
    BY <2>1, <2>2, PassGoesOn, Zenon DEF PassKept
  <2>3. CASE BeginAbort
    BY <2>1, <2>3, Zenon DEF BeginAbort, PassKept
  <2> QED
    BY <1>4, <2>2, <2>3, Zenon DEF PassContinues, UpdateStatus, FinishAbort, FinishDelete, UpdateFails
<1>5. CASE HubServes
  <2>1. CASE Reconfigure
    <3>1. rec # Idle
      BY <2>1, Zenon DEF Reconfigure
    <3> QED
      BY <2>1, <3>1, PassGoesOn, Zenon DEF PassKept
  <2> QED
    BY <1>1, <1>5, <2>1, Zenon DEF HubServes, CaptureHubReconcile, ListFails, HubRestart, ctlVars
<1>6. CASE UNCHANGED ctlVars \/ \E k \in LoadTests : CacheSync(k) \/ MaxDurationExceeded(k)
  BY <1>1, <1>6, Zenon DEF ctlVars, CacheSync, MaxDurationExceeded
<1> QED
  BY <1>2, <1>3, <1>4, <1>5, <1>6, NextCases, Zenon DEF vars

\* A verdict is one of aggregate's, and Completed only for a full count.
LEMMA Verdicts ==
  ASSUME NEW k, NEW lt
  PROVE  /\ aggregate(k, lt) \in {"Completed", "Failed", "Running", lt.phase}
         /\ aggregate(k, lt) = "Completed" /\ lt.phase \notin TerminalPhases =>
                ShardsIn(k, "Completed") = Cardinality(DOMAIN lt.plan)
  BY Zenon DEF aggregate, TerminalPhases

\* A pass that goes on is as justified as it was.
LEMMA KeptJustified ==
  ASSUME TypeOK, PassPlaced, PassJustified, StoredSound', CtlSteps, DoneStep, PassKept
  PROVE  PassJustified'
<1>1. rec.test \in LoadTests /\ rec.lt.run \in Nat /\ runs[rec.test] \in Nat
  BY PassTypes, Zenon DEF PassKept, TypeOK
<1>2. ASSUME rec.pc # "delete", rec.phase = "Completed",
             cr'[rec.test] # Absent, cr'[rec.test].run = rec.lt.run
      PROVE  AllRan(rec.test, rec.lt.run, rec.lt.plan, done')
  <2>1. cr[rec.test] # Absent /\ cr[rec.test].run = rec.lt.run
    <3>1. cr[rec.test] # Absent \/ rec.lt.run = runs[rec.test] + 1
      BY <1>1, <1>2, PlanKept, Zenon DEF CtlSteps
    <3>2. rec.lt.run <= runs[rec.test]
      BY <1>2, Zenon DEF PassPlaced, Known, PassKept
    <3>3. rec.lt.run # runs[rec.test] + 1
      BY <1>1, <3>2
    <3> QED
      BY <1>1, <1>2, <3>1, <3>3, PlanKept, Zenon DEF CtlSteps
  <2>2. AllRan(rec.test, rec.lt.run, rec.lt.plan, done)
    BY <1>2, <2>1, Zenon DEF PassJustified, PassKept
  <2> QED
    BY <2>2, DoneKept, Zenon DEF AllRan
<1> QED
  BY <1>2, Zenon DEF PassJustified, PassKept

-----------------------------------------------------------------------------

\* The counting argument: as many completed statuses as shards, each from the
\* spoke its shard is assigned to, are one for every shard.
LEMMA Counting ==
  ASSUME PlanFacts, NEW k \in LoadTests, NEW plan \in Assignments, NEW run, NEW ran,
         \A s \in Spokes, i \in Shards :
             (replays[s][k][i] # NoSummary /\ replays[s][k][i].phase = "Completed") =>
                 i \in DOMAIN plan /\ plan[i] = s /\ <<k, run, i>> \in ran,
         ShardsIn(k, "Completed") = Cardinality(DOMAIN plan)
  PROVE  AllRan(k, run, plan, ran)
<1> DEFINE P == {p \in ReplayStatuses(k) : replays[p[1]][k][p[2]].phase = "Completed"}
<1>1. ASSUME NEW p \in P
      PROVE  /\ p \in Spokes \X Shards /\ p[2] \in DOMAIN plan /\ plan[p[2]] = p[1]
             /\ <<k, run, p[2]>> \in ran
  <2>1. p \in Spokes \X Shards /\ replays[p[1]][k][p[2]] # NoSummary
    BY <1>1, Zenon DEF ReplayStatuses
  <2>2. p[1] \in Spokes /\ p[2] \in Shards /\ replays[p[1]][k][p[2]].phase = "Completed"
    BY <1>1, <2>1
  <2> QED
    BY <2>1, <2>2, Zenon
<1>2. Cardinality(P) = Cardinality(DOMAIN plan)
  BY Zenon DEF ShardsIn
<1> HIDE DEF P
<1>3. P \in SUBSET (Spokes \X Shards)
  BY <1>1, Zenon
<1>4. \A p \in P : p[2] \in DOMAIN plan /\ plan[p[2]] = p[1]
  BY <1>1, Zenon
<1>5. \A i \in DOMAIN plan : \E p \in P : p[2] = i
  BY <1>2, <1>3, <1>4, Zenon DEF PlanFacts
<1>6. ASSUME NEW i \in DOMAIN plan
      PROVE  <<k, run, i>> \in ran
  BY <1>1, <1>5, <1>6, Zenon
<1> QED
  BY <1>6, Zenon DEF AllRan

\* A pass that begins counts statuses, each of which is genuine.
LEMMA StartJustified ==
  ASSUME PlanFacts, TypeOK, TypeOK', PassPlaced', StatusesGenuine', StoredSound', rec' # Idle,
         NEW k \in LoadTests, PassStarted(k)
  PROVE  PassJustified'
<1>1. rec'.test = k /\ UNCHANGED replays
  BY Zenon DEF PassStarted
<1>2. CASE rec'.pc = "delete" /\ rec'.lt.deleting
  BY <1>2, Zenon DEF PassJustified
<1>3. CASE rec'.pc = "start" /\ Underway(rec'.lt) /\ rec'.phase = aggregate(k, rec'.lt)
  <2>1. rec'.phase \in {"Completed", "Failed", "Running", rec'.lt.phase}
    BY <1>3, Verdicts, Zenon
  <2>2. ASSUME rec'.phase = "Completed", cr'[k] # Absent, cr'[k].run = rec'.lt.run
        PROVE  AllRan(k, rec'.lt.run, rec'.lt.plan, done')
    <3> DEFINE run == rec'.lt.run
    <3>1. ShardsIn(k, "Completed") = Cardinality(DOMAIN rec'.lt.plan)
      <4>1. PICK lt : lt = rec'.lt
        BY Zenon
      <4>2. aggregate(k, lt) = "Completed" /\ lt.phase \notin TerminalPhases
        BY <1>3, <2>2, <4>1, Zenon DEF Underway
      <4> QED
        BY <4>1, <4>2, Verdicts, Zenon
    <3>2. cr'[k].plan = rec'.lt.plan /\ runs'[k] = run
      BY <1>1, <1>3, <2>2, Zenon DEF PassPlaced, Known, SamePlan, Underway, StoredSound, Sound
    <3>3. rec'.lt.plan \in Assignments /\ run \in Nat
      <4>1. cr'[k] \in LoadTest
        BY <2>2, Zenon DEF TypeOK, CtlTypeOK
      <4> QED
        BY <2>2, <3>2, <4>1, Zenon DEF LoadTest
    <3> HIDE DEF run
    <3>4. ASSUME NEW s \in Spokes, NEW i \in Shards, replays[s][k][i] # NoSummary,
                 replays[s][k][i].phase = "Completed"
          PROVE  \/ i \in DOMAIN rec'.lt.plan /\ rec'.lt.plan[i] = s /\ <<k, run, i>> \in done'
                 \/ AllRan(k, run, rec'.lt.plan, done')
      <4> DEFINE t == replays[s][k][i]
      <4>1. Genuine(s, k, i, t, runs'[k], cr'[k], done')
        BY <1>1, <3>4, Zenon DEF StatusesGenuine
      <4>2. t.run \in Nat
        BY <3>4, StatusTypes, Zenon
      <4>3. 1 <= t.run /\ t.run <= run
        BY <3>2, <4>1, Zenon DEF Genuine
      <4>4. t.run = run \/ t.run \in 1 .. run - 1
        BY <3>3, <4>2, <4>3
      <4>5. CASE t.run \in 1 .. run - 1
        <5>1. <<k, t.run, i>> \in done'
          BY <3>4, <4>1, Zenon DEF Genuine
        <5> QED
          BY <4>5, <5>1, Zenon DEF AllRan
      <4>6. CASE t.run = run
        BY <2>2, <3>2, <3>4, <4>1, <4>6, Zenon DEF Genuine, Placed, run
      <4> QED
        BY <4>4, <4>5, <4>6, Zenon
    <3>5. AllRan(k, run, rec'.lt.plan, done')
      BY <3>1, <3>3, <3>4, Counting, Zenon
    <3> QED
      BY <3>5, Zenon DEF run
  <2> QED
    BY <1>1, <1>3, <2>1, <2>2, Zenon DEF PassJustified
<1> QED
  BY <1>2, <1>3, Zenon DEF PassStarted

\* One step of the system, with the step of the lifecycle it amounts to.
LEMMA LifeStep ==
  ASSUME ConstantFacts, PlanFacts, TypeOK, TypeOK', Placement, Life, Provenance, [Next]_vars
  PROVE  Life' /\ StoredStep
<1>1. CtlSteps /\ PassStep /\ Placement' /\ DoneStep
  BY ControllerSteps, PlacementStep, Zenon DEF Provenance
<1>2. StoredStep
  BY StoredSteps, Zenon DEF Life
<1>3. StoredSound'
  BY <1>1, <1>2, StoredSoundStep, Zenon DEF Life
<1>4. ReplaysGenuine'
  BY <1>1, ReplaysGenuineStep, Zenon DEF Life, Placement
<1>5. StatusesGenuine' /\ BeatsGenuine'
  BY <1>1, <1>4, StatusesGenuineStep, Zenon DEF Life
<1>6. RunsNumbered'
  BY <1>1, <1>3, RunsNumberedStep, Zenon DEF Life
<1>7. PassJustified'
  <2>1. CASE rec' = Idle
    BY <2>1, Zenon DEF PassJustified
  <2>2. CASE rec' # Idle /\ PassKept
    BY <1>1, <1>3, <2>2, KeptJustified, Zenon DEF Life, Placement
  <2>3. CASE rec' # Idle /\ \E k \in LoadTests : PassStarted(k)
    BY <1>1, <1>3, <1>5, <2>3, StartJustified, Zenon DEF Placement
  <2> QED
    BY <2>1, <2>2, <2>3, PassCases, Zenon
<1> QED
  BY <1>2, <1>3, <1>4, <1>5, <1>6, <1>7, Zenon DEF Life

\* Nothing runs and nothing is stored in the initial states.
LEMMA LifeInitHolds ==
  ASSUME Init
  PROVE  Life
<1>1. /\ cr = [k \in LoadTests |-> Absent] /\ cache = cr /\ rec = Idle
      /\ runs = [k \in LoadTests |-> 0] /\ \A s \in Spokes : DOMAIN directives[s] = {}
  BY DEF Init, HubInit, CtlInit
<1>2. \A s \in Spokes, k \in LoadTests, i \in Shards :
          tr[s][k][i] = NoReplay /\ replays[s][k][i] = NoSummary
  BY Zenon DEF Init, SpokeInit, HubInit, NoSummaries
<1>3. \A s \in Spokes : beat[s] = NoBeat
  BY Zenon DEF Init, SpokeInit
<1>4. 0 <= MaxRuns
  BY BoundsAssumption
<1> QED
  BY <1>1, <1>2, <1>3, <1>4, Zenon
     DEF Life, ReplaysGenuine, StatusesGenuine, BeatsGenuine, RunsNumbered, PassJustified, StoredSound, Sound

-----------------------------------------------------------------------------
(***************************************************************************)
(* What is shown of the stored objects takes the steps of the lifecycle.   *)
(***************************************************************************)
Shows == [k \in LoadTests |-> Shown(cr[k])]

\* An object that is stored is shown.
LEMMA ShownType ==
  ASSUME NEW lt \in LoadTest
  PROVE  /\ Shown(lt) = [run |-> lt.run, deleting |-> lt.deleting, phase |-> lt.phase, plan |-> lt.plan]
         /\ Shown(lt) # Absent
<1>1. lt.run \in Nat /\ lt.deleting \in BOOLEAN /\ lt.phase \in Phases /\ lt.plan \in Assignments
  BY Zenon DEF LoadTest
<1>2. lt # Absent
  BY AbsentAssumption
<1>3. Shown(lt) = [run |-> lt.run, deleting |-> lt.deleting, phase |-> lt.phase, plan |-> lt.plan]
  BY <1>2, Zenon DEF Shown
<1>4. [run |-> lt.run, deleting |-> lt.deleting, phase |-> lt.phase, plan |-> lt.plan]
          \in [run : Nat, deleting : BOOLEAN, phase : Phases, plan : Assignments]
  BY <1>1
<1> QED
  BY <1>3, <1>4, ShownAssumption, Zenon

\* One object is shown anew.
LEMMA ShowsStep ==
  ASSUME TypeOK, NEW k \in LoadTests, NEW new, cr' = [cr EXCEPT ![k] = new]
  PROVE  Shows' = [Shows EXCEPT ![k] = Shown(new)]
<1>1. cr \in [LoadTests -> LoadTest \cup {Absent}]
  BY Zenon DEF TypeOK, CtlTypeOK
<1> QED
  BY <1>1, Zenon DEF Shows

\* A write shows in the phase, and perhaps in the plan.
LEMMA WriteShows ==
  ASSUME TypeOK, NEW k \in LoadTests, NEW new \in LoadTest, cr' = [cr EXCEPT ![k] = new],
         cr[k] # Absent, new.run = cr[k].run, new.deleting = cr[k].deleting
  PROVE  /\ Shows' = [Shows EXCEPT ![k].plan = new.plan, ![k].phase = new.phase]
         /\ new.plan = cr[k].plan => Shows' = [Shows EXCEPT ![k].phase = new.phase]
         /\ new.plan = cr[k].plan /\ new.phase = cr[k].phase => Shows' = Shows
<1> DEFINE old == cr[k]
<1>1. Shows[k] = [run |-> old.run, deleting |-> old.deleting, phase |-> old.phase, plan |-> old.plan]
  <2>1. old \in LoadTest
    BY Zenon DEF TypeOK, CtlTypeOK
  <2> QED
    BY <2>1, ShownType, Zenon DEF Shows
<1>2. Shown(new) = [run |-> new.run, deleting |-> new.deleting, phase |-> new.phase, plan |-> new.plan]
  BY ShownType, Zenon
<1>3. Shows' = [Shows EXCEPT ![k] = Shown(new)]
  BY ShowsStep, Zenon
<1>4. Shows = [j \in LoadTests |-> Shows[j]]
  BY Zenon DEF Shows
<1> HIDE DEF old
<1>5. Shown(new) = [[Shows[k] EXCEPT !.plan = new.plan] EXCEPT !.phase = new.phase]
  <2>1. PICK mid : mid = [Shows[k] EXCEPT !.plan = new.plan]
    BY Zenon
  <2>2. mid = [run |-> old.run, deleting |-> old.deleting, phase |-> old.phase, plan |-> new.plan]
    BY <1>1, <2>1
  <2>3. [mid EXCEPT !.phase = new.phase] = Shown(new)
    BY <1>2, <2>2 DEF old
  <2> QED
    BY <2>1, <2>3, Zenon
<1>6. new.plan = old.plan => Shown(new) = [Shows[k] EXCEPT !.phase = new.phase]
  BY <1>1, <1>2 DEF old
<1>7. new.plan = old.plan /\ new.phase = old.phase => Shown(new) = Shows[k]
  BY <1>1, <1>2, Zenon DEF old
<1>8. [Shows EXCEPT ![k].plan = new.plan, ![k].phase = new.phase]
        = [Shows EXCEPT ![k] = [[Shows[k] EXCEPT !.plan = new.plan] EXCEPT !.phase = new.phase]]
  BY <1>4
<1> QED
  BY <1>3, <1>4, <1>5, <1>6, <1>7, <1>8 DEF old

\* What is seen of a stored object.
LEMMA Seen ==
  ASSUME TypeOK, NEW k \in LoadTests, cr[k] # Absent
  PROVE  /\ Shows[k] # Absent /\ Shows[k].run = cr[k].run /\ Shows[k].deleting = cr[k].deleting
         /\ Shows[k].phase = cr[k].phase /\ Shows[k].plan = cr[k].plan
<1>1. cr[k] \in LoadTest
  BY Zenon DEF TypeOK, CtlTypeOK
<1>2. Shows[k] = Shown(cr[k])
  BY Zenon DEF Shows
<1> QED
  BY <1>1, <1>2, ShownType

\* A status update is a step of the lifecycle, or shows nothing.
LEMMA WritesMap ==
  ASSUME TypeOK, NEW k \in LoadTests, NEW new, cr' = [cr EXCEPT ![k] = new], UNCHANGED done,
         Writes(k, new)
  PROVE  Lifecycle!LifeNext \/ Shows' = Shows
<1> DEFINE old == cr[k]
<1>1. /\ old # Absent /\ ~old.deleting /\ old.phase \notin TerminalPhases
      /\ new \in LoadTest /\ new.run = old.run /\ ~new.deleting
  BY Zenon DEF Writes
<1>2. old \in LoadTest
  BY <1>1, Zenon DEF TypeOK, CtlTypeOK
<1>3. new.deleting = old.deleting
  <2>1. new.deleting \in BOOLEAN /\ old.deleting \in BOOLEAN
    BY <1>1, <1>2, Zenon DEF LoadTest
  <2> QED
    BY <1>1, <2>1
<1>4. /\ Shows' = [Shows EXCEPT ![k].plan = new.plan, ![k].phase = new.phase]
      /\ new.plan = old.plan => Shows' = [Shows EXCEPT ![k].phase = new.phase]
      /\ new.plan = old.plan /\ new.phase = old.phase => Shows' = Shows
  BY <1>1, <1>3, WriteShows, Zenon
<1>5. Lifecycle!Open(k)
  BY <1>1, Seen, Zenon DEF Lifecycle!Open, Lifecycle!Final, TerminalPhases, Shows
<1>6. Planned(old) => Lifecycle!IsPlanned(k)
  BY <1>1, Seen, Zenon DEF Lifecycle!IsPlanned, Planned, Shows
<1>7. CASE new.plan = old.plan /\ new.phase \in {old.phase, "Pending"}
  <2>1. new.phase = "Pending" => Lifecycle!Wait(k)
    BY <1>4, <1>5, <1>7, Zenon DEF Lifecycle!Wait, Shows
  <2> QED
    BY <1>4, <1>7, <2>1, Zenon DEF Lifecycle!LifeNext
<1>8. CASE new.plan = old.plan /\ k \in Denied /\ new.phase = "Failed"
  <2>1. Lifecycle!Deny(k)
    BY <1>4, <1>5, <1>8, Zenon DEF Lifecycle!Deny, Shows
  <2> QED
    BY <2>1, Zenon DEF Lifecycle!LifeNext
<1>9. CASE ~Planned(old) /\ Planned(new) /\ new.phase = "Distributing"
  <2>1. new.plan \in Lifecycle!Plans
    <3>1. PICK D \in SUBSET Shards : new.plan \in [D -> Spokes]
      BY <1>1, Zenon DEF LoadTest, Assignments
    <3>2. D # {}
      BY <1>9, <3>1, Zenon DEF Planned
    <3> QED
      BY <3>1, <3>2, Zenon DEF Lifecycle!Plans
  <2>2. ~Lifecycle!IsPlanned(k)
    BY <1>1, <1>9, Seen, Zenon DEF Lifecycle!IsPlanned, Planned, Shows
  <2>3. Lifecycle!Plan(k)
    BY <1>4, <1>5, <1>9, <2>1, <2>2, Zenon DEF Lifecycle!Plan, Shows
  <2> QED
    BY <2>3, Zenon DEF Lifecycle!LifeNext
<1>10. CASE /\ Planned(old) /\ new.plan = old.plan
            /\ new.phase \in {"Running", "Completed", "Failed", "Aborted"}
            /\ new.phase = "Completed" => AllRan(k, old.run, old.plan, done)
  <2>1. new.phase = "Running" => Lifecycle!Progress(k)
    BY <1>4, <1>5, <1>6, <1>10, Zenon DEF Lifecycle!Progress, Shows
  <2>2. new.phase \in {"Failed", "Aborted"} => Lifecycle!Stop(k)
    BY <1>4, <1>5, <1>6, <1>10, Zenon DEF Lifecycle!Stop, Shows
  <2>3. new.phase = "Completed" => Lifecycle!Complete(k)
    <3>1. new.phase = "Completed" =>
              \/ \A i \in DOMAIN Shows[k].plan : <<k, Shows[k].run, i>> \in done
              \/ \E earlier \in 1 .. Shows[k].run - 1, i \in Shards : <<k, earlier, i>> \in done
      BY <1>1, <1>10, Seen, Zenon DEF AllRan
    <3> QED
      BY <1>4, <1>5, <1>6, <1>10, <3>1, Zenon DEF Lifecycle!Complete, Shows
  <2> QED
    BY <1>10, <2>1, <2>2, <2>3, Zenon DEF Lifecycle!LifeNext
<1> QED
  BY <1>7, <1>8, <1>9, <1>10, Zenon DEF Writes

\* Users and the end of a deletion take the other steps.
LEMMA UsersMap ==
  ASSUME TypeOK, StoredSound, NEW k \in LoadTests, NEW new, cr' = [cr EXCEPT ![k] = new], UNCHANGED done,
         Creates(k, new) \/ Marks(k, new) \/ Drops(k, new)
  PROVE  Lifecycle!LifeNext
<1>1. Shows' = [Shows EXCEPT ![k] = Shown(new)]
  BY ShowsStep, Zenon
<1>2. CASE Creates(k, new)
  <2>1. PICK run : run = runs[k] + 1
    BY Zenon
  <2>2. run \in 1 .. MaxRuns
    <3>1. runs[k] \in Nat /\ runs[k] < MaxRuns
      BY <1>2, Zenon DEF Creates, TypeOK
    <3> QED
      BY <2>1, <3>1, BoundsAssumption
  <2>3. Shows[k] = Absent
    BY <1>2, Zenon DEF Creates, Shows, Shown
  <2>4. Shown(new) = [run |-> run, deleting |-> FALSE, phase |-> "", plan |-> [i \in {} |-> Absent]]
    <3>1. new = NewTest(run) /\ run \in Nat
      BY <1>2, <2>1, <2>2 DEF Creates
    <3>2. NoPlan = [i \in {} |-> Absent] /\ NoPlan \in [{} -> Spokes]
      BY DEF NoPlan
    <3>3. NewTest(run) \in LoadTest
      <4>1. NoPlan \in Assignments
        BY <3>2, Zenon DEF Assignments
      <4> QED
        BY <3>1, <4>1, Zenon DEF NewTest, LoadTest, Phases
    <3>4. /\ NewTest(run).run = run /\ NewTest(run).deleting = FALSE /\ NewTest(run).phase = ""
          /\ NewTest(run).plan = NoPlan
      BY DEF NewTest
    <3> QED
      BY <3>1, <3>2, <3>3, <3>4, ShownType, Zenon
  <2>5. Lifecycle!Create(k)
    BY <1>1, <2>2, <2>3, <2>4, Zenon DEF Lifecycle!Create, Shows
  <2> QED
    BY <2>5, Zenon DEF Lifecycle!LifeNext
<1>3. CASE Marks(k, new)
  <2>1. cr[k] # Absent /\ new = [cr[k] EXCEPT !.deleting = TRUE]
    BY <1>3, Zenon DEF Marks
  <2>2. cr[k] \in LoadTest
    BY <2>1, Zenon DEF TypeOK, CtlTypeOK
  <2>3. /\ new \in LoadTest /\ new.run = cr[k].run /\ new.deleting = TRUE /\ new.phase = cr[k].phase
        /\ new.plan = cr[k].plan
    BY <2>1, <2>2, Zenon DEF LoadTest
  <2>4. Shown(new) = [Shows[k] EXCEPT !.deleting = TRUE]
    <3>1. Shows[k] = Shown(cr[k])
      BY Zenon DEF Shows
    <3>2. Shown(new) = [run |-> cr[k].run, deleting |-> TRUE, phase |-> cr[k].phase, plan |-> cr[k].plan]
      BY <2>3, ShownType, Zenon
    <3>3. Shows[k] = [run |-> cr[k].run, deleting |-> cr[k].deleting, phase |-> cr[k].phase,
                      plan |-> cr[k].plan]
      BY <2>2, <3>1, ShownType, Zenon
    <3>4. PICK flag : flag = TRUE
      BY Zenon
    <3>5. [Shows[k] EXCEPT !.deleting = flag]
            = [run |-> cr[k].run, deleting |-> flag, phase |-> cr[k].phase, plan |-> cr[k].plan]
      BY <3>3
    <3> QED
      BY <3>2, <3>4, <3>5, Zenon
  <2>5. Lifecycle!Delete(k)
    BY <1>1, <2>1, <2>4, Seen, Zenon DEF Lifecycle!Delete, Shows
  <2> QED
    BY <2>5, Zenon DEF Lifecycle!LifeNext
<1>4. CASE Drops(k, new)
  <2>1. cr[k] # Absent /\ (cr[k].deleting \/ ~cr[k].finalizer) /\ new = Absent
    BY <1>4, Zenon DEF Drops
  <2>2. cr[k].deleting \/ cr[k].phase = ""
    BY <2>1, Zenon DEF StoredSound, Sound
  <2>3. Shown(new) = Absent
    BY <2>1, Zenon DEF Shown
  <2>4. Lifecycle!Remove(k)
    BY <1>1, <2>1, <2>2, <2>3, Seen, Zenon DEF Lifecycle!Remove, Shows
  <2> QED
    BY <2>4, Zenon DEF Lifecycle!LifeNext
<1> QED
  BY <1>2, <1>3, <1>4, Zenon

\* A shard that completes is one of a run that was created.
LEMMA RanMap ==
  ASSUME TypeOK, ReplaysGenuine, StoredSound, UNCHANGED cr, DoneStep
  PROVE  Lifecycle!LifeNext \/ UNCHANGED done
<1> SUFFICES ASSUME NEW s \in Spokes, NEW k \in LoadTests, NEW i \in Shards, tr[s][k][i] # NoReplay,
                    done' = done \cup {<<k, tr[s][k][i].run, i>>}
             PROVE  Lifecycle!LifeNext
  BY Zenon DEF DoneStep
<1> DEFINE run == tr[s][k][i].run
<1>1. run \in Nat /\ runs[k] \in Nat
  BY ReplayTypes, Zenon DEF TypeOK
<1>2. 1 <= run /\ run <= runs[k] /\ runs[k] <= MaxRuns
  BY Zenon DEF ReplaysGenuine, Genuine, StoredSound, Sound
<1> HIDE DEF run
<1>3. run \in 1 .. MaxRuns
  BY <1>1, <1>2, BoundsAssumption
<1>4. Lifecycle!Ran(k)
  BY <1>3, Zenon DEF Lifecycle!Ran, run
<1> QED
  BY <1>4, Zenon DEF Lifecycle!LifeNext

\* Every step is one of the lifecycle, or none.
LEMMA LifecycleStep ==
  ASSUME TypeOK, Life, StoredStep, DoneStep
  PROVE  [Lifecycle!LifeNext]_(Lifecycle!lifeVars)
<1>1. UNCHANGED done /\ Shows' = Shows => UNCHANGED Lifecycle!lifeVars
  BY Zenon DEF Lifecycle!lifeVars, Shows
<1>2. CASE UNCHANGED cr
  <2>1. Shows' = Shows
    BY <1>2, Zenon DEF Shows
  <2> QED
    BY <1>1, <1>2, <2>1, RanMap, Zenon DEF Life
<1>3. ASSUME NEW k \in LoadTests, NEW new, cr' = [cr EXCEPT ![k] = new], UNCHANGED done,
             Creates(k, new) \/ Marks(k, new) \/ Drops(k, new) \/ Writes(k, new)
      PROVE  [Lifecycle!LifeNext]_(Lifecycle!lifeVars)
  BY <1>1, <1>3, UsersMap, WritesMap, Zenon DEF Life
<1> QED
  BY <1>2, <1>3, Zenon DEF StoredStep

\* The initial states are those of the lifecycle.
LEMMA LifecycleStart ==
  ASSUME Init
  PROVE  Lifecycle!LifeInit
<1>1. cr = [k \in LoadTests |-> Absent] /\ done = {}
  BY Zenon DEF Init, CtlInit, SpokeInit
<1>2. [k \in LoadTests |-> Shown(cr[k])] = [k \in LoadTests |-> Absent]
  BY <1>1, Zenon DEF Shown
<1> QED
  BY <1>1, <1>2, Zenon DEF Lifecycle!LifeInit
=============================================================================
