---------------------------- MODULE ReplayProofs ----------------------------
(***************************************************************************)
(* What the TrafficReplay reconciler, the engine manager and the payload   *)
(* pipeline guarantee, for every value of their constants.                 *)
(***************************************************************************)
EXTENDS ReplayJobs, EngineManager, PayloadPipeline, TLAPS

\* A tuple of one pass.
LEMMA OnePass ==
  ASSUME NEW p
  PROVE  <<p>>[1] = p /\ <<p>> # <<>> /\ \A q : <<p>> = <<q>> => p = q
<1>1. <<p>>[1] = p /\ <<p>> # <<>>
  BY Zenon
<1>2. \A q : <<q>>[1] = q
  BY Zenon
<1> QED
  BY <1>1, <1>2, Zenon

-----------------------------------------------------------------------------
(***************************************************************************)
(* The TrafficReplay reconciler: results stand, and are the replay's own.  *)
(***************************************************************************)
JobsSpec == JobsInit /\ [][JobsNext]_jobVars

ReplayPhases == {"New", "Pending", "Running", "Completed", "Failed"}
ReplayRecord == [live : {"absent", "present", "deleting"}, gen : Nat, finalizer : BOOLEAN,
                 spec : {"ok", "denied", "invalid"}, phase : ReplayPhases, decided : Nat]
JobRecord == [owner : Nat, state : {"waiting", "active", "succeeded", "failed"}]
PassPCs == {"finalizer", "decide", "create", "write", "delete-job", "release"}
PassRecord == [tr : ReplayRecord, pc : PassPCs, stale : BOOLEAN]

JobTypes ==
    /\ informersLag \in BOOLEAN
    /\ replay \in ReplayRecord
    /\ replayCopy \in [of : ReplayRecord, fresh : BOOLEAN]
    /\ job \in JobRecord /\ jobCopy \in JobRecord
    /\ replayPass = <<>> \/ \E p \in PassRecord : replayPass = <<p>>

\* What a pass p whose copy is not stale knows of the stored TrafficReplay t.
PassSound(p, t) ==
    ~p.stale =>
        /\ t.live # "absent"
        /\ p.pc # "write" => p.tr = t
        /\ p.pc \in {"decide", "create", "write"} => ~Terminal(t)
        /\ p.tr.live = t.live /\ p.tr.gen = t.gen /\ p.tr.finalizer = t.finalizer

Standing ==
    /\ replayCopy.fresh => replayCopy.of = replay
    /\ replay.live = "absent" => ~Terminal(replay)
    /\ \A p \in PassRecord : replayPass = <<p>> => PassSound(p, replay)

\* Without lag, whatever a pass p is about to do it does for the stored TrafficReplay t,
\* and j, if it is a Job, belongs to t.
PassOwn(p, t, j) ==
    /\ p.tr.decided \in {0, p.tr.gen}
    /\ p.pc # "finalizer" => p.tr.gen = t.gen /\ t.finalizer /\ t.live # "absent"
    /\ p.pc = "release" => j = NoJob

ReplayOwn(t, j) ==
    /\ t.decided \in {0, t.gen}
    /\ t.live = "deleting" => t.finalizer
    /\ j # NoJob => j.owner = t.gen /\ t.finalizer /\ t.live # "absent"

Owned ==
    ~informersLag =>
        /\ replayCopy = [of |-> replay, fresh |-> TRUE] /\ jobCopy = job
        /\ ReplayOwn(replay, job)
        /\ \A p \in PassRecord : replayPass = <<p>> => PassOwn(p, replay, job)

JobsInv == JobTypes /\ Standing /\ Owned

\* A step that lets results stand, as ResultStands says.
Stands ==
    /\ Terminal(replay) /\ replay'.live # "absent" => replay'.phase = replay.phase
    /\ ~informersLag' => replay'.decided \in {0, replay'.gen}

\* The pass p goes on at pc with t in hand, or ends.
PassMoved(p, t, pc) ==
    \/ replayPass' = <<>> /\ pc = "return"
    \/ \E q \in PassRecord : /\ replayPass' = <<q>> /\ pc # "return"
                             /\ q.tr = t /\ q.pc = pc /\ q.stale = p.stale

LEMMA PassMoves ==
  ASSUME NEW p \in PassRecord, replayPass = <<p>>, NEW t \in ReplayRecord, NEW pc,
         pc \in PassPCs \cup {"return"}, ReplayGoto(t, pc)
  PROVE  PassMoved(p, t, pc)
<1> DEFINE q == [p EXCEPT !.tr = t, !.pc = pc]
<1>1. replayPass' = IF pc = "return" THEN <<>> ELSE <<q>>
  BY OnePass, Zenon DEF ReplayGoto
<1>2. pc # "return" => q \in PassRecord /\ q.tr = t /\ q.pc = pc /\ q.stale = p.stale
  BY Zenon DEF PassRecord, PassPCs
<1> HIDE DEF q
<1> QED
  BY <1>1, <1>2, Zenon DEF PassMoved

\* What a step may leave as the pass in progress, when it leaves t and j stored.
GoodPass(t, j) ==
    \/ replayPass' = <<>>
    \/ \E q \in PassRecord : /\ replayPass' = <<q>> /\ PassSound(q, t)
                             /\ ~informersLag => PassOwn(q, t, j)

LEMMA GoodPassNext ==
  ASSUME NEW t, NEW j, GoodPass(t, j)
  PROVE  /\ replayPass' = <<>> \/ \E q \in PassRecord : replayPass' = <<q>>
         /\ \A q \in PassRecord : replayPass' = <<q>> =>
                PassSound(q, t) /\ (~informersLag => PassOwn(q, t, j))
  BY OnePass, Zenon DEF GoodPass

\* A step that leaves the TrafficReplay and the Job alone.
LEMMA NothingStored ==
  ASSUME JobsInv, UNCHANGED <<informersLag, replay, replayCopy, job, jobCopy>>,
         GoodPass(replay, job)
  PROVE  JobsInv' /\ Stands
<1>1. /\ replayPass' = <<>> \/ \E q \in PassRecord : replayPass' = <<q>>
      /\ \A q \in PassRecord : replayPass' = <<q>> =>
             PassSound(q, replay) /\ (~informersLag => PassOwn(q, replay, job))
  BY GoodPassNext, Zenon
<1>2. JobTypes'
  BY <1>1, Zenon DEF JobsInv, JobTypes
<1>3. Standing'
  BY <1>1, Zenon DEF JobsInv, Standing
<1>4. Owned'
  BY <1>1, Zenon DEF JobsInv, Owned
<1>5. Stands
  BY Zenon DEF JobsInv, Owned, ReplayOwn, Stands
<1> QED
  BY <1>2, <1>3, <1>4, <1>5, Zenon DEF JobsInv

\* A step that stores a version t of the TrafficReplay.
LEMMA ReplayStored ==
  ASSUME JobsInv, NEW t \in ReplayRecord, StoreReplay(t), UNCHANGED <<informersLag, job, jobCopy>>,
         t.live = "absent" => ~Terminal(t), ~informersLag => ReplayOwn(t, job),
         Terminal(replay) /\ t.live # "absent" => t.phase = replay.phase,
         GoodPass(t, job)
  PROVE  JobsInv' /\ Stands
<1>1. /\ replayPass' = <<>> \/ \E q \in PassRecord : replayPass' = <<q>>
      /\ \A q \in PassRecord : replayPass' = <<q>> =>
             PassSound(q, t) /\ (~informersLag => PassOwn(q, t, job))
  BY GoodPassNext, Zenon
<1>2. /\ replay' = t
      /\ replayCopy' \in [of : ReplayRecord, fresh : BOOLEAN]
      /\ replayCopy'.fresh => replayCopy'.of = t
      /\ ~informersLag => replayCopy' = [of |-> t, fresh |-> TRUE]
  <2>1. CASE informersLag
    <3>1. replayCopy' = [replayCopy EXCEPT !.fresh = FALSE] /\ replay' = t
      BY <2>1, Zenon DEF StoreReplay
    <3> QED
      BY <2>1, <3>1, Zenon DEF JobsInv, JobTypes
  <2>2. CASE ~informersLag
    BY <2>2, Zenon DEF StoreReplay
  <2> QED
    BY <2>1, <2>2, Zenon
<1>3. JobTypes'
  BY <1>1, <1>2, Zenon DEF JobsInv, JobTypes
<1>4. Standing'
  BY <1>1, <1>2, Zenon DEF JobsInv, Standing
<1>5. Owned'
  BY <1>1, <1>2, Zenon DEF JobsInv, Owned
<1>6. Stands
  BY <1>2, Zenon DEF Stands, ReplayOwn
<1> QED
  BY <1>3, <1>4, <1>5, <1>6, Zenon DEF JobsInv

\* A step that stores a version j of the Job, or lets the cache see the stored one.
LEMMA JobStored ==
  ASSUME JobsInv, NEW j \in JobRecord, job' = j,
         jobCopy' \in {jobCopy, j}, ~informersLag => jobCopy' = j,
         UNCHANGED <<informersLag, replay, replayCopy>>,
         ~informersLag => ReplayOwn(replay, j), GoodPass(replay, j)
  PROVE  JobsInv' /\ Stands
<1>1. /\ replayPass' = <<>> \/ \E q \in PassRecord : replayPass' = <<q>>
      /\ \A q \in PassRecord : replayPass' = <<q>> =>
             PassSound(q, replay) /\ (~informersLag => PassOwn(q, replay, j))
  BY GoodPassNext, Zenon
<1>2. JobTypes'
  BY <1>1, Zenon DEF JobsInv, JobTypes
<1>3. Standing'
  BY <1>1, Zenon DEF JobsInv, Standing
<1>4. Owned'
  BY <1>1, Zenon DEF JobsInv, Owned
<1>5. Stands
  BY Zenon DEF JobsInv, Owned, ReplayOwn, Stands
<1> QED
  BY <1>2, <1>3, <1>4, <1>5, Zenon DEF JobsInv

\* The pass in progress.
LEMMA PassAt ==
  ASSUME JobsInv, NEW pc, ReplayAt(pc)
  PROVE  \E p \in PassRecord :
            /\ replayPass = <<p>> /\ replayPass[1] = p /\ p.pc = pc /\ Mine = p.tr
            /\ p.tr \in ReplayRecord
            /\ PassSound(p, replay) /\ (~informersLag => PassOwn(p, replay, job))
<1>1. PICK p \in PassRecord : replayPass = <<p>>
  BY Zenon DEF JobsInv, JobTypes, ReplayAt
<1>2. replayPass[1] = p
  BY <1>1, OnePass, Zenon
<1>3. p.tr \in ReplayRecord
  BY <1>1, Zenon DEF PassRecord
<1> QED
  BY <1>1, <1>2, <1>3, Zenon DEF JobsInv, Standing, Owned, ReplayAt, Mine

\* A pass that ends, in whatever way, leaves nothing to be said of it.
LEMMA PassOver ==
  ASSUME NEW t, NEW j, replayPass' = <<>>
  PROVE  GoodPass(t, j)
  BY Zenon DEF GoodPass

LEMMA BeginStands ==
  ASSUME JobsInv, ReplayBegin
  PROVE  JobsInv' /\ Stands
<1> DEFINE c == replayCopy.of
           q == [tr |-> c, pc |-> ReplayFirst(c), stale |-> ~replayCopy.fresh]
<1>1. c \in ReplayRecord /\ replayCopy.fresh \in BOOLEAN
  BY Zenon DEF JobsInv, JobTypes
<1>2. /\ ReplayFirst(c) \in {"delete-job", "finalizer", "decide"}
      /\ ReplayFirst(c) = "decide" => ~Terminal(c) /\ c.finalizer
      /\ ReplayFirst(c) = "delete-job" => c.live = "deleting"
  BY Zenon DEF ReplayBegin, ReplayFirst
<1>3. /\ q \in PassRecord /\ q.tr = c /\ q.pc = ReplayFirst(c) /\ q.stale = ~replayCopy.fresh
  <2>1. ReplayFirst(c) \in PassPCs
    BY <1>2, Zenon DEF PassPCs
  <2> QED
    BY <1>1, <2>1, Zenon DEF PassRecord
<1>4. c.live # "absent" /\ replayPass' = <<q>>
      /\ UNCHANGED <<informersLag, replay, replayCopy, job, jobCopy>>
  BY Zenon DEF ReplayBegin
<1>5. replayCopy.fresh => c = replay
  BY Zenon DEF JobsInv, Standing
<1>6. PassSound(q, replay)
  BY <1>2, <1>3, <1>4, <1>5, Zenon DEF PassSound
<1>7. ~informersLag => PassOwn(q, replay, job)
  <2> SUFFICES ASSUME ~informersLag PROVE PassOwn(q, replay, job)
    BY Zenon
  <2>0. replayCopy = [of |-> replay, fresh |-> TRUE] /\ ReplayOwn(replay, job)
    BY Zenon DEF JobsInv, Owned
  <2>1. c = replay
    BY <2>0, Zenon
  <2> HIDE DEF q, c
  <2> QED
    BY <1>2, <1>3, <1>4, <2>0, <2>1, Zenon DEF PassOwn, ReplayOwn
<1> HIDE DEF q, c
<1>8. GoodPass(replay, job)
  BY <1>3, <1>4, <1>6, <1>7, Zenon DEF GoodPass
<1> QED
  BY <1>4, <1>8, NothingStored, Zenon

\* A write of t, over the version the pass read, that ends the pass or leads to the Job.
LEMMA WriteStands ==
  ASSUME JobsInv, NEW p \in PassRecord, replayPass = <<p>>, replayPass[1] = p,
         NEW t \in ReplayRecord, NEW next \in {"decide", "delete-job", "return"},
         WriteReplay(t, next), UNCHANGED <<informersLag, job, jobCopy>>,
         ~p.stale => /\ t.live = "absent" => ~Terminal(t)
                     /\ ~informersLag => ReplayOwn(t, job)
                     /\ Terminal(replay) /\ t.live # "absent" => t.phase = replay.phase
                     /\ next # "return" => t.live # "absent" /\ t.finalizer
                     /\ next = "decide" => ~Terminal(t)
  PROVE  JobsInv' /\ Stands
<1>1. CASE p.stale
  BY <1>1, PassOver, NothingStored, Zenon DEF WriteReplay
<1>2. CASE ~p.stale
  <2>1. StoreReplay(t) /\ ReplayGoto(t, next)
    BY <1>2, Zenon DEF WriteReplay
  <2>2. next \in PassPCs \cup {"return"}
    BY Zenon DEF PassPCs
  <2>3. \/ replayPass' = <<>>
        \/ \E q \in PassRecord : replayPass' = <<q>> /\ q.tr = t /\ q.pc = next /\ next # "return"
    <3>1. PassMoved(p, t, next)
      BY <2>1, <2>2, PassMoves, Zenon
    <3> QED
      BY <3>1, Zenon DEF PassMoved
  <2>4. GoodPass(t, job)
    <3>1. CASE replayPass' = <<>>
      BY <3>1, PassOver, Zenon
    <3>2. ASSUME NEW q \in PassRecord, replayPass' = <<q>>, q.tr = t, q.pc = next, next # "return"
          PROVE  GoodPass(t, job)
      <4>1. PassSound(q, t)
        BY <1>2, <3>2, Zenon DEF PassSound
      <4>2. ~informersLag => PassOwn(q, t, job)
        BY <1>2, <3>2, Zenon DEF PassOwn, ReplayOwn
      <4> QED
        BY <3>2, <4>1, <4>2, Zenon DEF GoodPass
    <3> QED
      BY <2>3, <3>1, <3>2, Zenon
  <2> QED
    BY <1>2, <2>1, <2>4, ReplayStored, Zenon
<1> QED
  BY <1>1, <1>2, Zenon

LEMMA FinalizerStands ==
  ASSUME JobsInv, AddReplayFinalizer
  PROVE  JobsInv' /\ Stands
<1>1. PICK p \in PassRecord :
        /\ replayPass = <<p>> /\ replayPass[1] = p /\ p.pc = "finalizer" /\ Mine = p.tr
        /\ p.tr \in ReplayRecord
        /\ PassSound(p, replay) /\ (~informersLag => PassOwn(p, replay, job))
  BY PassAt, Zenon DEF AddReplayFinalizer
<1> DEFINE t == [p.tr EXCEPT !.finalizer = TRUE]
<1>2. WriteReplay(t, ReplayFirst(t)) /\ UNCHANGED <<informersLag, job, jobCopy>>
  BY <1>1, Zenon DEF AddReplayFinalizer
<1>3. /\ t \in ReplayRecord /\ t.finalizer /\ t.live = p.tr.live /\ t.gen = p.tr.gen
      /\ t.phase = p.tr.phase /\ t.decided = p.tr.decided
  BY <1>1, Zenon DEF ReplayRecord
<1> HIDE DEF t
<1>4. /\ ReplayFirst(t) \in {"decide", "delete-job", "return"}
      /\ ReplayFirst(t) = "decide" => ~Terminal(t)
  BY <1>3, Zenon DEF ReplayFirst
<1>5. ~p.stale => p.tr = replay /\ replay.live # "absent"
  BY <1>1, Zenon DEF PassSound
<1>6. ~p.stale /\ ~informersLag => ReplayOwn(t, job)
  <2> SUFFICES ASSUME ~p.stale, ~informersLag PROVE ReplayOwn(t, job)
    BY Zenon
  <2>1. ReplayOwn(replay, job)
    BY Zenon DEF JobsInv, Owned
  <2> QED
    BY <1>3, <1>5, <2>1, Zenon DEF ReplayOwn
<1>7. ~p.stale => /\ t.live = "absent" => ~Terminal(t)
                  /\ Terminal(replay) /\ t.live # "absent" => t.phase = replay.phase
                  /\ ReplayFirst(t) # "return" => t.live # "absent" /\ t.finalizer
  BY <1>3, <1>5, Zenon
<1> QED
  BY <1>1, <1>2, <1>3, <1>4, <1>6, <1>7, WriteStands, Zenon

LEMMA StatusStands ==
  ASSUME JobsInv, UpdateReplayStatus
  PROVE  JobsInv' /\ Stands
<1>1. PICK p \in PassRecord :
        /\ replayPass = <<p>> /\ replayPass[1] = p /\ p.pc = "write" /\ Mine = p.tr
        /\ p.tr \in ReplayRecord
        /\ PassSound(p, replay) /\ (~informersLag => PassOwn(p, replay, job))
  BY PassAt, Zenon DEF UpdateReplayStatus
<1>2. WriteReplay(p.tr, "return") /\ UNCHANGED <<informersLag, job, jobCopy>>
  BY <1>1, Zenon DEF UpdateReplayStatus
<1>3. ~p.stale => /\ ~Terminal(replay) /\ p.tr.live # "absent"
                  /\ p.tr.live = replay.live /\ p.tr.gen = replay.gen
                  /\ p.tr.finalizer = replay.finalizer
  BY <1>1, Zenon DEF PassSound
<1>4. ~p.stale /\ ~informersLag => ReplayOwn(p.tr, job)
  <2> SUFFICES ASSUME ~p.stale, ~informersLag PROVE ReplayOwn(p.tr, job)
    BY Zenon
  <2>1. ReplayOwn(replay, job) /\ p.tr.decided \in {0, p.tr.gen}
    BY <1>1, Zenon DEF JobsInv, Owned, PassOwn
  <2> QED
    BY <1>3, <2>1, Zenon DEF ReplayOwn
<1>5. "return" \in {"decide", "delete-job", "return"}
  BY Zenon
<1> QED
  BY <1>1, <1>2, <1>3, <1>4, <1>5, WriteStands, Zenon

LEMMA ReleaseStands ==
  ASSUME JobsInv, ReleaseReplay
  PROVE  JobsInv' /\ Stands
<1>1. PICK p \in PassRecord :
        /\ replayPass = <<p>> /\ replayPass[1] = p /\ p.pc = "release" /\ Mine = p.tr
        /\ p.tr \in ReplayRecord
        /\ PassSound(p, replay) /\ (~informersLag => PassOwn(p, replay, job))
  BY PassAt, Zenon DEF ReleaseReplay
<1> DEFINE t == NoReplay(p.tr.gen)
<1>2. WriteReplay(t, "return") /\ UNCHANGED <<informersLag, job, jobCopy>>
  BY <1>1, Zenon DEF ReleaseReplay
<1>3. p.tr.gen \in Nat
  BY <1>1, Zenon DEF ReplayRecord
<1>4. t \in ReplayRecord /\ t.live = "absent" /\ ~Terminal(t) /\ t.decided = 0
  BY <1>3, Zenon DEF NoReplay, ReplayRecord, ReplayPhases, Terminal
<1> HIDE DEF t
<1>5. ~informersLag => ReplayOwn(t, job)
  <2>1. ~informersLag => job = NoJob
    BY <1>1, Zenon DEF PassOwn
  <2> QED
    BY <1>4, <2>1, Zenon DEF ReplayOwn
<1>6. "return" \in {"decide", "delete-job", "return"}
  BY Zenon
<1> QED
  BY <1>1, <1>2, <1>4, <1>5, <1>6, WriteStands, Zenon

\* The pass p goes on to write t, a version of what it read with another result, or to create.
LEMMA DecidedGood ==
  ASSUME JobsInv, NEW p \in PassRecord, replayPass = <<p>>, p.pc \in {"decide", "create"},
         PassSound(p, replay), NEW j, ~informersLag => PassOwn(p, replay, job),
         NEW t \in ReplayRecord, NEW pc \in {"create", "write"}, ReplayGoto(t, pc),
         t.live = p.tr.live, t.gen = p.tr.gen, t.finalizer = p.tr.finalizer,
         ~informersLag => t.decided \in {0, t.gen}, pc = "create" => t = p.tr
  PROVE  GoodPass(replay, j)
<1>1. pc \in PassPCs \cup {"return"} /\ pc # "return"
  BY Zenon DEF PassPCs
<1>2. PassMoved(p, t, pc)
  BY <1>1, PassMoves, Zenon
<1>3. PICK q \in PassRecord : replayPass' = <<q>> /\ q.tr = t /\ q.pc = pc /\ q.stale = p.stale
  BY <1>1, <1>2, Zenon DEF PassMoved
<1>4. PassSound(q, replay)
  BY <1>3, Zenon DEF PassSound
<1>5. ~informersLag => PassOwn(q, replay, j)
  BY <1>3, Zenon DEF PassOwn
<1> QED
  BY <1>3, <1>4, <1>5, Zenon DEF GoodPass

\* What a Job's status makes of a TrafficReplay.
LEMMA FromJobResult ==
  ASSUME NEW t \in ReplayRecord, NEW j \in JobRecord
  PROVE  /\ FromJob(t, j) \in ReplayRecord /\ FromJob(t, j).live = t.live
         /\ FromJob(t, j).gen = t.gen /\ FromJob(t, j).finalizer = t.finalizer
         /\ FromJob(t, j).decided \in {t.decided, j.owner}
<1>1. /\ j.state \in {"waiting", "active", "succeeded", "failed"} /\ j.owner \in Nat
  BY Zenon DEF JobRecord
<1>2. CASE j.state = "succeeded"
  <2>1. FromJob(t, j) = [t EXCEPT !.phase = "Completed", !.decided = j.owner]
    BY <1>2, Zenon DEF FromJob
  <2> QED
    BY <1>1, <2>1, Zenon DEF ReplayRecord, ReplayPhases
<1>3. CASE j.state = "failed"
  <2>1. FromJob(t, j) = [t EXCEPT !.phase = "Failed", !.decided = j.owner]
    BY <1>3, Zenon DEF FromJob
  <2> QED
    BY <1>1, <2>1, Zenon DEF ReplayRecord, ReplayPhases
<1>4. CASE j.state = "active"
  <2>1. FromJob(t, j) = [t EXCEPT !.phase = "Running"]
    BY <1>4, Zenon DEF FromJob
  <2> QED
    BY <1>1, <2>1, Zenon DEF ReplayRecord, ReplayPhases
<1>5. CASE j.state = "waiting"
  <2>1. FromJob(t, j) = [t EXCEPT !.phase = "Pending"]
    BY <1>5, Zenon DEF FromJob
  <2> QED
    BY <1>1, <2>1, Zenon DEF ReplayRecord, ReplayPhases
<1> QED
  BY <1>1, <1>2, <1>3, <1>4, <1>5, Zenon

LEMMA PhaseResult ==
  ASSUME NEW t \in ReplayRecord, NEW phase \in ReplayPhases
  PROVE  LET u == [t EXCEPT !.phase = phase]
         IN  /\ u \in ReplayRecord /\ u.live = t.live /\ u.gen = t.gen
             /\ u.finalizer = t.finalizer /\ u.decided = t.decided
  BY Zenon DEF ReplayRecord

LEMMA DecideStands ==
  ASSUME JobsInv, DecideReplay
  PROVE  JobsInv' /\ Stands
<1>1. PICK p \in PassRecord :
        /\ replayPass = <<p>> /\ replayPass[1] = p /\ p.pc = "decide" /\ Mine = p.tr
        /\ p.tr \in ReplayRecord
        /\ PassSound(p, replay) /\ (~informersLag => PassOwn(p, replay, job))
  BY PassAt, Zenon DEF DecideReplay
<1>2. /\ \/ \E phase \in {"Failed", "Pending"} : ReplayGoto([p.tr EXCEPT !.phase = phase], "write")
         \/ ReplayGoto(p.tr, "create")
         \/ jobCopy # NoJob /\ ReplayGoto(FromJob(p.tr, jobCopy), "write")
      /\ UNCHANGED <<informersLag, replay, replayCopy, job, jobCopy>>
  BY <1>1, Zenon DEF DecideReplay
<1>3. ~informersLag => p.tr.decided \in {0, p.tr.gen} /\ p.tr.gen = replay.gen
  BY <1>1, Zenon DEF PassOwn
<1>4. /\ p.pc \in {"decide", "create"} /\ {"Failed", "Pending"} \subseteq ReplayPhases
      /\ "write" \in {"create", "write"} /\ "create" \in {"create", "write"} /\ "create" # "write"
  BY <1>1, Zenon DEF ReplayPhases
<1>5. ASSUME NEW phase \in {"Failed", "Pending"}, ReplayGoto([p.tr EXCEPT !.phase = phase], "write")
      PROVE  GoodPass(replay, job)
  <2> DEFINE u == [p.tr EXCEPT !.phase = phase]
  <2>1. /\ u \in ReplayRecord /\ u.live = p.tr.live /\ u.gen = p.tr.gen
        /\ u.finalizer = p.tr.finalizer /\ u.decided = p.tr.decided
    BY <1>1, <1>4, PhaseResult, Zenon
  <2>2. ReplayGoto(u, "write")
    BY <1>5, Zenon
  <2> HIDE DEF u
  <2> QED
    BY <1>1, <1>3, <1>4, <2>1, <2>2, DecidedGood, Zenon
<1>6. ASSUME ReplayGoto(p.tr, "create")
      PROVE  GoodPass(replay, job)
  BY <1>1, <1>3, <1>4, <1>6, DecidedGood, Zenon
<1>7. ASSUME jobCopy # NoJob, ReplayGoto(FromJob(p.tr, jobCopy), "write")
      PROVE  GoodPass(replay, job)
  <2> DEFINE u == FromJob(p.tr, jobCopy)
  <2>1. jobCopy \in JobRecord
    BY Zenon DEF JobsInv, JobTypes
  <2>2. /\ u \in ReplayRecord /\ u.live = p.tr.live /\ u.gen = p.tr.gen
        /\ u.finalizer = p.tr.finalizer /\ u.decided \in {p.tr.decided, jobCopy.owner}
    BY <1>1, <2>1, FromJobResult, Zenon
  <2>3. ~informersLag => jobCopy.owner = replay.gen
    BY <1>7, Zenon DEF JobsInv, Owned, ReplayOwn
  <2>4. ~informersLag => u.decided \in {0, u.gen}
    BY <1>3, <2>2, <2>3, Zenon
  <2>5. ReplayGoto(u, "write")
    BY <1>7, Zenon
  <2> HIDE DEF u
  <2> QED
    BY <1>1, <1>4, <2>2, <2>4, <2>5, DecidedGood, Zenon
<1>8. GoodPass(replay, job)
  BY <1>2, <1>5, <1>6, <1>7, Zenon
<1> QED
  BY <1>2, <1>8, NothingStored, Zenon

LEMMA CreateJobStands ==
  ASSUME JobsInv, CreateJob
  PROVE  JobsInv' /\ Stands
<1>1. PICK p \in PassRecord :
        /\ replayPass = <<p>> /\ replayPass[1] = p /\ p.pc = "create" /\ Mine = p.tr
        /\ p.tr \in ReplayRecord
        /\ PassSound(p, replay) /\ (~informersLag => PassOwn(p, replay, job))
  BY PassAt, Zenon DEF CreateJob
<1>2. CASE job # NoJob
  BY <1>2, PassOver, NothingStored, Zenon DEF CreateJob
<1>3. CASE job = NoJob
  <2> DEFINE j == [owner |-> p.tr.gen, state |-> "waiting"]
             u == [p.tr EXCEPT !.phase = "Pending"]
  <2>1. /\ StoreJob(j) /\ ReplayGoto(u, "write")
        /\ UNCHANGED <<informersLag, replay, replayCopy>>
    BY <1>1, <1>3, Zenon DEF CreateJob
  <2>2. "Pending" \in ReplayPhases /\ "write" \in {"create", "write"} /\ "create" # "write"
        /\ p.pc \in {"decide", "create"}
    BY <1>1, Zenon DEF ReplayPhases
  <2>3. /\ u \in ReplayRecord /\ u.live = p.tr.live /\ u.gen = p.tr.gen
        /\ u.finalizer = p.tr.finalizer /\ u.decided = p.tr.decided
    BY <1>1, <2>2, PhaseResult, Zenon
  <2>4. p.tr.gen \in Nat
    BY <1>1, Zenon DEF ReplayRecord
  <2>5. j \in JobRecord /\ j.owner = p.tr.gen
    BY <2>4, Zenon DEF JobRecord
  <2>6. ~informersLag => /\ p.tr.decided \in {0, p.tr.gen} /\ p.tr.gen = replay.gen
                         /\ replay.finalizer /\ replay.live # "absent"
    BY <1>1, Zenon DEF PassOwn
  <2>7. ~informersLag => ReplayOwn(replay, j)
    BY <2>5, <2>6, Zenon DEF JobsInv, Owned, ReplayOwn
  <2>8. job' = j /\ jobCopy' \in {jobCopy, j} /\ (~informersLag => jobCopy' = j)
    BY <2>1, Zenon DEF StoreJob
  <2> HIDE DEF j, u
  <2>9. GoodPass(replay, j)
    BY <1>1, <2>1, <2>2, <2>3, <2>6, DecidedGood, Zenon
  <2> QED
    BY <2>1, <2>5, <2>7, <2>8, <2>9, JobStored, Zenon
<1> QED
  BY <1>2, <1>3, Zenon

LEMMA DeleteJobStands ==
  ASSUME JobsInv, DeleteJob
  PROVE  JobsInv' /\ Stands
<1>1. PICK p \in PassRecord :
        /\ replayPass = <<p>> /\ replayPass[1] = p /\ p.pc = "delete-job" /\ Mine = p.tr
        /\ p.tr \in ReplayRecord
        /\ PassSound(p, replay) /\ (~informersLag => PassOwn(p, replay, job))
  BY PassAt, Zenon DEF DeleteJob
<1>2. /\ StoreJob(NoJob) /\ ReplayGoto(p.tr, "release")
      /\ UNCHANGED <<informersLag, replay, replayCopy>>
  BY <1>1, Zenon DEF DeleteJob
<1>3. "release" \in PassPCs \cup {"return"}
  BY Zenon DEF PassPCs
<1>4. PassMoved(p, p.tr, "release")
  BY <1>1, <1>2, <1>3, PassMoves, Zenon
<1>5. PICK q \in PassRecord : replayPass' = <<q>> /\ q.tr = p.tr /\ q.pc = "release" /\ q.stale = p.stale
  BY <1>4, Zenon DEF PassMoved
<1>6. PassSound(q, replay)
  BY <1>1, <1>5, Zenon DEF PassSound
<1>7. ~informersLag => PassOwn(q, replay, NoJob)
  BY <1>1, <1>5, Zenon DEF PassOwn
<1>8. GoodPass(replay, NoJob)
  BY <1>5, <1>6, <1>7, Zenon DEF GoodPass
<1>9. NoJob \in JobRecord
  BY Zenon DEF NoJob, JobRecord
<1>10. ~informersLag => ReplayOwn(replay, NoJob)
  BY Zenon DEF JobsInv, Owned, ReplayOwn
<1>11. job' = NoJob /\ jobCopy' \in {jobCopy, NoJob} /\ (~informersLag => jobCopy' = NoJob)
  BY <1>2, Zenon DEF StoreJob
<1> QED
  BY <1>2, <1>8, <1>9, <1>10, <1>11, JobStored, Zenon

\* The Job changes under a pass, which knows nothing of it but that it has deleted it.
LEMMA JobChangeStands ==
  ASSUME JobsInv, NEW j \in JobRecord, StoreJob(j),
         UNCHANGED <<informersLag, replay, replayCopy, replayPass>>,
         j # NoJob => job # NoJob /\ j.owner = job.owner
  PROVE  JobsInv' /\ Stands
<1>1. job' = j /\ jobCopy' \in {jobCopy, j} /\ (~informersLag => jobCopy' = j)
  BY Zenon DEF StoreJob
<1>2. ~informersLag => ReplayOwn(replay, j)
  BY Zenon DEF JobsInv, Owned, ReplayOwn
<1>3. GoodPass(replay, j)
  <2>1. CASE replayPass = <<>>
    BY <2>1, PassOver, Zenon
  <2>2. ASSUME NEW p \in PassRecord, replayPass = <<p>>
        PROVE  GoodPass(replay, j)
    <3>1. PassSound(p, replay) /\ (~informersLag => PassOwn(p, replay, job))
      BY <2>2, Zenon DEF JobsInv, Standing, Owned
    <3>2. ~informersLag => PassOwn(p, replay, j)
      BY <3>1, Zenon DEF PassOwn
    <3> QED
      BY <2>2, <3>1, <3>2, Zenon DEF GoodPass
  <2> QED
    BY <2>1, <2>2, Zenon DEF JobsInv, JobTypes
<1> QED
  BY <1>1, <1>2, <1>3, JobStored, Zenon

LEMMA JobStepsStand ==
  ASSUME JobsInv, JobStarts \/ JobEnds \/ RemoveJob \/ CollectJob
  PROVE  JobsInv' /\ Stands
<1>1. job \in JobRecord /\ NoJob \in JobRecord
  BY Zenon DEF JobsInv, JobTypes, NoJob, JobRecord
<1>2. \A state \in {"active", "succeeded", "failed"} :
        [job EXCEPT !.state = state] \in JobRecord /\ [job EXCEPT !.state = state].owner = job.owner
  BY <1>1, Zenon DEF JobRecord
<1>3. CASE JobStarts
  <2>1. /\ job # NoJob /\ StoreJob([job EXCEPT !.state = "active"])
        /\ UNCHANGED <<informersLag, replay, replayCopy, replayPass>>
    BY <1>3, Zenon DEF JobStarts
  <2> QED
    BY <1>2, <2>1, JobChangeStands, Zenon
<1>4. CASE JobEnds
  <2>1. PICK state \in {"succeeded", "failed"} : StoreJob([job EXCEPT !.state = state])
    BY <1>4, Zenon DEF JobEnds
  <2>2. job # NoJob /\ UNCHANGED <<informersLag, replay, replayCopy, replayPass>>
    BY <1>4 DEF JobEnds, NoJob
  <2> QED
    BY <1>2, <2>1, <2>2, JobChangeStands, Zenon
<1>5. CASE RemoveJob \/ CollectJob
  <2>1. StoreJob(NoJob) /\ UNCHANGED <<informersLag, replay, replayCopy, replayPass>>
    BY <1>5, Zenon DEF RemoveJob, CollectJob
  <2> QED
    BY <1>1, <2>1, JobChangeStands, Zenon
<1> QED
  BY <1>3, <1>4, <1>5, Zenon

\* Steps that change nothing of a TrafficReplay, a Job or a pass but what a cache shows.
LEMMA CacheStepsStand ==
  ASSUME JobsInv, UNCHANGED <<informersLag, replay, job, replayPass>>,
         replayCopy' = replayCopy \/ replayCopy' = [of |-> replay, fresh |-> TRUE],
         jobCopy' = jobCopy \/ jobCopy' = job
  PROVE  JobsInv' /\ Stands
<1>1. /\ replayCopy' \in [of : ReplayRecord, fresh : BOOLEAN]
      /\ replayCopy'.fresh => replayCopy'.of = replay
      /\ ~informersLag => replayCopy' = [of |-> replay, fresh |-> TRUE] /\ jobCopy' = job
  <2>1. CASE replayCopy' = replayCopy
    BY <2>1, Zenon DEF JobsInv, JobTypes, Standing, Owned
  <2>2. CASE replayCopy' = [of |-> replay, fresh |-> TRUE]
    <3>1. replay \in ReplayRecord /\ (~informersLag => jobCopy' = job)
      BY Zenon DEF JobsInv, JobTypes, Owned
    <3> QED
      BY <2>2, <3>1, Zenon
  <2> QED
    BY <2>1, <2>2, Zenon
<1>2. JobTypes'
  BY <1>1, Zenon DEF JobsInv, JobTypes
<1>3. Standing'
  BY <1>1, Zenon DEF JobsInv, Standing
<1>4. Owned'
  BY <1>1, Zenon DEF JobsInv, Owned
<1>5. Stands
  BY Zenon DEF JobsInv, Owned, ReplayOwn, Stands
<1> QED
  BY <1>2, <1>3, <1>4, <1>5, Zenon DEF JobsInv

\* Someone else's change outdates the pass.
LEMMA Outdated ==
  ASSUME JobTypes, OutdateReplay
  PROVE  \/ replayPass = <<>> /\ replayPass' = <<>>
         \/ \E p, q \in PassRecord : /\ replayPass = <<p>> /\ replayPass' = <<q>>
                                     /\ q.tr = p.tr /\ q.pc = p.pc /\ q.stale
<1>1. CASE replayPass = <<>>
  BY <1>1 DEF OutdateReplay
<1>2. ASSUME NEW p \in PassRecord, replayPass = <<p>>
      PROVE  \E q \in PassRecord : /\ replayPass' = <<q>> /\ q.tr = p.tr /\ q.pc = p.pc /\ q.stale
  <2> DEFINE q == [p EXCEPT !.stale = TRUE]
  <2>1. q \in PassRecord /\ q.tr = p.tr /\ q.pc = p.pc /\ q.stale
    BY Zenon DEF PassRecord
  <2>2. replayPass' = [i \in {1} |-> q]
    <3>1. DOMAIN replayPass = {1} /\ replayPass[1] = p
      BY <1>2
    <3> QED
      BY <3>1, Zenon DEF OutdateReplay
  <2> HIDE DEF q
  <2>3. [i \in {1} |-> q] = <<q>>
    OBVIOUS
  <2> QED
    BY <2>1, <2>2, <2>3, Zenon
<1> QED
  BY <1>1, <1>2, Zenon DEF JobTypes

\* Someone else stores a version t: the pass is outdated.
LEMMA OutdatedGood ==
  ASSUME JobsInv, OutdateReplay, NEW t,
         ~informersLag => t.gen = replay.gen /\ (replay.finalizer => t.finalizer /\ t.live # "absent")
  PROVE  GoodPass(t, job)
<1>1. CASE replayPass' = <<>>
  BY <1>1, PassOver, Zenon
<1>2. ASSUME NEW p \in PassRecord, NEW q \in PassRecord, replayPass = <<p>>, replayPass' = <<q>>,
             q.tr = p.tr, q.pc = p.pc, q.stale
      PROVE  GoodPass(t, job)
  <2>1. PassSound(q, t)
    BY <1>2, Zenon DEF PassSound
  <2>2. ~informersLag => PassOwn(p, replay, job)
    BY <1>2, Zenon DEF JobsInv, Owned
  <2>3. ~informersLag => PassOwn(q, t, job)
    BY <1>2, <2>2, Zenon DEF PassOwn
  <2> QED
    BY <1>2, <2>1, <2>3, Zenon DEF GoodPass
<1> QED
  BY <1>1, <1>2, Outdated, Zenon DEF JobsInv

LEMMA UserStepsStand ==
  ASSUME JobsInv, CreateReplay \/ DeleteReplay \/ EditReplay
  PROVE  JobsInv' /\ Stands
<1>1. replay \in ReplayRecord /\ replay.gen \in Nat
  BY Zenon DEF JobsInv, JobTypes, ReplayRecord
<1>2. ~informersLag => ReplayOwn(replay, job)
  BY Zenon DEF JobsInv, Owned
<1>3. CASE CreateReplay
  <2>1. PICK spec \in {"ok", "denied", "invalid"} : StoreReplay(NewReplay(replay.gen + 1, spec))
    BY <1>3, Zenon DEF CreateReplay
  <2> DEFINE t == NewReplay(replay.gen + 1, spec)
  <2>2. /\ replay.live = "absent" /\ UNCHANGED <<informersLag, job, jobCopy, replayPass>>
    BY <1>3, Zenon DEF CreateReplay
  <2>3. /\ NoReplay(replay.gen + 1) \in ReplayRecord /\ NoReplay(replay.gen + 1).phase = "New"
        /\ NoReplay(replay.gen + 1).decided = 0
    BY <1>1 DEF NoReplay, ReplayRecord, ReplayPhases
  <2>4. /\ t \in ReplayRecord /\ t.live = "present" /\ ~Terminal(t) /\ t.decided = 0
    <3>1. t \in ReplayRecord /\ t.live = "present" /\ t.phase = "New" /\ t.decided = 0
      BY <2>3, Zenon DEF NewReplay, ReplayRecord
    <3> QED
      BY <3>1, Zenon DEF Terminal
  <2>5. StoreReplay(t)
    BY <2>1, Zenon
  <2> HIDE DEF t
  <2>6. ~Terminal(replay)
    BY <2>2, Zenon DEF JobsInv, Standing
  <2>7. ~informersLag => ReplayOwn(t, job)
    BY <1>2, <2>2, <2>4, Zenon DEF ReplayOwn
  <2>8. GoodPass(t, job)
    <3>1. CASE replayPass = <<>>
      BY <2>2, <3>1, PassOver, Zenon
    <3>2. ASSUME NEW p \in PassRecord, replayPass = <<p>>
          PROVE  GoodPass(t, job)
      <4>1. PassSound(p, replay) /\ (~informersLag => PassOwn(p, replay, job))
        BY <3>2, Zenon DEF JobsInv, Standing, Owned
      <4>2. PassSound(p, t)
        BY <2>2, <4>1, Zenon DEF PassSound
      <4>3. ~informersLag => PassOwn(p, t, job)
        BY <2>2, <4>1, Zenon DEF PassOwn
      <4> QED
        BY <2>2, <3>2, <4>2, <4>3, Zenon DEF GoodPass
    <3> QED
      BY <3>1, <3>2, Zenon DEF JobsInv, JobTypes
  <2>9. t.live # "absent"
    BY <2>4, Zenon
  <2> QED
    BY <2>2, <2>4, <2>5, <2>6, <2>7, <2>8, <2>9, ReplayStored, Zenon
<1>4. CASE DeleteReplay
  <2>1. /\ replay.live = "present" /\ OutdateReplay /\ UNCHANGED <<informersLag, job, jobCopy>>
    BY <1>4, Zenon DEF DeleteReplay
  <2>2. CASE replay.finalizer
    <3> DEFINE t == [replay EXCEPT !.live = "deleting"]
    <3>1. StoreReplay(t)
      BY <1>4, <2>2, Zenon DEF DeleteReplay
    <3>2. /\ t \in ReplayRecord /\ t.live = "deleting" /\ t.gen = replay.gen
          /\ t.phase = replay.phase /\ t.finalizer = replay.finalizer /\ t.decided = replay.decided
      BY <1>1, Zenon DEF ReplayRecord
    <3> HIDE DEF t
    <3>3. t.live # "absent"
      BY <3>2, Zenon
    <3>4. ~informersLag => ReplayOwn(t, job)
      BY <1>2, <2>2, <3>2, <3>3, Zenon DEF ReplayOwn
    <3>5. GoodPass(t, job)
      BY <2>1, <3>2, <3>3, OutdatedGood, Zenon
    <3> QED
      BY <2>1, <3>1, <3>2, <3>3, <3>4, <3>5, ReplayStored, Zenon
  <2>3. CASE ~replay.finalizer
    <3> DEFINE t == NoReplay(replay.gen)
    <3>1. StoreReplay(t)
      BY <1>4, <2>3, Zenon DEF DeleteReplay
    <3>2. t \in ReplayRecord /\ t.live = "absent" /\ ~Terminal(t) /\ t.decided = 0 /\ t.gen = replay.gen
      BY <1>1, Zenon DEF NoReplay, ReplayRecord, ReplayPhases, Terminal
    <3> HIDE DEF t
    <3>3. ~informersLag => ReplayOwn(t, job)
      BY <1>2, <2>3, <3>2, Zenon DEF ReplayOwn
    <3>4. GoodPass(t, job)
      BY <2>1, <2>3, <3>2, OutdatedGood, Zenon
    <3> QED
      BY <2>1, <3>1, <3>2, <3>3, <3>4, ReplayStored, Zenon
  <2> QED
    BY <2>2, <2>3, Zenon
<1>5. CASE EditReplay
  <2>1. PICK spec \in {"ok", "denied"} : StoreReplay([replay EXCEPT !.spec = spec])
    BY <1>5, Zenon DEF EditReplay
  <2>2. /\ replay.live = "present" /\ OutdateReplay /\ UNCHANGED <<informersLag, job, jobCopy>>
    BY <1>5, Zenon DEF EditReplay
  <2> DEFINE t == [replay EXCEPT !.spec = spec]
  <2>3. /\ t \in ReplayRecord /\ t.live = replay.live /\ t.gen = replay.gen
        /\ t.phase = replay.phase /\ t.finalizer = replay.finalizer /\ t.decided = replay.decided
    BY <1>1, Zenon DEF ReplayRecord
  <2>4. StoreReplay(t)
    BY <2>1, Zenon
  <2> HIDE DEF t
  <2>5. t.live # "absent"
    BY <2>2, <2>3, Zenon
  <2>6. ~informersLag => ReplayOwn(t, job)
    BY <1>2, <2>3, Zenon DEF ReplayOwn
  <2>7. GoodPass(t, job)
    BY <2>2, <2>3, <2>5, OutdatedGood, Zenon
  <2> QED
    BY <2>2, <2>3, <2>4, <2>5, <2>6, <2>7, ReplayStored, Zenon
<1> QED
  BY <1>3, <1>4, <1>5, Zenon

-----------------------------------------------------------------------------
LEMMA JobsStep ==
  JobsInv /\ [JobsNext]_jobVars => JobsInv' /\ Stands
<1> SUFFICES ASSUME JobsInv, [JobsNext]_jobVars
             PROVE  JobsInv' /\ Stands
  BY Zenon
<1>1. CASE ReplayBegin \/ ReplayStep
  BY <1>1, BeginStands, FinalizerStands, DecideStands, CreateJobStands, StatusStands,
     DeleteJobStands, ReleaseStands, Zenon DEF ReplayStep
<1>2. CASE ReplayPassFails
  BY <1>2, PassOver, NothingStored, Zenon DEF ReplayPassFails
<1>3. CASE SyncReplay \/ SyncJob \/ CollectPods \/ UNCHANGED jobVars
  <2>1. /\ UNCHANGED <<informersLag, replay, job, replayPass>>
        /\ replayCopy' = replayCopy \/ replayCopy' = [of |-> replay, fresh |-> TRUE]
        /\ jobCopy' = jobCopy \/ jobCopy' = job
    BY <1>3, Zenon DEF SyncReplay, SyncJob, CollectPods, jobVars
  <2> QED
    BY <2>1, CacheStepsStand, Zenon
<1> QED
  BY <1>1, <1>2, <1>3, UserStepsStand, JobStepsStand, Zenon DEF JobsNext

LEMMA JobsStart ==
  JobsInit => JobsInv
<1> SUFFICES ASSUME JobsInit PROVE JobsInv
  BY Zenon
<1>1. /\ replay \in ReplayRecord /\ replay.live = "absent" /\ replay.decided = 0 /\ ~Terminal(replay)
      /\ NoJob \in JobRecord
  BY Zenon DEF JobsInit, NoReplay, ReplayRecord, ReplayPhases, Terminal, NoJob, JobRecord
<1>2. replayCopy = [of |-> replay, fresh |-> TRUE] /\ job = NoJob /\ jobCopy = job /\ replayPass = <<>>
  BY Zenon DEF JobsInit
<1>3. \A p \in PassRecord : replayPass # <<p>>
  BY <1>2, OnePass, Zenon
<1>4. replayCopy \in [of : ReplayRecord, fresh : BOOLEAN] /\ replayCopy.of = replay
  BY <1>1, <1>2, Zenon
<1>5. JobTypes
  BY <1>1, <1>2, <1>4, Zenon DEF JobTypes, JobsInit
<1>6. Standing
  BY <1>1, <1>3, <1>4, Zenon DEF Standing
<1>7. Owned
  <2>1. ReplayOwn(replay, job)
    BY <1>1, <1>2, Zenon DEF ReplayOwn
  <2> QED
    BY <1>2, <1>3, <2>1, Zenon DEF Owned
<1> QED
  BY <1>5, <1>6, <1>7, Zenon DEF JobsInv

(***************************************************************************)
(* "Terminal replays stay terminal", and without cache lag a result comes  *)
(* from the replay's own Job, for any number of TrafficReplays created     *)
(* under a name and of faults.                                             *)
(***************************************************************************)
THEOREM ReplayResultsStand == JobsSpec => ResultStands
<1>1. JobsInv /\ [JobsNext]_jobVars => [Stands]_jobVars
  BY JobsStep, Zenon
<1> QED
  BY <1>1, JobsStart, JobsStep, PTL DEF JobsSpec, ResultStands, Stands

-----------------------------------------------------------------------------
(***************************************************************************)
(* The engine manager: no engine is lost, and none leaks.                  *)
(***************************************************************************)
ManagerSpec == ManagerInit /\ [][ManagerNext]_managerVars

ProcessRecord == [state : {"none", "running", "replaced", "draining", "closed"},
                  version : Versions \cup {0}]

\* The table of processes and the entry of m.engines; an entry's process runs, and no other.
EngineTable ==
    /\ binary \in Versions
    /\ process \in [Processes -> ProcessRecord]
    /\ \/ current = <<>> /\ \A q \in Processes : process[q].state # "running"
       \/ \E p \in Processes :
             /\ current = <<p>>
             /\ \A q \in Processes : process[q].state = "running" <=> q = p

\* The installer has a version to rename.
Installing == copying => binary + 1 \in Versions

\* The run of the worker is on a process that was launched.
RunStarted ==
    /\ run \in [pc : {"acquire", "execute", "over"}, on : {<<>>} \cup {<<p>> : p \in Processes}]
    /\ \A p \in Processes : run.pc = "execute" /\ run.on = <<p>> => process[p].state # "none"

ManagerInv == EngineTable /\ Installing /\ RunStarted

EngineKeptStep == current # <<>> /\ manager' = "open" => current' # <<>>
RunKeptStep ==
    \A p \in Processes :
       /\ run.pc = "execute" /\ run.on = <<p>>
       /\ process[p].state # "closed" /\ process'[p].state = "closed"
       => process[p].state = "draining" /\ current # <<p>>

\* What a launch leaves in the table.
LEMMA LaunchEffect ==
  ASSUME EngineTable, NEW p \in Processes, Launch(p)
  PROVE  /\ process' \in [Processes -> ProcessRecord]
         /\ process'[p].state = IF Launched THEN "running" ELSE "closed"
         /\ \A q \in Processes : q # p => process'[q] = process[q]
<1> DEFINE r == [state |-> IF binary \in BadVersions THEN "closed" ELSE "running", version |-> binary]
<1>1. process' = [process EXCEPT ![p] = r]
  BY Zenon DEF Launch
<1>2. r \in ProcessRecord /\ r.state = IF Launched THEN "running" ELSE "closed"
  BY Zenon DEF EngineTable, ProcessRecord, Launched
<1>3. process \in [Processes -> ProcessRecord]
  BY Zenon DEF EngineTable
<1> HIDE DEF r
<1> QED
  BY <1>1, <1>2, <1>3, Zenon

LEMMA AcquireKeeps ==
  ASSUME EngineTable, NEW p \in Processes, Acquire(p)
  PROVE  EngineTable' /\ EngineKeptStep
<1>1. binary' = binary /\ current = <<>> /\ EngineKeptStep
  BY Zenon DEF Acquire, fileVars, EngineKeptStep
<1>2. Launch(p) /\ current' = IF Launched THEN <<p>> ELSE current
  BY Zenon DEF Acquire
<1>3. /\ process' \in [Processes -> ProcessRecord]
      /\ process'[p].state = IF Launched THEN "running" ELSE "closed"
      /\ \A q \in Processes : q # p => process'[q] = process[q]
  BY <1>2, LaunchEffect, Zenon
<1>4. \A q \in Processes : process[q].state # "running"
  BY <1>1, OnePass, Zenon DEF EngineTable
<1>5. CASE Launched
  <2>1. current' = <<p>> /\ \A q \in Processes : process'[q].state = "running" <=> q = p
    BY <1>2, <1>3, <1>4, <1>5, Zenon
  <2> QED
    BY <1>1, <1>3, <2>1, Zenon DEF EngineTable
<1>6. CASE ~Launched
  <2>1. process'[p].state # "running"
    BY <1>3, <1>6, Zenon
  <2>2. current' = <<>> /\ \A q \in Processes : process'[q].state # "running"
    BY <1>1, <1>2, <1>3, <1>4, <1>6, <2>1, Zenon
  <2> QED
    BY <1>1, <1>3, <2>2, Zenon DEF EngineTable
<1> QED
  BY <1>5, <1>6, Zenon

LEMMA ReloadKeeps ==
  ASSUME EngineTable, NEW t \in Timers, NEW p \in Processes, Reload(t, p)
  PROVE  EngineTable' /\ EngineKeptStep
<1>1. process[p].state = "none" /\ binary' = binary
  BY Zenon DEF Reload, Fresh, fileVars
<1>2. CASE current = <<>>
  BY <1>1, <1>2, Zenon DEF Reload, EngineTable, EngineKeptStep
<1>3. CASE current # <<>>
  <2>1. PICK c \in Processes : /\ current = <<c>>
                               /\ \A q \in Processes : process[q].state = "running" <=> q = c
    BY <1>3, Zenon DEF EngineTable
  <2>2. current[1] = c /\ c # p
    BY <1>1, <2>1, Zenon
  <2>3. CASE ~Launched
    <3>1. Launch(p) /\ current' = current
      BY <1>3, <2>3, Zenon DEF Reload
    <3>2. /\ process' \in [Processes -> ProcessRecord]
          /\ process'[p].state = IF Launched THEN "running" ELSE "closed"
          /\ \A q \in Processes : q # p => process'[q] = process[q]
      BY <3>1, LaunchEffect, Zenon
    <3>3. process'[p].state # "running"
      BY <2>3, <3>2, Zenon
    <3>4. \A q \in Processes : process'[q].state = "running" <=> q = c
      BY <2>1, <2>2, <3>2, <3>3, Zenon
    <3> QED
      BY <1>1, <1>3, <2>1, <3>1, <3>2, <3>4, Zenon DEF EngineTable, EngineKeptStep
  <2>4. CASE Launched
    <3> DEFINE r == [state |-> "running", version |-> binary]
               o == [process[c] EXCEPT !.state = "replaced"]
    <3>1. /\ process' = [process EXCEPT ![p] = r, ![c] = o] /\ current' = <<p>>
      <4>1. /\ process' = [process EXCEPT ![p] = r, ![c].state = "replaced"] /\ current' = <<p>>
        BY <1>3, <2>2, <2>4, Zenon DEF Reload
      <4> QED
        BY <2>2, <4>1, Zenon DEF EngineTable
    <3>2. process \in [Processes -> ProcessRecord] /\ binary \in Versions
      BY Zenon DEF EngineTable
    <3>3. r \in ProcessRecord /\ r.state = "running"
      BY <3>2, Zenon DEF ProcessRecord
    <3>4. o \in ProcessRecord /\ o.state = "replaced"
      BY <3>2, Zenon DEF ProcessRecord
    <3> HIDE DEF r, o
    <3>5. /\ process' \in [Processes -> ProcessRecord] /\ process'[p] = r /\ process'[c] = o
          /\ \A q \in Processes : q # p /\ q # c => process'[q] = process[q]
      BY <2>2, <3>1, <3>2, <3>3, <3>4, Zenon
    <3>6. \A q \in Processes : process'[q].state = "running" <=> q = p
      BY <2>1, <2>2, <3>3, <3>4, <3>5, Zenon
    <3>7. current' # <<>>
      BY <3>1, Zenon
    <3> QED
      BY <1>1, <3>1, <3>2, <3>5, <3>6, <3>7, Zenon DEF EngineTable, EngineKeptStep
  <2> QED
    BY <2>3, <2>4, Zenon
<1> QED
  BY <1>2, <1>3, Zenon

\* Drain and Close of a process that was replaced.
LEMMA DrainKeeps ==
  ASSUME EngineTable, NEW p \in Processes, DrainStep(p)
  PROVE  EngineTable' /\ EngineKeptStep
<1>1. PICK state \in {"draining", "closed"} :
        /\ process' = [process EXCEPT ![p].state = state]
        /\ process[p].state \in {"replaced", "draining"}
        /\ current' = current /\ binary' = binary
  BY Zenon DEF DrainStep, DrainOld, CloseOld, fileVars
<1> DEFINE r == [process[p] EXCEPT !.state = state]
<1>2. process \in [Processes -> ProcessRecord]
  BY Zenon DEF EngineTable
<1>3. r \in ProcessRecord /\ r.state = state
  BY <1>2, Zenon DEF ProcessRecord
<1>4. process' = [process EXCEPT ![p] = r]
  BY <1>1, <1>2, Zenon
<1> HIDE DEF r
<1>5. process' \in [Processes -> ProcessRecord]
      /\ \A q \in Processes : process'[q] = IF q = p THEN r ELSE process[q]
  BY <1>2, <1>3, <1>4, Zenon
<1>6. \A q \in Processes : process'[q].state = "running" <=> process[q].state = "running"
  BY <1>1, <1>3, <1>5, Zenon
<1> QED
  BY <1>1, <1>5, <1>6, Zenon DEF EngineTable, EngineKeptStep

LEMMA CloseKeeps ==
  ASSUME EngineTable, Close
  PROVE  EngineTable' /\ EngineKeptStep
<1> DEFINE r(q) == [process[q] EXCEPT !.state = "closed"]
<1>1. /\ process' = [q \in Processes |-> IF <<q>> = current THEN r(q) ELSE process[q]]
      /\ current' = <<>> /\ binary' = binary /\ manager' = "closed"
  BY Zenon DEF Close, fileVars
<1>2. process \in [Processes -> ProcessRecord] /\ binary \in Versions
  BY Zenon DEF EngineTable
<1>3. \A q \in Processes : r(q) \in ProcessRecord /\ r(q).state = "closed"
  BY <1>2, Zenon DEF ProcessRecord
<1> HIDE DEF r
<1>4. process' \in [Processes -> ProcessRecord]
      /\ \A q \in Processes : process'[q] = IF <<q>> = current THEN r(q) ELSE process[q]
  BY <1>1, <1>2, <1>3, Zenon
<1>5. \A q \in Processes : process[q].state = "running" => <<q>> = current
  BY Zenon DEF EngineTable
<1>6. \A q \in Processes : process'[q].state # "running"
  <2> SUFFICES ASSUME NEW q \in Processes PROVE process'[q].state # "running"
    BY Zenon
  <2>1. CASE <<q>> = current
    BY <1>3, <1>4, <2>1, Zenon
  <2>2. CASE <<q>> # current
    BY <1>4, <1>5, <2>2, Zenon
  <2> QED
    BY <2>1, <2>2, Zenon
<1>7. EngineKeptStep
  BY <1>1, Zenon DEF EngineKeptStep
<1> QED
  BY <1>1, <1>2, <1>4, <1>6, <1>7, Zenon DEF EngineTable

\* No step closes the process of a run but the end of its grace period.
LEMMA RunStep ==
  ASSUME EngineTable, RunStarted, [ManagerNext]_managerVars
  PROVE  RunStarted' /\ RunKeptStep
<1>1. CASE UNCHANGED <<process, run>>
  BY <1>1, Zenon DEF RunStarted, RunKeptStep
<1>2. CASE \/ InstallCopy \/ InstallRename \/ WatchStep \/ Exit \/ UNCHANGED managerVars
           \/ \E t \in Timers : Fire(t) \/ Callback(t)
  BY <1>1, <1>2, Zenon DEF InstallCopy, InstallRename, WatchStep, WatchStops, WatchEvent, Exit,
                           Fire, Callback, managerVars
<1>3. CASE EndRunOn
  <2>1. run' \in [pc : {"acquire", "execute", "over"}, on : {<<>>} \cup {<<p>> : p \in Processes}]
        /\ run'.pc = "over" /\ process' = process
    BY <1>3, Zenon DEF EndRunOn, RunStarted
  <2> QED
    BY <2>1, Zenon DEF RunStarted, RunKeptStep
<1>4. CASE Close
  BY <1>4, Zenon DEF Close, RunStarted, RunKeptStep
<1>5. ASSUME NEW p \in Processes, Acquire(p)
      PROVE  RunStarted' /\ RunKeptStep
  <2>1. /\ run.pc = "acquire" /\ Launch(p)
        /\ run' = IF Launched THEN [pc |-> "execute", on |-> <<p>>] ELSE [run EXCEPT !.pc = "over"]
    BY <1>5, Zenon DEF Acquire
  <2>2. process'[p].state = IF Launched THEN "running" ELSE "closed"
    BY <2>1, LaunchEffect, Zenon
  <2>3. CASE Launched
    <3>1. run' = [pc |-> "execute", on |-> <<p>>] /\ process'[p].state = "running"
      BY <2>1, <2>2, <2>3, Zenon
    <3>2. \A q \in Processes : run'.on = <<q>> => q = p
      BY <3>1
    <3>3. RunStarted'
      BY <3>1, <3>2, Zenon DEF RunStarted
    <3> QED
      BY <2>1, <3>3, Zenon DEF RunKeptStep
  <2>4. CASE ~Launched
    <3>1. run' = [run EXCEPT !.pc = "over"]
      BY <2>1, <2>4, Zenon
    <3>2. run' \in [pc : {"acquire", "execute", "over"}, on : {<<>>} \cup {<<q>> : q \in Processes}]
          /\ run'.pc = "over"
      BY <3>1, Zenon DEF RunStarted
    <3> QED
      BY <2>1, <3>2, Zenon DEF RunStarted, RunKeptStep
  <2> QED
    BY <2>3, <2>4, Zenon
<1>6. ASSUME NEW t \in Timers, NEW p \in Processes, Reload(t, p)
      PROVE  RunStarted' /\ RunKeptStep
  <2>1. process[p].state = "none" /\ run' = run
    BY <1>6, Zenon DEF Reload, Fresh
  <2>2. \A q \in Processes : q # p => process'[q].state \in {process[q].state, "replaced"}
    <3>1. CASE current = <<>>
      BY <1>6, <3>1, Zenon DEF Reload
    <3>2. CASE current # <<>> /\ ~Launched
      BY <1>6, <3>2, LaunchEffect, Zenon DEF Reload
    <3>3. CASE current # <<>> /\ Launched
      <4>1. PICK c : process' = [process EXCEPT ![p] = [state |-> "running", version |-> binary],
                                                ![c].state = "replaced"]
        BY <1>6, <3>3, Zenon DEF Reload
      <4>2. process \in [Processes -> ProcessRecord]
        BY Zenon DEF EngineTable
      <4> QED
        BY <4>1, <4>2 DEF ProcessRecord
    <3> QED
      BY <3>1, <3>2, <3>3, Zenon
  <2>3. \A q \in Processes : run.pc = "execute" /\ run.on = <<q>> => q # p
    BY <2>1, Zenon DEF RunStarted
  <2> QED
    BY <2>1, <2>2, <2>3, Zenon DEF RunStarted, RunKeptStep
<1>7. ASSUME NEW p \in Processes, DrainStep(p)
      PROVE  RunStarted' /\ RunKeptStep
  <2>1. /\ run' = run /\ process \in [Processes -> ProcessRecord]
        /\ \A q \in Processes : q # p => process'[q] = process[q]
    BY <1>7, Zenon DEF DrainStep, DrainOld, CloseOld, EngineTable
  <2>2. \A q \in Processes : process[q].state # "running" => current # <<q>>
    <3> SUFFICES ASSUME NEW q \in Processes, current = <<q>> PROVE process[q].state = "running"
      BY Zenon
    <3>1. current # <<>>
      BY OnePass, Zenon
    <3>2. PICK c \in Processes : /\ current = <<c>>
                                 /\ process[c].state = "running"
      BY <3>1, Zenon DEF EngineTable
    <3>3. c = q
      BY <3>2
    <3> QED
      BY <3>2, <3>3, Zenon
  <2>3. CASE process[p].state = "replaced" /\ process' = [process EXCEPT ![p].state = "draining"]
    <3>1. process'[p].state = "draining"
      BY <2>1, <2>3 DEF ProcessRecord
    <3> QED
      BY <2>1, <3>1, Zenon DEF RunStarted, RunKeptStep
  <2>4. CASE process[p].state = "draining" /\ process' = [process EXCEPT ![p].state = "closed"]
    <3>1. process'[p].state = "closed"
      BY <2>1, <2>4 DEF ProcessRecord
    <3> QED
      BY <2>1, <2>2, <2>4, <3>1, Zenon DEF RunStarted, RunKeptStep
  <2> QED
    BY <1>7, <2>3, <2>4, Zenon DEF DrainStep, DrainOld, CloseOld
<1> QED
  BY <1>2, <1>3, <1>4, <1>5, <1>6, <1>7, Zenon DEF ManagerNext, CallbackStep

LEMMA ManagerStep ==
  ManagerInv /\ [ManagerNext]_managerVars => ManagerInv' /\ EngineKeptStep /\ RunKeptStep
<1> SUFFICES ASSUME EngineTable, Installing, RunStarted, [ManagerNext]_managerVars
             PROVE  EngineTable' /\ Installing' /\ EngineKeptStep
  BY RunStep, Zenon DEF ManagerInv
<1>1. ASSUME UNCHANGED <<process, current>>, binary' \in Versions
      PROVE  EngineTable' /\ EngineKeptStep
  BY <1>1, Zenon DEF EngineTable, EngineKeptStep
<1>2. binary \in Versions
  BY Zenon DEF EngineTable
<1>3. CASE InstallCopy
  BY <1>1, <1>2, <1>3, Zenon DEF InstallCopy, Installing
<1>4. CASE InstallRename
  BY <1>1, <1>2, <1>4, Zenon DEF InstallRename, Installing
<1>5. CASE UNCHANGED fileVars /\ UNCHANGED <<process, current>>
  BY <1>1, <1>2, <1>5, Zenon DEF fileVars, Installing
<1>6. ASSUME UNCHANGED fileVars PROVE Installing'
  BY <1>6, Zenon DEF fileVars, Installing
<1>7. CASE WatchStep \/ EndRunOn \/ Exit \/ UNCHANGED managerVars
  BY <1>5, <1>7, Zenon DEF WatchStep, WatchStops, WatchEvent, EndRunOn, Exit, managerVars
<1>8. CASE Close
  BY <1>6, <1>8, CloseKeeps, Zenon DEF Close
<1>9. ASSUME NEW p \in Processes, Acquire(p) \/ DrainStep(p)
      PROVE  EngineTable' /\ Installing' /\ EngineKeptStep
  BY <1>6, <1>9, AcquireKeeps, DrainKeeps, Zenon DEF Acquire, DrainStep, DrainOld, CloseOld
<1>10. ASSUME NEW t \in Timers, CallbackStep(t)
       PROVE  EngineTable' /\ Installing' /\ EngineKeptStep
  <2>1. CASE Fire(t) \/ Callback(t)
    BY <1>5, <2>1, Zenon DEF Fire, Callback
  <2>2. ASSUME NEW p \in Processes, Reload(t, p)
        PROVE  EngineTable' /\ Installing' /\ EngineKeptStep
    BY <1>6, <2>2, ReloadKeeps, Zenon DEF Reload
  <2> QED
    BY <1>10, <2>1, <2>2, Zenon DEF CallbackStep
<1> QED
  BY <1>3, <1>4, <1>7, <1>8, <1>9, <1>10, Zenon DEF ManagerNext

LEMMA ManagerStart ==
  ManagerInit => ManagerInv
<1> SUFFICES ASSUME ManagerInit PROVE EngineTable /\ Installing /\ RunStarted
  BY Zenon DEF ManagerInv
<1>1. Unstarted \in ProcessRecord /\ Unstarted.state # "running"
  BY Zenon DEF Unstarted, ProcessRecord
<1>2. binary \in Versions /\ current = <<>> /\ copying = FALSE
      /\ process = [p \in Processes |-> Unstarted]
  BY ManagerAssumption, Zenon DEF ManagerInit
<1>3. process \in [Processes -> ProcessRecord] /\ \A q \in Processes : process[q] = Unstarted
  BY <1>1, <1>2, Zenon
<1>4. RunStarted
  BY Zenon DEF ManagerInit, RunStarted
<1> QED
  BY <1>1, <1>2, <1>3, <1>4, Zenon DEF EngineTable, Installing

(***************************************************************************)
(* However installs, events, timers, reloads, drains and Close interleave, *)
(* and whichever launches fail: the entry of m.engines is the one process  *)
(* that runs, so none is leaked; while the manager is open an entry is     *)
(* replaced, never lost; and the process a run acquired is closed under it *)
(* only at the end of the grace period that follows its replacement.       *)
(***************************************************************************)
THEOREM EngineNeitherLostNorLeaked == ManagerSpec => []OneRunningEngine /\ EngineKept /\ RunKeepsProcess
<1>1. ManagerInv => OneRunningEngine
  <2> SUFFICES ASSUME EngineTable PROVE OneRunningEngine
    BY Zenon DEF ManagerInv
  <2>1. CASE current = <<>> /\ \A q \in Processes : process[q].state # "running"
    BY <2>1 DEF OneRunningEngine
  <2>2. ASSUME NEW p \in Processes, current = <<p>>,
               \A q \in Processes : process[q].state = "running" <=> q = p
        PROVE  OneRunningEngine
    <3>1. {current[i] : i \in DOMAIN current} = {p}
      BY <2>2
    <3>2. {q \in Processes : process[q].state = "running"} = {p}
      BY <2>2, Zenon
    <3> QED
      BY <3>1, <3>2, Zenon DEF OneRunningEngine
  <2> QED
    BY <2>1, <2>2, Zenon DEF EngineTable
<1>2. ManagerInv /\ [ManagerNext]_managerVars
         => [EngineKeptStep]_managerVars /\ [RunKeptStep]_managerVars
  BY ManagerStep, Zenon
<1> QED
  BY <1>1, <1>2, ManagerStart, ManagerStep, PTL
     DEF ManagerSpec, EngineKept, EngineKeptStep, RunKeepsProcess, RunKeptStep

-----------------------------------------------------------------------------
(***************************************************************************)
(* The payload pipeline, for every number of plugins and any set of        *)
(* goroutines that write to it or close it.                                *)
(***************************************************************************)
PayloadSpec == PayloadInit /\ [][PayloadNext]_payloadVars

Outcomes == {"pass", "change", "filter", "fail"}

(***************************************************************************)
(* What the properties rest on.  Of a Write: the trail has one outcome for *)
(* each plugin it has passed; while it goes on, no outcome so far ended    *)
(* it.  Of Close: before the flag is set nobody closes, and afterwards at  *)
(* most one call works, at the place that the order prescribes.            *)
(***************************************************************************)
Writes == [pc : {"idle", "process", "nil", "error"}, stage : 1 .. Stages + 1, trail : Seq(Outcomes)]
Closes == [pc : {"idle", "plugins", "done"}, stage : 0 .. Stages]

PipelineType ==
    /\ onError \in Handlers /\ shut \in BOOLEAN
    /\ writing \in [PayloadWriters -> Writes]
    /\ closing \in [PayloadClosers -> Closes]
    /\ closedParts \in Seq(0 .. Stages)
    /\ delivered \subseteq PayloadWriters

GoesOn(outcome) == outcome \in {"pass", "change"} \/ (outcome = "fail" /\ onError = "skip")

TrailRight ==
    \A w \in PayloadWriters :
        /\ Len(writing[w].trail) = writing[w].stage - 1
        /\ writing[w].pc \in {"idle", "process"} \/ w \in delivered =>
              \A i \in 1 .. Len(writing[w].trail) : GoesOn(writing[w].trail[i])

DeliveredRight == \A w \in delivered : writing[w].pc = "nil" /\ writing[w].stage = Stages + 1

CloseRight ==
    /\ \A i \in DOMAIN closedParts : closedParts[i] = Stages + 1 - i
    /\ ~shut => closedParts = <<>> /\ \A x \in PayloadClosers : closing[x].pc = "idle"
    /\ \A x \in PayloadClosers : closing[x].pc = "plugins" =>
          /\ closing[x].stage = Stages - Len(closedParts)
          /\ \A y \in PayloadClosers : closing[y].pc = "plugins" => y = x
    /\ \A x \in PayloadClosers : closing[x].pc = "idle" => closing[x].stage = Stages
    /\ Len(closedParts) <= Stages + 1

PipelineInv == PipelineType /\ TrailRight /\ DeliveredRight /\ NilMeansHandled /\ CloseRight

-----------------------------------------------------------------------------
(***************************************************************************)
(* A step of one Write keeps the invariant if what becomes of that Write   *)
(* satisfies it.                                                           *)
(***************************************************************************)
Swallowed(t) ==
    LET last == t.trail[Len(t.trail)]
    IN  last = "filter" \/ (last = "fail" /\ onError = "drop")

LEMMA OneWrite ==
  ASSUME PipelineInv, NEW w \in PayloadWriters, NEW t \in Writes,
         writing' = [writing EXCEPT ![w] = t],
         UNCHANGED <<onError, shut, closing, closedParts>>,
         delivered' = delivered \/ delivered' = delivered \cup {w},
         Len(t.trail) = t.stage - 1,
         t.pc \in {"idle", "process"} \/ w \in delivered' =>
            \A i \in 1 .. Len(t.trail) : GoesOn(t.trail[i]),
         w \in delivered' => t.pc = "nil" /\ t.stage = Stages + 1,
         t.pc = "nil" /\ w \notin delivered' => Swallowed(t)
  PROVE  PipelineInv'
<1> USE DEF PipelineInv
<1>0. /\ writing'[w] = t
      /\ \A v \in PayloadWriters : v # w => writing'[v] = writing[v]
      /\ \A v \in PayloadWriters : v # w => (v \in delivered' <=> v \in delivered)
  BY Zenon DEF PipelineType
<1>1. PipelineType'
  <2>1. writing' \in [PayloadWriters -> Writes]
    BY Zenon DEF PipelineType
  <2>2. delivered' \subseteq PayloadWriters
    BY Zenon DEF PipelineType
  <2> QED
    BY <2>1, <2>2, Zenon DEF PipelineType
<1>2. TrailRight'
  <2>1. \A x : GoesOn(x)' <=> GoesOn(x)
    BY Zenon DEF GoesOn
  <2> SUFFICES ASSUME NEW v \in PayloadWriters
               PROVE  /\ Len(writing'[v].trail) = writing'[v].stage - 1
                      /\ writing'[v].pc \in {"idle", "process"} \/ v \in delivered' =>
                            \A i \in 1 .. Len(writing'[v].trail) : GoesOn(writing'[v].trail[i])
    BY <2>1, Zenon DEF TrailRight
  <2>2. CASE v = w
    BY <1>0, <2>2, Zenon
  <2>3. CASE v # w
    BY <1>0, <2>3, Zenon DEF TrailRight
  <2> QED
    BY <2>2, <2>3, Zenon
<1>3. DeliveredRight'
  BY <1>0, <1>1, Zenon DEF DeliveredRight, PipelineType
<1>4. NilMeansHandled'
  BY <1>0, Zenon DEF NilMeansHandled, Swallowed
<1>5. CloseRight'
  BY Zenon DEF CloseRight
<1> QED
  BY <1>1, <1>2, <1>3, <1>4, <1>5, Zenon

\* A Write begins with no plugin behind it.
LEMMA BeginKeeps ==
  ASSUME PipelineInv, NEW w \in PayloadWriters, WriteBegin(w)
  PROVE  PipelineInv'
<1> DEFINE t == [writing[w] EXCEPT !.pc = IF shut THEN "error" ELSE "process"]
<1>1. writing[w] \in Writes /\ writing[w].pc = "idle"
  BY Zenon DEF PipelineInv, PipelineType, WriteBegin
<1>2. /\ t \in Writes /\ t.trail = writing[w].trail /\ t.stage = writing[w].stage
      /\ t.pc \in {"error", "process"}
  BY <1>1, Zenon DEF Writes
<1>3. writing' = [writing EXCEPT ![w] = t]
  BY Zenon DEF WriteBegin
<1>4. w \notin delivered /\ delivered' = delivered
  BY <1>1, Zenon DEF PipelineInv, DeliveredRight, WriteBegin
<1>5. /\ Len(t.trail) = t.stage - 1
      /\ \A i \in 1 .. Len(t.trail) : GoesOn(t.trail[i])
  BY <1>1, <1>2, Zenon DEF PipelineInv, TrailRight
<1> HIDE DEF t
<1> QED
  BY <1>2, <1>3, <1>4, <1>5, OneWrite, Zenon DEF WriteBegin

\* A plugin adds its outcome to the trail, and only one that lets the Write go on may be
\* followed by another.
LEMMA ProcessKeeps ==
  ASSUME PipelineInv, NEW w \in PayloadWriters, Process(w)
  PROVE  PipelineInv'
<1>1. writing[w] \in Writes /\ writing[w].pc = "process" /\ writing[w].stage <= Stages
  BY Zenon DEF PipelineInv, PipelineType, Process
<1>2. PICK outcome \in Outcomes :
        writing' = [writing EXCEPT ![w] = [pc |-> AfterProcess(outcome), stage |-> @.stage + 1,
                                           trail |-> Append(@.trail, outcome)]]
  BY Zenon DEF Process, Outcomes
<1> DEFINE t == [pc |-> AfterProcess(outcome), stage |-> writing[w].stage + 1,
                 trail |-> Append(writing[w].trail, outcome)]
<1>3. writing' = [writing EXCEPT ![w] = t]
  BY <1>2, Zenon
<1>4. onError \in Handlers
  BY Zenon DEF PipelineInv, PipelineType
<1>5. /\ AfterProcess(outcome) \in {"process", "nil", "error"}
      /\ AfterProcess(outcome) = "process" => GoesOn(outcome)
      /\ AfterProcess(outcome) = "nil" =>
            outcome = "filter" \/ (outcome = "fail" /\ onError = "drop")
  BY <1>4, Zenon DEF AfterProcess, Outcomes, Handlers, GoesOn
<1>6. /\ writing[w].trail \in Seq(Outcomes) /\ Len(writing[w].trail) = writing[w].stage - 1
      /\ \A i \in 1 .. Len(writing[w].trail) : GoesOn(writing[w].trail[i])
  BY <1>1, Zenon DEF PipelineInv, TrailRight, Writes
<1>7. writing[w].stage \in 1 .. Stages + 1
  BY <1>1, Zenon DEF Writes
<1>8. /\ t.trail \in Seq(Outcomes)
      /\ Len(t.trail) = Len(writing[w].trail) + 1
      /\ t.trail[Len(t.trail)] = outcome
      /\ \A i \in 1 .. Len(writing[w].trail) : t.trail[i] = writing[w].trail[i]
  BY <1>6
<1>9. t.stage \in 1 .. Stages + 1 /\ Len(t.trail) = t.stage - 1
  BY <1>1, <1>6, <1>7, <1>8, StagesAssumption
<1>10. t \in Writes /\ t.pc = AfterProcess(outcome)
  BY <1>5, <1>8, <1>9, Zenon DEF Writes
<1>11. w \notin delivered /\ delivered' = delivered
  BY <1>1, Zenon DEF PipelineInv, DeliveredRight, Process
<1>12. t.pc \in {"idle", "process"} => \A i \in 1 .. Len(t.trail) : GoesOn(t.trail[i])
  <2> SUFFICES ASSUME t.pc \in {"idle", "process"}, NEW i \in 1 .. Len(t.trail)
               PROVE  GoesOn(t.trail[i])
    BY Zenon
  <2>1. CASE i = Len(t.trail)
    BY <1>5, <1>8, <1>10, <2>1, Zenon
  <2>2. CASE i # Len(t.trail)
    <3>1. i \in 1 .. Len(writing[w].trail)
      BY <1>6, <1>8, <2>2
    <3> QED
      BY <1>6, <1>8, <3>1, Zenon
  <2> QED
    BY <2>1, <2>2, Zenon
<1>13. t.pc = "nil" => Swallowed(t)
  BY <1>5, <1>8, <1>10, Zenon DEF Swallowed
<1> HIDE DEF t
<1> QED
  BY <1>3, <1>9, <1>10, <1>11, <1>12, <1>13, OneWrite, Zenon DEF Process

\* The downstream writer takes what went through every plugin, unless it is closed.
LEMMA DownstreamKeeps ==
  ASSUME PipelineInv, NEW w \in PayloadWriters, Downstream(w)
  PROVE  PipelineInv'
<1> DEFINE t == [writing[w] EXCEPT !.pc = IF Closed(0) THEN "error" ELSE "nil"]
<1>1. writing[w] \in Writes /\ writing[w].pc = "process" /\ writing[w].stage > Stages
  BY Zenon DEF PipelineInv, PipelineType, Downstream
<1>2. /\ t \in Writes /\ t.trail = writing[w].trail /\ t.stage = writing[w].stage
      /\ t.pc = IF Closed(0) THEN "error" ELSE "nil"
  BY <1>1, Zenon DEF Writes
<1>3. writing' = [writing EXCEPT ![w] = t]
  BY Zenon DEF Downstream
<1>4. /\ w \notin delivered
      /\ delivered' = IF Closed(0) THEN delivered ELSE delivered \cup {w}
  BY <1>1, Zenon DEF PipelineInv, DeliveredRight, Downstream
<1>5. /\ Len(t.trail) = t.stage - 1
      /\ \A i \in 1 .. Len(t.trail) : GoesOn(t.trail[i])
  BY <1>1, <1>2, Zenon DEF PipelineInv, TrailRight
<1>6. writing[w].stage \in 1 .. Stages + 1
  BY <1>1, Zenon DEF Writes
<1>7. t.stage = Stages + 1
  BY <1>1, <1>2, <1>6, StagesAssumption
<1>8. CASE Closed(0)
  <2>1. t.pc = "error" /\ delivered' = delivered
    BY <1>2, <1>4, <1>8, Zenon
  <2> HIDE DEF t
  <2> QED
    BY <1>2, <1>3, <1>4, <1>5, <2>1, OneWrite, Zenon DEF Downstream
<1>9. CASE ~Closed(0)
  <2>1. t.pc = "nil" /\ delivered' = delivered \cup {w}
    BY <1>2, <1>4, <1>9, Zenon
  <2> HIDE DEF t
  <2> QED
    BY <1>2, <1>3, <1>5, <1>7, <2>1, OneWrite, Zenon DEF Downstream
<1> QED
  BY <1>8, <1>9, Zenon

\* What concerns Writes is untouched by a Close.
LEMMA WritesUntouched ==
  ASSUME PipelineInv, UNCHANGED <<onError, writing, delivered>>
  PROVE  TrailRight' /\ DeliveredRight' /\ NilMeansHandled'
  BY Zenon DEF PipelineInv, TrailRight, DeliveredRight, NilMeansHandled, GoesOn

\* Of several calls of Close the first goes on; the flag stops the others.
LEMMA CloseBeginKeeps ==
  ASSUME PipelineInv, NEW x \in PayloadClosers, CloseBegin(x)
  PROVE  PipelineInv'
<1> DEFINE t == [closing[x] EXCEPT !.pc = IF shut THEN "done" ELSE "plugins"]
<1>1. closing[x] \in Closes /\ closing[x].pc = "idle" /\ closing \in [PayloadClosers -> Closes]
  BY Zenon DEF PipelineInv, PipelineType, CloseBegin
<1>2. t \in Closes /\ t.stage = closing[x].stage /\ t.pc = IF shut THEN "done" ELSE "plugins"
  BY <1>1, Zenon DEF Closes
<1>3. closing' = [closing EXCEPT ![x] = t] /\ shut' = TRUE
  BY Zenon DEF CloseBegin
<1>4. UNCHANGED <<onError, writing, closedParts, delivered>>
  BY Zenon DEF CloseBegin
<1> HIDE DEF t
<1>5. PipelineType'
  BY <1>1, <1>2, <1>3, <1>4, Zenon DEF PipelineInv, PipelineType
<1>6. /\ closing'[x] = t
      /\ \A y \in PayloadClosers : y # x => closing'[y] = closing[y]
  BY <1>1, <1>3, Zenon
<1>7. closing[x].stage = Stages
  BY <1>1, Zenon DEF PipelineInv, CloseRight
<1>8. CloseRight'
  <2>1. CASE shut
    BY <1>2, <1>3, <1>4, <1>6, <2>1 DEF PipelineInv, CloseRight
  <2>2. CASE ~shut
    <3>1. closedParts = <<>> /\ \A y \in PayloadClosers : closing[y].pc = "idle"
      BY <2>2, Zenon DEF PipelineInv, CloseRight
    <3>2. Len(closedParts) = 0 /\ closedParts' = <<>>
      BY <1>4, <3>1, Zenon
    <3>3. Stages = Stages - Len(closedParts') /\ DOMAIN closedParts' = {} /\ Len(closedParts') <= Stages + 1
      BY <3>2, StagesAssumption
    <3>4. \A y \in PayloadClosers : closing'[y].pc = "plugins" => y = x
      BY <1>6, <3>1, Zenon
    <3>5. \A y \in PayloadClosers : closing'[y].pc = "idle" => closing'[y].stage = Stages
      BY <1>2, <1>6, <1>7, <2>2, Zenon DEF PipelineInv, CloseRight
    <3>6. closing'[x].stage = Stages
      BY <1>2, <1>6, <1>7, Zenon
    <3> QED
      BY <1>3, <3>3, <3>4, <3>5, <3>6, Zenon DEF CloseRight
  <2> QED
    BY <2>1, <2>2, Zenon
<1> QED
  BY <1>4, <1>5, <1>8, WritesUntouched, Zenon DEF PipelineInv

\* The call that works closes the part whose turn it is.
LEMMA ClosePartKeeps ==
  ASSUME PipelineInv, NEW x \in PayloadClosers, ClosePart(x)
  PROVE  PipelineInv'
<1> DEFINE n == closing[x].stage
           t == IF n = 0 THEN [closing[x] EXCEPT !.pc = "done"]
                         ELSE [closing[x] EXCEPT !.stage = n - 1]
<1>1. closing[x] \in Closes /\ closing[x].pc = "plugins" /\ closing \in [PayloadClosers -> Closes]
  BY Zenon DEF PipelineInv, PipelineType, ClosePart
<1>2. n \in 0 .. Stages
  BY <1>1, Zenon DEF Closes
<1>3. /\ t \in Closes
      /\ n = 0 => t.pc = "done"
      /\ n # 0 => t.pc = "plugins" /\ t.stage = n - 1
  <2>1. CASE n = 0
    BY <1>1, <2>1, Zenon DEF Closes
  <2>2. CASE n # 0
    <3>1. n - 1 \in 0 .. Stages
      BY <1>2, <2>2, StagesAssumption
    <3>2. t = [closing[x] EXCEPT !.stage = n - 1]
      BY <2>2, Zenon
    <3> QED
      BY <1>1, <2>2, <3>1, <3>2, Zenon DEF Closes
  <2> QED
    BY <2>1, <2>2, Zenon
<1>4. /\ closing' = [closing EXCEPT ![x] = t]
      /\ closedParts' = Append(closedParts, n)
      /\ UNCHANGED <<onError, shut, writing, delivered>>
  BY Zenon DEF ClosePart
<1>5. shut /\ n = Stages - Len(closedParts)
  BY <1>1, Zenon DEF PipelineInv, CloseRight
<1>6. closedParts \in Seq(0 .. Stages) /\ Len(closedParts) \in Nat /\ Len(closedParts) <= Stages
  BY <1>2, <1>5, StagesAssumption DEF PipelineInv, PipelineType
<1> HIDE DEF t, n
<1>7. PipelineType'
  BY <1>1, <1>2, <1>3, <1>4, <1>6 DEF PipelineInv, PipelineType
<1>8. /\ closing'[x] = t
      /\ \A y \in PayloadClosers : y # x => closing'[y] = closing[y] /\ closing[y].pc # "plugins"
  BY <1>1, <1>4, Zenon DEF PipelineInv, CloseRight
<1>9. /\ Len(closedParts') = Len(closedParts) + 1
      /\ \A i \in DOMAIN closedParts' : closedParts'[i] = Stages + 1 - i
  <2>1. Len(closedParts') = Len(closedParts) + 1
    BY <1>2, <1>4, <1>6
  <2> SUFFICES ASSUME NEW i \in DOMAIN closedParts'
               PROVE  closedParts'[i] = Stages + 1 - i
    BY <2>1, Zenon
  <2>2. i \in 1 .. Len(closedParts) + 1
    BY <1>4, <1>6, <2>1
  <2>3. CASE i = Len(closedParts) + 1
    BY <1>2, <1>4, <1>5, <1>6, <2>3, StagesAssumption
  <2>4. CASE i \in DOMAIN closedParts
    BY <1>2, <1>4, <1>6, <2>4 DEF PipelineInv, CloseRight
  <2> QED
    BY <1>6, <2>2, <2>3, <2>4
<1>10. CloseRight'
  <2>1. n # 0 => t.stage = Stages - Len(closedParts')
    BY <1>3, <1>5, <1>6, <1>9, StagesAssumption
  <2>2. \A y \in PayloadClosers : closing'[y].pc = "plugins" => y = x /\ n # 0
    BY <1>3, <1>8, Zenon
  <2>3. \A y \in PayloadClosers : closing'[y].pc = "idle" => closing'[y].stage = Stages
    <3>1. t.pc # "idle"
      BY <1>3, Zenon
    <3> QED
      BY <1>8, <3>1, Zenon DEF PipelineInv, CloseRight
  <2>4. Len(closedParts') <= Stages + 1
    BY <1>6, <1>9, StagesAssumption
  <2> QED
    BY <1>4, <1>5, <1>8, <1>9, <2>1, <2>2, <2>3, <2>4, Zenon DEF CloseRight
<1> QED
  BY <1>4, <1>7, <1>10, WritesUntouched, Zenon DEF PipelineInv

-----------------------------------------------------------------------------
LEMMA PipelineInductive ==
  PipelineInv /\ [PayloadNext]_payloadVars => PipelineInv'
<1> SUFFICES ASSUME PipelineInv, [PayloadNext]_payloadVars
             PROVE  PipelineInv'
  BY Zenon
<1>1. ASSUME NEW w \in PayloadWriters, WriteBegin(w) \/ Process(w) \/ Downstream(w)
      PROVE  PipelineInv'
  BY <1>1, BeginKeeps, ProcessKeeps, DownstreamKeeps, Zenon
<1>2. ASSUME NEW x \in PayloadClosers, CloseBegin(x) \/ ClosePart(x)
      PROVE  PipelineInv'
  BY <1>2, CloseBeginKeeps, ClosePartKeeps, Zenon
<1>3. CASE UNCHANGED payloadVars
  BY <1>3, WritesUntouched, Zenon DEF payloadVars, PipelineInv, PipelineType, CloseRight
<1> QED
  BY <1>1, <1>2, <1>3, Zenon DEF PayloadNext

LEMMA PipelineInvariant ==
  PayloadSpec => []PipelineInv
<1>1. PayloadInit => PipelineInv
  <2> SUFFICES ASSUME PayloadInit PROVE PipelineInv
    BY Zenon
  <2>1. [pc |-> "idle", stage |-> 1, trail |-> <<>>] \in Writes
    BY StagesAssumption DEF Writes
  <2>2. [pc |-> "idle", stage |-> Stages] \in Closes
    BY StagesAssumption DEF Closes
  <2>3. PipelineType
    <3>1. writing \in [PayloadWriters -> Writes] /\ closing \in [PayloadClosers -> Closes]
      BY <2>1, <2>2, Zenon DEF PayloadInit
    <3>2. <<>> \in Seq(0 .. Stages)
      OBVIOUS
    <3> QED
      BY <3>1, <3>2, Zenon DEF PayloadInit, PipelineType
  <2>4. TrailRight /\ DeliveredRight /\ NilMeansHandled
    <3>1. delivered = {} /\ Len(<<>>) = 0 /\ 1 .. 0 = {}
      BY DEF PayloadInit
    <3>2. \A w \in PayloadWriters : writing[w].pc = "idle" /\ writing[w].stage = 1 /\ writing[w].trail = <<>>
      BY Zenon DEF PayloadInit
    <3> QED
      BY <3>1, <3>2 DEF TrailRight, DeliveredRight, NilMeansHandled
  <2>5. CloseRight
    BY StagesAssumption DEF PayloadInit, CloseRight
  <2> QED
    BY <2>3, <2>4, <2>5, Zenon DEF PipelineInv
<1> QED
  BY <1>1, PipelineInductive, PTL DEF PayloadSpec

(***************************************************************************)
(* Close, called by any number of goroutines at once, closes every plugin  *)
(* at most once, the last one first, and the downstream writer after them. *)
(***************************************************************************)
THEOREM PipelineClosesInReverse == PayloadSpec => []ClosedInReverse
<1>1. PipelineInv => ClosedInReverse
  BY Zenon DEF PipelineInv, CloseRight, ClosedInReverse
<1> QED
  BY <1>1, PipelineInvariant, PTL

(***************************************************************************)
(* Whatever the plugins do and whenever Close comes in between, a Write    *)
(* that returned nil delivered its request or dropped it because a plugin  *)
(* or the error handler asked for it; and what was delivered went through  *)
(* every plugin.                                                           *)
(***************************************************************************)
THEOREM PipelineWritesHandled == PayloadSpec => [](NilMeansHandled /\ DeliveredProcessed)
<1>1. PipelineInv => DeliveredProcessed
  <2> SUFFICES ASSUME PipelineInv, NEW w \in delivered
               PROVE  /\ Len(writing[w].trail) = Stages
                      /\ \A i \in 1 .. Stages : GoesOn(writing[w].trail[i])
    BY Zenon DEF DeliveredProcessed, GoesOn
  <2>1. w \in PayloadWriters /\ writing[w].stage = Stages + 1
    BY Zenon DEF PipelineInv, PipelineType, DeliveredRight
  <2>2. Len(writing[w].trail) = Stages
    BY <2>1, StagesAssumption DEF PipelineInv, TrailRight
  <2> QED
    BY <2>1, <2>2, Zenon DEF PipelineInv, TrailRight
<1>2. PipelineInv => NilMeansHandled
  BY Zenon DEF PipelineInv
<1> QED
  BY <1>1, <1>2, PipelineInvariant, PTL

(***************************************************************************)
(* Both together: no request is lost unsaid or stored unprocessed, and     *)
(* everything is closed in order and once.                                 *)
(***************************************************************************)
THEOREM PipelineIsSound == PayloadSpec => []PipelineSound
  BY PipelineClosesInReverse, PipelineWritesHandled, PTL DEF PipelineSound

=============================================================================
