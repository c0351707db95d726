------------------------------ MODULE ReplayJobs ------------------------------
(***************************************************************************)
(* The TrafficReplay reconciler of a spoke and the Jobs it runs            *)
(* (internal/spoke/replay_controller.go, replay_runner.go), for one name:  *)
(* names share nothing.  A load test that is created again gives its       *)
(* shards the names they had, so a TrafficReplay may meet the Job and the  *)
(* pods of its predecessor.  Passes read informer caches, which may lag;   *)
(* a write of an object fails if the object has changed since it was read. *)
(***************************************************************************)
EXTENDS Naturals, Sequences

CONSTANTS
    MaxReplayCreates,   \* bound on TrafficReplays created under the name
    MaxJobFaults        \* bound on failing calls, crashes, edits and lost objects

ASSUME ReplayJobsAssumption == {MaxReplayCreates, MaxJobFaults} \subseteq Nat

VARIABLES
    informersLag,       \* whether the informer caches lag in this behaviour
    replay,             \* the stored TrafficReplay
    replayCopy,         \* the cache's copy of it, and whether that is the stored version
    job,                \* the stored Job
    jobCopy,            \* the cache's copy of it
    running,            \* the TrafficReplays that have a running worker pod
    replayPass,         \* the pass in progress: none or one [tr, pc, stale]
    jobFaults

jobVars == <<informersLag, replay, replayCopy, job, jobCopy, running, replayPass, jobFaults>>

\* gen stands for the UID, spec for the outcome of the allowlist and of BuildReplayJob;
\* decided (history) is the owner of the Job that ended it, 0 if none did.
NoReplay(gen) == [live |-> "absent", gen |-> gen, finalizer |-> FALSE, spec |-> "ok",
                  phase |-> "New", decided |-> 0]

NewReplay(gen, spec) == [NoReplay(gen) EXCEPT !.live = "present", !.spec = spec]

\* owner is the gen of the TrafficReplay that controls the Job, 0 when there is no Job.
NoJob == [owner |-> 0, state |-> "waiting"]

Terminal(t) == t.phase \in {"Completed", "Failed"}

JobsInit ==
    /\ informersLag \in BOOLEAN
    /\ replay = NoReplay(0) /\ replayCopy = [of |-> NoReplay(0), fresh |-> TRUE]
    /\ job = NoJob /\ jobCopy = NoJob
    /\ running = {}
    /\ replayPass = <<>> /\ jobFaults = 0

JobFault == jobFaults < MaxJobFaults /\ jobFaults' = jobFaults + 1

\* A new version of the TrafficReplay or of the Job is stored.
StoreReplay(t) ==
    /\ replay' = t
    /\ replayCopy' = IF informersLag THEN [replayCopy EXCEPT !.fresh = FALSE]
                     ELSE [of |-> t, fresh |-> TRUE]

StoreJob(j) == job' = j /\ jobCopy' = IF informersLag THEN jobCopy ELSE j

-----------------------------------------------------------------------------
(***************************************************************************)
(* A pass.                                                                 *)
(***************************************************************************)
ReplayFirstTerminal(t) ==       \* mutant: a finished replay is left alone, deleted or not
    IF Terminal(t) THEN "return"
    ELSE IF t.live = "deleting" THEN "delete-job"
    ELSE IF ~t.finalizer THEN "finalizer" ELSE "decide"

\* What Reconcile does first with the TrafficReplay it read.
ReplayFirst(t) ==
    IF t.live = "deleting" THEN "delete-job"
    ELSE IF ~t.finalizer THEN "finalizer"
    ELSE IF Terminal(t) THEN "return" ELSE "decide"

ReplayAt(pc) == replayPass # <<>> /\ replayPass[1].pc = pc
Mine == replayPass[1].tr
ReplayGoto(t, pc) ==
    replayPass' = IF pc = "return" THEN <<>> ELSE <<[replayPass[1] EXCEPT !.tr = t, !.pc = pc]>>

ReplayBegin ==
    /\ replayPass = <<>>
    /\ replayCopy.of.live # "absent"
    /\ ReplayFirst(replayCopy.of) # "return"
    /\ replayPass' = <<[tr |-> replayCopy.of, pc |-> ReplayFirst(replayCopy.of),
                        stale |-> ~replayCopy.fresh]>>
    /\ UNCHANGED <<informersLag, replay, replayCopy, job, jobCopy, running, jobFaults>>

\* Update or Status().Update of the TrafficReplay; a conflict ends the pass.
WriteReplay(t, next) ==
    IF replayPass[1].stale
    THEN replayPass' = <<>> /\ UNCHANGED <<replay, replayCopy>>
    ELSE StoreReplay(t) /\ ReplayGoto(t, next)

AddReplayFinalizer ==
    /\ ReplayAt("finalizer")
    /\ LET t == [Mine EXCEPT !.finalizer = TRUE] IN WriteReplay(t, ReplayFirst(t))
    /\ UNCHANGED <<informersLag, job, jobCopy, running, jobFaults>>

FromJobNamed(t, j) ==           \* mutant: the phase takes the name of the Job's state
    [t EXCEPT !.phase = j.state]

\* The phase that a Job's status gives.  The counts scraped from its pods are left out.
FromJob(t, j) ==
    CASE j.state = "succeeded" -> [t EXCEPT !.phase = "Completed", !.decided = j.owner]
      [] j.state = "failed" -> [t EXCEPT !.phase = "Failed", !.decided = j.owner]
      [] j.state = "active" -> [t EXCEPT !.phase = "Running"]
      [] j.state = "waiting" -> [t EXCEPT !.phase = "Pending"]

\* The safety gate, the storage (whose absence is a fault), and the Job as the cache shows it.
DecideReplay ==
    /\ ReplayAt("decide")
    /\ IF Mine.spec = "denied"
       THEN ReplayGoto([Mine EXCEPT !.phase = "Failed"], "write") /\ UNCHANGED jobFaults
       ELSE \/ JobFault /\ ReplayGoto([Mine EXCEPT !.phase = "Pending"], "write")
            \/ /\ UNCHANGED jobFaults
               /\ jobCopy = NoJob
               /\ IF Mine.spec = "invalid"
                  THEN ReplayGoto([Mine EXCEPT !.phase = "Failed"], "write")
                  ELSE ReplayGoto(Mine, "create")
            \/ /\ UNCHANGED jobFaults
               /\ jobCopy # NoJob
               /\ ReplayGoto(FromJob(Mine, jobCopy), "write")
    /\ UNCHANGED <<informersLag, replay, replayCopy, job, jobCopy, running>>

\* Create fails when there is a Job of that name after all.
CreateJob ==
    /\ ReplayAt("create")
    /\ IF job = NoJob
       THEN /\ StoreJob([owner |-> Mine.gen, state |-> "waiting"])
            /\ ReplayGoto([Mine EXCEPT !.phase = "Pending"], "write")
       ELSE replayPass' = <<>> /\ UNCHANGED <<job, jobCopy>>
    /\ UNCHANGED <<informersLag, replay, replayCopy, running, jobFaults>>

UpdateReplayStatus ==
    /\ ReplayAt("write")
    /\ WriteReplay(Mine, "return")
    /\ UNCHANGED <<informersLag, job, jobCopy, running, jobFaults>>

ReleaseReplayFirst ==           \* mutant: the finalizer goes and the Job is left to the collector
    /\ ReplayAt("delete-job")
    /\ WriteReplay(NoReplay(Mine.gen), "return")
    /\ UNCHANGED <<informersLag, job, jobCopy, running, jobFaults>>

\* reconcileDelete; the deletion is in the background, so the pods stay for a while.
DeleteJob ==
    /\ ReplayAt("delete-job")
    /\ StoreJob(NoJob)
    /\ ReplayGoto(Mine, "release")
    /\ UNCHANGED <<informersLag, replay, replayCopy, running, jobFaults>>

ReleaseReplay ==
    /\ ReplayAt("release")
    /\ WriteReplay(NoReplay(Mine.gen), "return")
    /\ UNCHANGED <<informersLag, job, jobCopy, running, jobFaults>>

\* A call fails, with or without effect, or the process dies: the pass is over.
ReplayPassFails ==
    /\ replayPass # <<>>
    /\ JobFault
    /\ replayPass' = <<>>
    /\ UNCHANGED <<informersLag, replay, replayCopy, job, jobCopy, running>>

-----------------------------------------------------------------------------
(***************************************************************************)
(* The directive handler or a user, and the controllers of Kubernetes.     *)
(***************************************************************************)
\* A change by someone else makes the copy of a pass stale.
OutdateReplay ==
    replayPass' = [i \in DOMAIN replayPass |-> [replayPass[i] EXCEPT !.stale = TRUE]]

CreateReplay ==
    /\ replay.live = "absent" /\ replay.gen < MaxReplayCreates
    /\ \E spec \in {"ok", "denied", "invalid"} : StoreReplay(NewReplay(replay.gen + 1, spec))
    /\ UNCHANGED <<informersLag, job, jobCopy, running, replayPass, jobFaults>>

DeleteReplay ==
    /\ replay.live = "present"
    /\ StoreReplay(IF replay.finalizer THEN [replay EXCEPT !.live = "deleting"]
                   ELSE NoReplay(replay.gen))
    /\ OutdateReplay
    /\ UNCHANGED <<informersLag, job, jobCopy, running, jobFaults>>

\* An edit of the allowlist.
EditReplay ==
    /\ replay.live = "present"
    /\ JobFault
    /\ \E spec \in {"ok", "denied"} \ {replay.spec} : StoreReplay([replay EXCEPT !.spec = spec])
    /\ OutdateReplay
    /\ UNCHANGED <<informersLag, job, jobCopy, running>>

SyncReplay ==
    /\ ~replayCopy.fresh
    /\ replayCopy' = [of |-> replay, fresh |-> TRUE]
    /\ UNCHANGED <<informersLag, replay, job, jobCopy, running, replayPass, jobFaults>>

SyncJob ==
    /\ jobCopy # job
    /\ jobCopy' = job
    /\ UNCHANGED <<informersLag, replay, replayCopy, job, running, replayPass, jobFaults>>

\* The Job controller starts a pod; the pods end, after retries.
JobStarts ==
    /\ job # NoJob /\ job.state = "waiting"
    /\ StoreJob([job EXCEPT !.state = "active"])
    /\ running' = running \cup {job.owner}
    /\ UNCHANGED <<informersLag, replay, replayCopy, replayPass, jobFaults>>

JobEnds ==
    /\ job.state = "active"
    /\ \E state \in {"succeeded", "failed"} : StoreJob([job EXCEPT !.state = state])
    /\ running' = running \ {job.owner}
    /\ UNCHANGED <<informersLag, replay, replayCopy, replayPass, jobFaults>>

\* Someone deletes the Job.
RemoveJob ==
    /\ job # NoJob
    /\ JobFault
    /\ StoreJob(NoJob)
    /\ UNCHANGED <<informersLag, replay, replayCopy, running, replayPass>>

\* The garbage collector: a Job whose TrafficReplay is gone, pods whose Job is gone.
CollectJob ==
    /\ job # NoJob
    /\ replay.live = "absent" \/ replay.gen # job.owner
    /\ StoreJob(NoJob)
    /\ UNCHANGED <<informersLag, replay, replayCopy, running, replayPass, jobFaults>>

CollectPods ==
    /\ \E gen \in running : gen # job.owner /\ running' = running \ {gen}
    /\ UNCHANGED <<informersLag, replay, replayCopy, job, jobCopy, replayPass, jobFaults>>

ReplayStep == AddReplayFinalizer \/ DecideReplay \/ CreateJob \/ UpdateReplayStatus
              \/ DeleteJob \/ ReleaseReplay

JobsNext ==
    \/ ReplayBegin \/ ReplayStep \/ ReplayPassFails
    \/ CreateReplay \/ DeleteReplay \/ EditReplay \/ SyncReplay \/ SyncJob
    \/ JobStarts \/ JobEnds \/ RemoveJob \/ CollectJob \/ CollectPods

-----------------------------------------------------------------------------
(***************************************************************************)
(* Properties.                                                             *)
(***************************************************************************)
\* The type invariant of the TrafficReplay reconciler.
JobsTypeOK ==
    /\ replay.live \in {"absent", "present", "deleting"}
    /\ replay.gen \in 0 .. MaxReplayCreates
    /\ replay.phase \in {"New", "Pending", "Running", "Completed", "Failed"}
    /\ job.owner \in 0 .. MaxReplayCreates
    /\ job.state \in {"waiting", "active", "succeeded", "failed"}
    /\ running \subseteq 1 .. MaxReplayCreates
    /\ Len(replayPass) <= 1
    /\ jobFaults \in 0 .. MaxJobFaults

\* The result of a TrafficReplay stands, and it is its own. "Terminal replays stay terminal":
\* whatever becomes of the Job, the storage or the spec, and however old the copies are that
\* passes read, a phase that is final changes only with the end of the replay. And as long as
\* caches do not lag, it comes from the replay's own Job, never from that of a predecessor of
\* the same name (reconcileDelete removes the Job before the finalizer).
ResultStands ==
    [][/\ Terminal(replay) /\ replay'.live # "absent" => replay'.phase = replay.phase
       /\ ~informersLag' => replay'.decided \in {0, replay'.gen}]_jobVars

\* A TrafficReplay ends: it completes or fails, unless it is deleted before.
ReplayEnds == []<>(replay.live = "present" => Terminal(replay))

\* A deleted TrafficReplay goes, and its Job and its workers with it, for good: a pass on
\* an old copy may start a Job for it again, but not one that stays.  (Once Deleted(gen),
\* always Deleted(gen).)
Deleted(gen) == replay.gen > gen \/ (replay.gen = gen /\ replay.live # "present")
LoadStops ==
    <>[](\A gen \in 1 .. MaxReplayCreates : Deleted(gen) =>
            /\ replay.gen # gen \/ replay.live = "absent"
            /\ gen # job.owner /\ gen \notin running)

\* Every TrafficReplay comes to an end, and after a deletion so does its load, although
\* caches lag, the owner's deletion only marks the Job and the pods outlive it for a while.
ReplaysEnd == ReplayEnds /\ LoadStops
=============================================================================
