------------------------------- MODULE FleetView -------------------------------
(***************************************************************************)
(* What the hub knows of its fleet (internal/hub/grpc_server.go): the      *)
(* registry of spokes with the captures and replay shards they report, and *)
(* the views computed from it: the query RPCs and the CaptureHub's status. *)
(* Spokes (cmd/spoke/main.go, internal/spoke/hub_client.go) register once, *)
(* report a status after the pass that wrote it, best effort, and send     *)
(* heartbeats that carry every replay status and no capture status.        *)
(*                                                                         *)
(* A replay stands for one shard of a load test of its own; counts of      *)
(* requests and latencies are left out.                                    *)
(***************************************************************************)
EXTENDS Naturals, FiniteSets, FiniteSetsExt, Functions

CONSTANTS
    FleetSpokes,        \* spoke names
    CellOf,             \* [FleetSpokes -> cell]
    FleetCaptures,      \* TrafficCaptures
    FleetReplays,       \* replay shards
    HomeOf,             \* the spoke each capture and each shard runs at
    MaxFleetFaults,     \* bound on lost calls, crashes and restarts
    MaxFleetClears      \* bound on load tests deleted at the hub

VARIABLES
    registry,           \* s.spokes: a function on the registered spokes
    process,            \* each spoke process: "down", "standalone", "attached"
    captureAt,          \* how far the captures at each spoke are
    replayAt,           \* phases of the replay shards at each spoke
    unreported,         \* status changes that a pass has yet to report
    fleetFaults, clears

fleetVars == <<registry, process, captureAt, replayAt, unreported, fleetFaults, clears>>

\* The phases that a pass reports, and how a pass ends that stops at the storage.
CapturePhases == {"Pending", "Active", "Completed"}
StorageLacks == {"StorageNotReady", "StorageNotFound"}
ReplayPhases == {"Pending", "Running", "Completed", "Failed"}
NoStatus == [x \in {} |-> "none"]

\* A spokeEntry: heartbeat in time, statuses by name, and the two counts of its SpokeInfo.
NewEntry == [fresh |-> TRUE, captures |-> NoStatus, replays |-> NoStatus,
             activeCaptures |-> 0, activeReplays |-> 0]

FleetInit ==
    /\ registry = [s \in {} |-> NewEntry]
    /\ process = [s \in FleetSpokes |-> "down"]
    /\ captureAt = [s \in FleetSpokes |-> NoStatus]
    /\ replayAt = [s \in FleetSpokes |-> NoStatus]
    /\ unreported = {}
    /\ fleetFaults = 0 /\ clears = 0

Registered == DOMAIN registry

\* m with the entries of n: a Go map after "m[k] = v" for all of n.
Merge(m, n) == [k \in DOMAIN m \cup DOMAIN n |-> IF k \in DOMAIN n THEN n[k] ELSE m[k]]
Put(m, k, v) == Merge(m, [x \in {k} |-> v])

FleetFault == fleetFaults < MaxFleetFaults /\ fleetFaults' = fleetFaults + 1

-----------------------------------------------------------------------------
(***************************************************************************)
(* The views.                                                              *)
(***************************************************************************)
activeReplayCount(replays) ==
    Cardinality({r \in DOMAIN replays : replays[r] \notin {"Completed", "Failed"}})

ConnectedSpokeCount == Cardinality({s \in Registered : registry[s].fresh})
ActiveCaptureCount == MapThenSumSet(LAMBDA s : Cardinality(DOMAIN registry[s].captures), Registered)
ActiveReplayCount == MapThenSumSet(LAMBDA s : activeReplayCount(registry[s].replays), Registered)

\* ListSpokes: the stored SpokeInfo, but disconnected once the heartbeat is late.
ListSpokes ==
    [s \in Registered |-> [connected |-> registry[s].fresh,
                           activeCaptures |-> registry[s].activeCaptures,
                           activeReplays |-> registry[s].activeReplays]]

\* SpokeStatuses: the stored count of captures and a fresh count of replays.
SpokeStatuses ==
    [s \in Registered |-> [activeCaptures |-> registry[s].activeCaptures,
                           activeReplays |-> activeReplayCount(registry[s].replays)]]

\* ListCells and CellStatuses, which aggregate alike.
CellStatuses ==
    [cell \in {CellOf[s] : s \in Registered} |->
        LET members == {s \in Registered : CellOf[s] = cell}
        IN  [totalSpokes     |-> Cardinality(members),
             connectedSpokes |-> Cardinality({s \in members : registry[s].fresh}),
             activeCaptures  |-> MapThenSumSet(LAMBDA s : Cardinality(DOMAIN registry[s].captures), members),
             activeReplays   |-> MapThenSumSet(LAMBDA s : activeReplayCount(registry[s].replays), members)]]

\* ListCaptures and ListReplays without filters; GetCaptureStatus finds any of them.
ListCaptures == {<<s, c>> \in FleetSpokes \X FleetCaptures :
                    s \in Registered /\ c \in DOMAIN registry[s].captures}
ListReplays == {<<s, r>> \in FleetSpokes \X FleetReplays :
                    s \in Registered /\ r \in DOMAIN registry[s].replays}

-----------------------------------------------------------------------------
(***************************************************************************)
(* The RPCs and the spokes that call them.                                 *)
(***************************************************************************)
\* The spoke's main: Connect and Register, or standalone mode for good.
StartSpoke(s) ==
    /\ process[s] = "down"
    /\ \/ /\ registry' = Put(registry, s, NewEntry)
          /\ process' = [process EXCEPT ![s] = "attached"]
          /\ fleetFaults' = fleetFaults
       \/ /\ FleetFault
          /\ process' = [process EXCEPT ![s] = "standalone"]
          /\ registry' = registry
    /\ UNCHANGED <<captureAt, replayAt, unreported, clears>>

\* The spoke leaves: a clean exit deregisters, a crash or a failing call does not.
StopSpoke(s) ==
    /\ process[s] # "down"
    /\ FleetFault
    /\ process' = [process EXCEPT ![s] = "down"]
    /\ unreported' = {u \in unreported : u[1] # s}
    /\ \/ process[s] = "attached" /\ registry' = Restrict(registry, Registered \ {s})
       \/ registry' = registry
    /\ UNCHANGED <<captureAt, replayAt, clears>>

HeartbeatBare(s) ==             \* mutant: the heartbeat carries no replay statuses
    /\ process[s] = "attached" /\ s \in Registered
    /\ registry' = [registry EXCEPT ![s].fresh = TRUE, ![s].activeCaptures = 0]
    /\ UNCHANGED <<process, captureAt, replayAt, unreported, fleetFaults, clears>>

\* sendHeartbeat sets no CaptureSummaries, so the count of captures it sends is zero.
FleetHeartbeat(s) ==
    /\ process[s] = "attached" /\ s \in Registered
    /\ LET replays == Merge(registry[s].replays, replayAt[s])
       IN  registry' = [registry EXCEPT ![s].fresh = TRUE,
                                        ![s].activeCaptures = 0,
                                        ![s].replays = replays,
                                        ![s].activeReplays = activeReplayCount(replays)]
    /\ UNCHANGED <<process, captureAt, replayAt, unreported, fleetFaults, clears>>

\* No heartbeat for SpokeTimeout.
FleetExpire(s) ==
    /\ s \in Registered /\ registry[s].fresh
    /\ FleetFault
    /\ registry' = [registry EXCEPT ![s].fresh = FALSE]
    /\ UNCHANGED <<process, captureAt, replayAt, unreported, clears>>

\* A pass over a capture writes its phase and is then about to report it; one that stops
\* at the storage writes Pending or Failed and returns without a report.
CapturePass(s, c) ==
    /\ HomeOf[c] = s /\ process[s] # "down" /\ <<s, c>> \notin unreported
    /\ c \in DOMAIN captureAt[s] => captureAt[s][c] # "Completed"
    /\ \E next \in CapturePhases \cup StorageLacks :
          /\ next = "Completed" => c \in DOMAIN captureAt[s]
          /\ captureAt' = [captureAt EXCEPT ![s] = Put(@, c, next)]
          /\ unreported' = IF next \in CapturePhases THEN unreported \cup {<<s, c>>} ELSE unreported
    /\ UNCHANGED <<registry, process, replayAt, fleetFaults, clears>>

\* The deletion of a capture is not reported.
CaptureGone(s, c) ==
    /\ process[s] # "down" /\ c \in DOMAIN captureAt[s] /\ <<s, c>> \notin unreported
    /\ captureAt' = [captureAt EXCEPT ![s] = Restrict(@, DOMAIN @ \ {c})]
    /\ UNCHANGED <<registry, process, replayAt, unreported, fleetFaults, clears>>

\* A replay shard of a spoke moves on.
ReplayMoves(s, r) ==
    /\ HomeOf[r] = s /\ process[s] # "down" /\ <<s, r>> \notin unreported
    /\ LET phase == IF r \in DOMAIN replayAt[s] THEN replayAt[s][r] ELSE "none"
       IN  \E next \in CASE phase = "none" -> {"Pending"} [] phase = "Pending" -> {"Running"}
                         [] phase = "Running" -> {"Completed", "Failed"} [] OTHER -> {} :
              replayAt' = [replayAt EXCEPT ![s] = Put(@, r, next)]
    /\ unreported' = unreported \cup {<<s, r>>}
    /\ UNCHANGED <<registry, process, captureAt, fleetFaults, clears>>

\* reportToHub of the two reconcilers: one attempt, by an attached spoke; a spoke that the
\* hub does not know gets NotFound.
ReportCaptureStatus(s, c) ==
    /\ <<s, c>> \in unreported /\ c \in FleetCaptures
    /\ unreported' = unreported \ {<<s, c>>}
    /\ IF process[s] = "attached" /\ s \in Registered
       THEN \/ /\ LET captures == Put(registry[s].captures, c, captureAt[s][c])
                  IN  registry' = [registry EXCEPT ![s].captures = captures,
                                       ![s].activeCaptures = Cardinality(DOMAIN captures)]
               /\ fleetFaults' = fleetFaults
            \/ FleetFault /\ registry' = registry
       ELSE registry' = registry /\ fleetFaults' = fleetFaults
    /\ UNCHANGED <<process, captureAt, replayAt, clears>>

ReportReplay(s, r) ==
    /\ <<s, r>> \in unreported /\ r \in FleetReplays
    /\ unreported' = unreported \ {<<s, r>>}
    /\ IF process[s] = "attached" /\ s \in Registered
       THEN \/ /\ LET replays == Put(registry[s].replays, r, replayAt[s][r])
                  IN  registry' = [registry EXCEPT ![s].replays = replays,
                                       ![s].activeReplays = activeReplayCount(replays)]
               /\ fleetFaults' = fleetFaults
            \/ FleetFault /\ registry' = registry
       ELSE registry' = registry /\ fleetFaults' = fleetFaults
    /\ UNCHANGED <<process, captureAt, replayAt, clears>>


\* ClearReplayStatuses, when the load test of r is deleted at the hub.
ClearReplays(r) ==
    /\ clears < MaxFleetClears /\ clears' = clears + 1
    /\ registry' = [s \in Registered |->
          LET replays == Restrict(registry[s].replays, DOMAIN registry[s].replays \ {r})
          IN  [registry[s] EXCEPT !.replays = replays,
                                  !.activeReplays = activeReplayCount(replays)]]
    /\ UNCHANGED <<process, captureAt, replayAt, unreported, fleetFaults>>

\* A new hub process knows nobody; spokes do not register again.
FleetHubRestarts ==
    /\ FleetFault
    /\ registry' = [s \in {} |-> NewEntry]
    /\ UNCHANGED <<process, captureAt, replayAt, unreported, clears>>

FleetNext ==
    \/ \E s \in FleetSpokes :
          \/ StartSpoke(s) \/ StopSpoke(s) \/ FleetHeartbeat(s) \/ FleetExpire(s)
          \/ \E c \in FleetCaptures : CapturePass(s, c) \/ CaptureGone(s, c) \/ ReportCaptureStatus(s, c)
          \/ \E r \in FleetReplays : ReplayMoves(s, r) \/ ReportReplay(s, r)
    \/ \E r \in FleetReplays : ClearReplays(r)
    \/ FleetHubRestarts

-----------------------------------------------------------------------------
(***************************************************************************)
(* Properties.                                                             *)
(***************************************************************************)
\* The type invariant of the fleet registry.
FleetTypeOK ==
    /\ Registered \subseteq FleetSpokes
    /\ process \in [FleetSpokes -> {"down", "standalone", "attached"}]
    /\ \A s \in Registered :
          /\ DOMAIN registry[s].captures \subseteq FleetCaptures
          /\ Range(registry[s].captures) \subseteq CapturePhases
          /\ DOMAIN registry[s].replays \subseteq FleetReplays
          /\ Range(registry[s].replays) \subseteq ReplayPhases
          /\ registry[s].activeCaptures \in 0 .. Cardinality(FleetCaptures)

\* The views agree with each other: the stored counts of ListSpokes, the fresh ones of
\* SpokeStatuses, the aggregates of the cells and the totals of the hub count the same
\* shards, captures and spokes, after any order of reports, heartbeats, deletions and
\* registrations.  The captures of a spoke in ListSpokes and SpokeStatuses are excepted:
\* every heartbeat sets that count to zero, until the next report.
CountsAgree ==
    LET sum(field) == MapThenSumSet(LAMBDA c : CellStatuses[c][field], DOMAIN CellStatuses)
    IN  /\ \A s \in Registered :
              /\ ListSpokes[s].activeReplays = SpokeStatuses[s].activeReplays
              /\ ListSpokes[s].activeCaptures = SpokeStatuses[s].activeCaptures
              /\ ListSpokes[s].activeCaptures \in {0, Cardinality(DOMAIN registry[s].captures)}
        /\ sum("activeReplays") = ActiveReplayCount /\ ActiveReplayCount <= Cardinality(ListReplays)
        /\ sum("activeCaptures") = ActiveCaptureCount /\ ActiveCaptureCount = Cardinality(ListCaptures)
        /\ sum("connectedSpokes") = ConnectedSpokeCount

\* The views agree with the spokes: as long as no call failed and no process restarted, the
\* hub has the phase of every capture and every shard, but for changes that a pass has yet
\* to report, captures whose pass stopped at their storage, and shards of a load test that
\* was deleted.
ViewsTrue ==
    fleetFaults = 0 =>
        \A s \in FleetSpokes : process[s] = "attached" =>
            /\ s \in Registered
            /\ \A c \in DOMAIN captureAt[s] :
                  <<s, c>> \in unreported \/ captureAt[s][c] \in StorageLacks
                  \/ (c \in DOMAIN registry[s].captures /\ registry[s].captures[c] = captureAt[s][c])
            /\ clears = 0 => \A r \in DOMAIN replayAt[s] :
                  <<s, r>> \in unreported
                  \/ (r \in DOMAIN registry[s].replays /\ registry[s].replays[r] = replayAt[s][r])


\* Lost reports are repaired: once nothing changes any more, the hub has the phase of every
\* replay shard of every spoke that is still registered.
ReplaysCaughtUp ==
    <>[](\A s \in Registered : process[s] = "attached" =>
            \A r \in DOMAIN replayAt[s] :
               r \in DOMAIN registry[s].replays /\ registry[s].replays[r] = replayAt[s][r])
=============================================================================
