------------------------------ MODULE HubServer ------------------------------
(***************************************************************************)
(* The hub's gRPC server (internal/hub/grpc_server.go): the in-memory      *)
(* registry of spokes, one bounded directive channel per registered spoke, *)
(* the shard statuses the spokes reported, and the load-test list that     *)
(* heartbeat responses carry.  Nothing here is persisted: a server that is *)
(* stopped and started again has an empty registry.                        *)
(*                                                                         *)
(* Every RPC takes the server's lock once, so each is one action.  The     *)
(* actions below constrain the server's variables only; LoadTestController *)
(* and Spoke call them, and LoadTestSystem composes the two.               *)
(***************************************************************************)
EXTENDS Naturals, Sequences, FiniteSets

CONSTANTS
    Spokes,         \* spoke IDs
    Rank,           \* the order of the spoke IDs as strings: [Spokes -> Nat]
    CellOf,         \* the cell a spoke registers in: [Spokes -> cells]
    LoadTests,      \* the namespace/name keys of CaptureLoadTests
    Shards,         \* shard indexes
    Results,        \* what a finished shard's run report may count
    BufferSize,     \* capacity of a spoke's directive channel
    NoSummary       \* "no status reported" (a missing key of entry.replays)

ASSUME BufferSizeAssumption == BufferSize \in Nat \ {0}
ASSUME RankAssumption ==
    /\ Rank \in [Spokes -> Nat]
    /\ \A s, t \in Spokes : s # t => Rank[s] # Rank[t]
ASSUME ShardsAssumption == Shards \subseteq Nat
ASSUME ResultsAssumption == Results \subseteq [sent : Nat, failed : Nat]

VARIABLES
    server,         \* whether the CaptureHub controller holds a running server
    registered,     \* the spokes that have an entry in the registry
    fresh,          \* the entries whose last heartbeat is within SpokeTimeout
    directives,     \* [Spokes -> Seq(Directive)], entry.directives
    replays,        \* the reported shard statuses, entry.replays
    active          \* activeLoadTests and activeLoadTestsComplete

hubVars == <<server, registered, fresh, directives, replays, active>>

-----------------------------------------------------------------------------
(***************************************************************************)
(* Directives and summaries.  "run" numbers the CaptureLoadTests that were *)
(* created under one name.  Neither the directive nor the summary carries  *)
(* it, so no guard or operator reads it; the properties do.                *)
(***************************************************************************)
StartDirective == [action : {"START"}, test : LoadTests, shard : Shards, run : Nat]
StopDirective == [action : {"STOP"}, test : LoadTests]
Directive == StartDirective \cup StopDirective

ReplayPhases == {"New", "Pending", "Running", "Completed", "Failed"}
TerminalReplay == {"Completed", "Failed"}

NoResult == [sent |-> 0, failed |-> 0]
Summary == [phase : ReplayPhases, result : Results \cup {NoResult}, run : Nat]
Summaries == [LoadTests -> [Shards -> Summary \cup {NoSummary}]]
NoSummaries == [k \in LoadTests |-> [i \in Shards |-> NoSummary]]

NoActive == [tests |-> {}, complete |-> FALSE]

HubTypeOK ==
    /\ server \in BOOLEAN
    /\ registered \subseteq Spokes
    /\ fresh \subseteq registered
    /\ directives \in [Spokes -> Seq(Directive)]
    /\ \A s \in Spokes : Len(directives[s]) <= BufferSize
    /\ replays \in [Spokes -> Summaries]
    /\ active \in [tests : SUBSET LoadTests, complete : BOOLEAN]

HubInit ==
    /\ server = FALSE
    /\ registered = {}
    /\ fresh = {}
    /\ directives = [s \in Spokes |-> << >>]
    /\ replays = [s \in Spokes |-> NoSummaries]
    /\ active = NoActive

-----------------------------------------------------------------------------
(***************************************************************************)
(* The life of the server.  NewServer starts with an empty registry and no *)
(* published list; stopping a server abandons both.                        *)
(***************************************************************************)
NewServer == server' = TRUE

StopServer ==
    /\ server' = FALSE
    /\ registered' = {}
    /\ fresh' = {}
    /\ directives' = [s \in Spokes |-> << >>]
    /\ replays' = [s \in Spokes |-> NoSummaries]
    /\ active' = NoActive

(***************************************************************************)
(* RegisterSpoke replaces any previous entry: what was queued for it and   *)
(* what it had reported go with it.                                        *)
(***************************************************************************)
RegisterSpoke(s) ==
    /\ server
    /\ registered' = registered \cup {s}
    /\ fresh' = fresh \cup {s}
    /\ directives' = [directives EXCEPT ![s] = << >>]
    /\ replays' = [replays EXCEPT ![s] = NoSummaries]
    /\ UNCHANGED <<server, active>>

(***************************************************************************)
(* DeregisterSpoke removes the entry, whichever process of the spoke       *)
(* registered it.                                                          *)
(***************************************************************************)
DeregisterSpoke(s) ==
    /\ s \in registered
    /\ registered' = registered \ {s}
    /\ fresh' = fresh \ {s}
    /\ directives' = [directives EXCEPT ![s] = << >>]
    /\ replays' = [replays EXCEPT ![s] = NoSummaries]
    /\ UNCHANGED <<server, active>>

(***************************************************************************)
(* Heartbeat refreshes the entry and upserts the summaries it carries; a   *)
(* summary that is missing from the request is kept, never removed.        *)
(***************************************************************************)
Upsert(old, new) ==
    [k \in LoadTests |-> [i \in Shards |->
        IF new[k][i] = NoSummary THEN old[k][i] ELSE new[k][i]]]

Heartbeat(s, sums) ==
    /\ s \in registered
    /\ fresh' = fresh \cup {s}
    /\ replays' = [replays EXCEPT ![s] = Upsert(@, sums)]
    /\ UNCHANGED <<server, registered, directives, active>>

ReportReplayStatus(s, k, i, sum) ==
    /\ s \in registered
    /\ replays' = [replays EXCEPT ![s][k][i] = sum]
    /\ UNCHANGED <<server, registered, fresh, directives, active>>

(***************************************************************************)
(* SpokeTimeout passes without a heartbeat.  The entry is not removed.     *)
(***************************************************************************)
HeartbeatExpires(s) ==
    /\ s \in fresh
    /\ fresh' = fresh \ {s}
    /\ UNCHANGED <<server, registered, directives, replays, active>>

(***************************************************************************)
(* WatchDirectives: a watcher of the entry takes the next directive off    *)
(* the channel.  Whether it reaches the spoke is the caller's business.    *)
(***************************************************************************)
WatchDirectives(s) ==
    /\ s \in registered
    /\ directives[s] # << >>
    /\ directives' = [directives EXCEPT ![s] = Tail(@)]
    /\ UNCHANGED <<server, registered, fresh, replays, active>>

(***************************************************************************)
(* queueDirective never blocks: the directive is accepted while there is   *)
(* room, and the error says why it was not.                                *)
(***************************************************************************)
QueueCodeOffByOne(s) ==     \* mutant: one directive more than the channel holds
    IF s \notin registered THEN "NotFound"
    ELSE IF Len(directives[s]) <= BufferSize THEN "OK" ELSE "ResourceExhausted"

QueueCode(s) ==
    IF s \notin registered THEN "NotFound"
    ELSE IF Len(directives[s]) < BufferSize THEN "OK" ELSE "ResourceExhausted"

queueDirective(s, d) ==
    /\ directives' = IF QueueCode(s) = "OK"
                     THEN [directives EXCEPT ![s] = Append(@, d)]
                     ELSE directives
    /\ UNCHANGED <<server, registered, fresh, replays, active>>

SetActiveLoadTests(tests, complete) ==
    active' = [tests |-> tests, complete |-> complete]

ClearReplayStatuses(k) ==
    /\ replays' = [s \in Spokes |-> [replays[s] EXCEPT ![k] = [i \in Shards |-> NoSummary]]]
    /\ UNCHANGED <<server, registered, fresh, directives, active>>

-----------------------------------------------------------------------------
(***************************************************************************)
(* Queries the load-test controller makes.                                 *)
(***************************************************************************)
Eligible(cells) ==
    {s \in fresh : cells = {} \/ CellOf[s] \in cells}

\* At most max of the eligible spokes, lowest IDs first; 0 means no limit.
SelectSpokes(cells, max) ==
    IF max = 0 THEN Eligible(cells)
    ELSE {s \in Eligible(cells) :
             Cardinality({t \in Eligible(cells) : Rank[t] < Rank[s]}) < max}

\* The <<spoke, shard>> pairs with a status of load test k.
ReplayStatuses(k) ==
    {p \in Spokes \X Shards : replays[p[1]][k][p[2]] # NoSummary}
=============================================================================
