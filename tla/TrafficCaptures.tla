---------------------------- MODULE TrafficCaptures ----------------------------
(***************************************************************************)
(* The capture control plane of a spoke (internal/spoke/controller.go,     *)
(* mirror.go, agent_deployer.go, capturestorage_controller.go).  One       *)
(* worker reconciles the TrafficCaptures; a pass is a series of API calls, *)
(* between which users edit, routes change and the process may die.  A     *)
(* pass works on the TrafficCapture that it read when it began, and its    *)
(* writes to that object fail if the object has changed since.             *)
(***************************************************************************)
EXTENDS Naturals, Sequences

CONSTANTS
    Captures,           \* names of TrafficCaptures
    Timed,              \* those with a capture.duration
    Routes,             \* names of HTTPRoutes and GRPCRoutes
    TargetOf,           \* [Captures -> Routes], spec.targetRef
    Foreign,            \* mirror filters that are none of these captures'
    MaxCreates,         \* bound on objects created under one name
    MaxRules,           \* bound on the rules of a route
    MaxApiFaults,       \* bound on failing API calls and crashes of the spoke
    MaxEdits            \* bound on edits of the storage and deletions of routes

ASSUME CapturesAssumption ==
    /\ Timed \subseteq Captures /\ Foreign \cap Captures = {} /\ TargetOf \in [Captures -> Routes]
    /\ {MaxCreates, MaxRules, MaxApiFaults, MaxEdits} \subseteq Nat

VARIABLES
    tc,                 \* the stored TrafficCaptures
    elapsed,            \* captures whose duration has passed since their startTime
    storage,            \* the CaptureStorage that all of them name
    agents,             \* what the reconciler creates for each capture
    rules,              \* for each route the filters of each rule; no rules: no route
    pass,               \* the pass in progress: none or one [name, tc, pc, stale]
    leaked,             \* history: captures deleted though removing their filter failed
    apiFaults, edits

captureVars == <<tc, elapsed, storage, agents, rules, pass, leaked, apiFaults, edits>>

\* live: "absent", "present", or "deleting" once it has a deletionTimestamp; gen stands
\* for the UID.
NoCapture(gen) == [live |-> "absent", gen |-> gen, finalizer |-> FALSE,
                   phase |-> "New", started |-> FALSE]

NewCapture(gen) == [NoCapture(gen) EXCEPT !.live = "present"]

\* For each kind the gen of the owner, 0 when there is no such object.
Kinds == {"deployment", "service", "hpa"}
NoAgents == [owner |-> [kind \in Kinds |-> 0], ready |-> FALSE]

CapturesInit ==
    /\ tc = [c \in Captures |-> NoCapture(0)]
    /\ elapsed = {}
    /\ storage = [exists |-> TRUE, valid |-> TRUE, phase |-> "New"]
    /\ agents = [c \in Captures |-> NoAgents]
    /\ rules = [r \in Routes |-> <<Foreign>>]
    /\ pass = <<>>
    /\ leaked = {}
    /\ apiFaults = 0 /\ edits = 0

-----------------------------------------------------------------------------
(***************************************************************************)
(* Mirror filters.  A filter is recognised by the name of the Service it   *)
(* mirrors to, which is that of its capture.  A route is read and written  *)
(* back under its resourceVersion: a concurrent edit makes the call fail.  *)
(***************************************************************************)
RouteOf(c) == rules[TargetOf[c]]
Mirrored(c) == \E r \in Routes : \E i \in DOMAIN rules[r] : c \in rules[r][i]

AddMirrorFilter(c) ==
    rules' = [rules EXCEPT ![TargetOf[c]] = [i \in DOMAIN @ |-> @[i] \cup {c}]]

RemoveAllFilters(c) ==          \* mutant: every mirror filter of the route goes
    rules' = [rules EXCEPT ![TargetOf[c]] = [i \in DOMAIN @ |-> {}]]

RemoveMirrorFilter(c) ==
    rules' = [rules EXCEPT ![TargetOf[c]] = [i \in DOMAIN @ |-> @[i] \ {c}]]

-----------------------------------------------------------------------------
(***************************************************************************)
(* A pass.                                                                 *)
(***************************************************************************)
\* captureExpired: of the copy that the pass read, at the time it looks.
captureExpired(c, t) == c \in Timed /\ t.started /\ c \in elapsed

FirstStepActive(c, t) ==        \* mutant: only an Active capture expires
    IF t.live = "deleting" THEN "unmirror-deleted"
    ELSE IF ~t.finalizer THEN "finalizer"
    ELSE IF t.phase = "Completed" THEN "return"
    ELSE IF t.phase = "Active" /\ captureExpired(c, t) THEN "unmirror" ELSE "storage"

\* What Reconcile does first with the TrafficCapture it read.
FirstStep(c, t) ==
    IF t.live = "deleting" THEN "unmirror-deleted"
    ELSE IF ~t.finalizer THEN "finalizer"
    ELSE IF t.phase = "Completed" THEN "return"
    ELSE IF captureExpired(c, t) THEN "unmirror" ELSE "storage"

At(pc) == pass # <<>> /\ pass[1].pc = pc
Current == pass[1].name
Goto(pc) == pass' = IF pc = "return" THEN <<>> ELSE <<[pass[1] EXCEPT !.pc = pc]>>

ReconcileBegin(c) ==
    /\ pass = <<>>
    /\ tc[c].live # "absent"
    /\ FirstStep(c, tc[c]) # "return"
    /\ pass' = <<[name |-> c, tc |-> tc[c], pc |-> FirstStep(c, tc[c]), stale |-> FALSE]>>
    /\ UNCHANGED <<tc, elapsed, storage, agents, rules, leaked, apiFaults, edits>>

\* r.Update or r.Status().Update of the TrafficCapture itself.
Write(t, next) ==
    IF pass[1].stale
    THEN pass' = <<>> /\ UNCHANGED tc
    ELSE /\ tc' = [tc EXCEPT ![Current] = t]
         /\ pass' = IF next = "return" THEN <<>>
                    ELSE <<[pass[1] EXCEPT !.tc = t, !.pc = next]>>

AddFinalizer ==
    /\ At("finalizer")
    /\ LET t == [pass[1].tc EXCEPT !.finalizer = TRUE] IN Write(t, FirstStep(Current, t))
    /\ UNCHANGED <<elapsed, storage, agents, rules, leaked, apiFaults, edits>>

\* setPhaseWithCondition: Failed without a storage or when the read of it fails, Pending
\* until it is Ready; what runs already keeps running.
GetStorage ==
    /\ At("storage")
    /\ \/ /\ storage.exists
          /\ IF storage.phase = "Ready" THEN Goto("deployment") /\ UNCHANGED tc
             ELSE Write([pass[1].tc EXCEPT !.phase = "Pending"], "return")
          /\ apiFaults' = apiFaults
       \/ /\ \/ ~storage.exists /\ apiFaults' = apiFaults
             \/ apiFaults < MaxApiFaults /\ apiFaults' = apiFaults + 1
          /\ Write([pass[1].tc EXCEPT !.phase = "Failed"], "return")
    /\ UNCHANGED <<elapsed, storage, agents, rules, leaked, edits>>

\* createOrUpdate writes the built object over the one there is, owner included.
createOrUpdate(kind, a) == [a EXCEPT !.owner[kind] = pass[1].tc.gen]

Provision(kind, next) ==
    /\ At(kind)
    /\ agents' = [agents EXCEPT ![Current] = createOrUpdate(kind, @)]
    /\ Goto(next)
    /\ UNCHANGED <<tc, elapsed, storage, rules, leaked, apiFaults, edits>>

EnsureAgents == Provision("deployment", "service") \/ Provision("service", "hpa")
                \/ Provision("hpa", "mirror")

\* Without the route the pass fails.
EnsureMirror ==
    /\ At("mirror")
    /\ AddMirrorFilter(Current)
    /\ Goto(IF RouteOf(Current) = <<>> THEN "return" ELSE "status")
    /\ UNCHANGED <<tc, elapsed, storage, agents, leaked, apiFaults, edits>>

\* updateStatus; a Deployment that the cache does not show yet leaves the status alone.
updateStatus ==
    /\ At("status")
    /\ \/ Write([pass[1].tc EXCEPT
                    !.phase = IF agents[Current].ready THEN "Active" ELSE "Pending",
                    !.started = @ \/ agents[Current].ready], "return")
       \/ Goto("return") /\ UNCHANGED tc
    /\ UNCHANGED <<elapsed, storage, agents, rules, leaked, apiFaults, edits>>

(***************************************************************************)
(* completeCapture: the filter first, then HPA, Deployment and Service,    *)
(* and the phase last.                                                     *)
(***************************************************************************)
Unmirror ==
    /\ At("unmirror")
    /\ RemoveMirrorFilter(Current)
    /\ leaked' = leaked \ {Current}
    /\ Goto("drop-hpa")
    /\ UNCHANGED <<tc, elapsed, storage, agents, apiFaults, edits>>

Dropped(kind, a) ==
    [a EXCEPT !.owner[kind] = 0, !.ready = @ /\ kind # "deployment"]

DropAgent(pc, kind, next) ==
    /\ At(pc)
    /\ agents' = [agents EXCEPT ![Current] = Dropped(kind, @)]
    /\ Goto(next)
    /\ UNCHANGED <<tc, elapsed, storage, rules, leaked, apiFaults, edits>>

CompleteEarly ==                \* mutant: the phase is written before the agents are gone
    /\ At("drop-hpa")
    /\ Write([pass[1].tc EXCEPT !.phase = "Completed"], "return")
    /\ UNCHANGED <<elapsed, storage, agents, rules, leaked, apiFaults, edits>>

DropAgents == DropAgent("drop-hpa", "hpa", "drop-deployment")
              \/ DropAgent("drop-deployment", "deployment", "drop-service")
              \/ DropAgent("drop-service", "service", "complete")

Complete ==
    /\ At("complete")
    /\ Write([pass[1].tc EXCEPT !.phase = "Completed"], "return")
    /\ UNCHANGED <<elapsed, storage, agents, rules, leaked, apiFaults, edits>>

(***************************************************************************)
(* reconcileDelete goes on when the filter cannot be removed.              *)
(***************************************************************************)
UnmirrorDeleted ==
    /\ At("unmirror-deleted")
    /\ \/ /\ RemoveMirrorFilter(Current)
          /\ leaked' = leaked \ {Current}
          /\ apiFaults' = apiFaults
       \/ /\ apiFaults < MaxApiFaults /\ apiFaults' = apiFaults + 1
          /\ leaked' = leaked \cup {Current}
          /\ UNCHANGED rules
    /\ Goto("release")
    /\ UNCHANGED <<tc, elapsed, storage, agents, edits>>

Release ==
    /\ At("release")
    /\ Write(NoCapture(tc[Current].gen), "return")
    /\ elapsed' = IF pass[1].stale THEN elapsed ELSE elapsed \ {Current}
    /\ UNCHANGED <<storage, agents, rules, leaked, apiFaults, edits>>

\* An API call fails, with or without effect, or the process dies: the pass is over.
PassFails ==
    /\ pass # <<>>
    /\ apiFaults < MaxApiFaults /\ apiFaults' = apiFaults + 1
    /\ pass' = <<>>
    /\ UNCHANGED <<tc, elapsed, storage, agents, rules, leaked, edits>>

-----------------------------------------------------------------------------
(***************************************************************************)
(* The CaptureStorage reconciler, and the user who creates, breaks, mends  *)
(* and deletes the CaptureStorage.                                         *)
(***************************************************************************)
ReconcileStorage ==
    /\ storage.exists
    /\ storage' = [storage EXCEPT !.phase = IF storage.valid THEN "Ready" ELSE "Error"]
    /\ storage' # storage
    /\ UNCHANGED <<tc, elapsed, agents, rules, pass, leaked, apiFaults, edits>>

EditStorage ==
    /\ edits < MaxEdits /\ edits' = edits + 1
    /\ \/ storage' = [exists |-> FALSE, valid |-> FALSE, phase |-> "New"]
       \/ \E valid \in BOOLEAN : storage' = [storage EXCEPT !.exists = TRUE, !.valid = valid]
    /\ UNCHANGED <<tc, elapsed, agents, rules, pass, leaked, apiFaults>>

-----------------------------------------------------------------------------
(***************************************************************************)
(* Users, Kubernetes controllers and time.                                 *)
(***************************************************************************)
\* A change of the object makes the copy of a pass stale.
Outdate(c) ==
    pass' = IF pass # <<>> /\ Current = c THEN <<[pass[1] EXCEPT !.stale = TRUE]>> ELSE pass

CreateCapture(c) ==
    /\ tc[c].live = "absent" /\ tc[c].gen < MaxCreates
    /\ tc' = [tc EXCEPT ![c] = NewCapture(@.gen + 1)]
    /\ UNCHANGED <<elapsed, storage, agents, rules, pass, leaked, apiFaults, edits>>

DeleteCapture(c) ==
    /\ tc[c].live = "present"
    /\ tc' = [tc EXCEPT ![c] = IF @.finalizer THEN [@ EXCEPT !.live = "deleting"]
                               ELSE NoCapture(@.gen)]
    /\ Outdate(c)
    /\ UNCHANGED <<elapsed, storage, agents, rules, leaked, apiFaults, edits>>

Elapse(c) ==
    /\ c \in Timed \ elapsed
    /\ tc[c].started
    /\ elapsed' = elapsed \cup {c}
    /\ UNCHANGED <<tc, storage, agents, rules, pass, leaked, apiFaults, edits>>

\* The agents of a Deployment become ready, or stop being ready.
AgentsChange(c) ==
    /\ agents[c].owner["deployment"] # 0
    /\ agents' = [agents EXCEPT ![c].ready = ~@]
    /\ UNCHANGED <<tc, elapsed, storage, rules, pass, leaked, apiFaults, edits>>

\* The garbage collector removes an object whose owner is gone.
CollectGarbage(c) ==
    /\ \E kind \in Kinds :
          /\ agents[c].owner[kind] # 0
          /\ tc[c].live = "absent" \/ agents[c].owner[kind] # tc[c].gen
          /\ agents' = [agents EXCEPT ![c] = Dropped(kind, @)]
    /\ UNCHANGED <<tc, elapsed, storage, rules, pass, leaked, apiFaults, edits>>

DeleteRoute(r) ==
    /\ edits < MaxEdits /\ edits' = edits + 1
    /\ rules[r] # <<>>
    /\ rules' = [rules EXCEPT ![r] = <<>>]
    /\ UNCHANGED <<tc, elapsed, storage, agents, pass, leaked, apiFaults>>

AddRule(r) ==
    /\ Len(rules[r]) < MaxRules
    /\ rules' = [rules EXCEPT ![r] = Append(@, {})]
    /\ UNCHANGED <<tc, elapsed, storage, agents, pass, leaked, apiFaults, edits>>

CaptureStep == AddFinalizer \/ GetStorage \/ EnsureAgents \/ EnsureMirror \/ updateStatus
               \/ Unmirror \/ DropAgents \/ Complete \/ UnmirrorDeleted \/ Release

CapturesNext ==
    \/ \E c \in Captures : ReconcileBegin(c) \/ CreateCapture(c) \/ DeleteCapture(c)
                           \/ Elapse(c) \/ AgentsChange(c) \/ CollectGarbage(c)
    \/ CaptureStep \/ PassFails \/ ReconcileStorage \/ EditStorage
    \/ \E r \in Routes : AddRule(r) \/ DeleteRoute(r)

-----------------------------------------------------------------------------
(***************************************************************************)
(* Properties.                                                             *)
(***************************************************************************)
\* The type invariant of the capture control plane.
CapturesTypeOK ==
    /\ \A c \in Captures :
          /\ tc[c].live \in {"absent", "present", "deleting"}
          /\ tc[c].gen \in 0 .. MaxCreates
          /\ tc[c].phase \in {"New", "Pending", "Active", "Completed", "Failed"}
          /\ agents[c].owner \in [Kinds -> 0 .. MaxCreates]
    /\ elapsed \subseteq Timed /\ leaked \subseteq Captures
    /\ storage.phase \in {"New", "Ready", "Error"}
    /\ \A r \in Routes : Len(rules[r]) <= MaxRules
    /\ Len(pass) <= 1
    /\ apiFaults \in 0 .. MaxApiFaults /\ edits \in 0 .. MaxEdits

\* Once the duration of a capture has passed and it is Completed, its route mirrors
\* nothing to it and none of its agents exist, wherever earlier passes were cut off
\* (completeCapture writes the phase last).
CompletedIsTornDown ==
    \A c \in Captures : tc[c].phase = "Completed" =>
        ~Mirrored(c) /\ agents[c].owner = NoAgents.owner

\* A route mirrors only to a Service that exists: agents come up before the filter and
\* go after it.  A deletion that could not remove the filter is the one exception.
MirrorHasAgents ==
    \A c \in Captures : Mirrored(c) /\ c \notin leaked => agents[c].owner["service"] # 0

\* Filters and agents come and go in the right order: a route never mirrors to agents that
\* are not there, and a capture is Completed only when both are gone.
AgentsBehindMirrors == CompletedIsTornDown /\ MirrorHasAgents

\* Nothing interrupts a capture before its time: a rule loses a filter only when the
\* filter's capture is being deleted or its duration has passed, whatever happens to
\* other captures of the route, to the storage and to the agents.
CaptureUninterrupted ==
    [][\A r \in Routes : \A i \in DOMAIN rules[r] \cap DOMAIN rules'[r] :
          \A f \in rules[r][i] \ rules'[r][i] :
              f \in elapsed \/ (f \in Captures /\ tc[f].live = "deleting")]_captureVars

\* A capture whose duration has passed is completed, unless it is deleted first or Failed:
\* nothing requeues a capture whose storage could not be read, even once, and its mirror
\* and agents stay.
TimedCaptureEnds ==
    \A c \in Timed : []<>(c \in elapsed => \/ tc[c].phase \in {"Completed", "Failed"}
                                          \/ tc[c].live # "present")

\* A deleted capture goes, it does not stay "deleting": its finalizer is released.
DeletedCaptureGoes ==
    \A c \in Captures : []<>(tc[c].live # "deleting")

\* Every capture ends: one whose duration has passed is completed unless it Failed, a deleted
\* one goes, even if API calls fail on the way and passes are cut off.
CapturesEnd == TimedCaptureEnds /\ DeletedCaptureGoes
=============================================================================
