------------------------------ MODULE MCControl ------------------------------
(***************************************************************************)
(* What surrounds the capture agents and the replay workers, for TLC: each *)
(* behaviour is one of the TrafficCapture controller, the TrafficReplay    *)
(* controller, the hub's listener, the hub's view of the fleet, a plugin   *)
(* registry, a payload pipeline or the settings on their way to an agent.  *)
(* The other parts keep their initial state.                               *)
(***************************************************************************)
EXTENDS TrafficCaptures, ReplayJobs, HubListener, FleetView, PluginRegistry, PayloadPipeline,
        CaptureSettings

CONSTANTS Parts,        \* the parts a run explores
          t1, rt, s1, s2, c1, p1

VARIABLE part

vars == <<part, captureVars, jobVars, listenerVars, fleetVars, pluginVars, payloadVars, settingVars>>

Init ==
    /\ part \in Parts
    /\ CapturesInit /\ JobsInit /\ ListenerInit /\ FleetInit
    /\ PluginsInit /\ PayloadInit /\ CaptureSettingsInit
    /\ hubs[2] # <<>>       \* the other one, created in the same second, takes over by its name
    /\ part # "jobs" => ~informersLag
    /\ part # "listener" => ~hubs[2][1].spec.tls
    /\ part # "pipeline" => onError = CHOOSE h \in Handlers : TRUE
    /\ part # "settings" => <<tcSpec, storageSpec>> = CHOOSE pair \in CaptureSpecs : TRUE

Control(A) ==
    /\ part = "captures" /\ A
    /\ UNCHANGED <<part, jobVars, listenerVars, fleetVars, pluginVars, payloadVars, settingVars>>
Jobs(A) ==
    /\ part = "jobs" /\ A
    /\ UNCHANGED <<part, captureVars, listenerVars, fleetVars, pluginVars, payloadVars, settingVars>>
Listener(A) ==
    /\ part = "listener" /\ A
    /\ UNCHANGED <<part, captureVars, jobVars, fleetVars, pluginVars, payloadVars, settingVars>>
Fleet(A) ==
    /\ part = "fleet" /\ A
    /\ UNCHANGED <<part, captureVars, jobVars, listenerVars, pluginVars, payloadVars, settingVars>>
Plugins(A) ==
    /\ part = "plugins" /\ A
    /\ UNCHANGED <<part, captureVars, jobVars, listenerVars, fleetVars, payloadVars, settingVars>>
Pipeline(A) ==
    /\ part = "pipeline" /\ A
    /\ UNCHANGED <<part, captureVars, jobVars, listenerVars, fleetVars, pluginVars, settingVars>>
Config(A) ==
    /\ part = "settings" /\ A
    /\ UNCHANGED <<part, captureVars, jobVars, listenerVars, fleetVars, pluginVars, payloadVars>>

Next ==
    \/ Control(CapturesNext)
    \/ Jobs(JobsNext)
    \/ Listener(ListenerNext)
    \/ Fleet(FleetNext)
    \/ Plugins(PluginsNext)
    \/ Pipeline(PayloadNext)
    \/ Config(CaptureSettingsNext)

\* A Failed capture is not requeued, unless it is deleted.
Requeued(c) == tc[c].phase # "Failed" \/ tc[c].live = "deleting"

\* A reconcile that began goes on, and the work queue does not starve a capture that
\* is due again and again; goroutines are scheduled; running spokes go on sending
\* heartbeats; informers catch up, Jobs end and garbage is collected.  Nothing is
\* assumed of users, failures or crashes.  None of these actions is enabled in a part
\* that keeps its initial state, but for the listener's.
Fairness ==
    /\ WF_captureVars(CaptureStep)
    /\ \A c \in Captures : SF_captureVars(Requeued(c) /\ ReconcileBegin(c))
    /\ WF_jobVars(ReplayBegin) /\ WF_jobVars(ReplayStep)
    /\ WF_jobVars(SyncReplay) /\ WF_jobVars(SyncJob)
    /\ WF_jobVars(JobStarts \/ JobEnds) /\ WF_jobVars(CollectJob) /\ WF_jobVars(CollectPods)
    /\ WF_listenerVars(part = "listener" /\ HubPassStep)
    /\ WF_listenerVars(\E n \in launches : Launch(n) \/ LaunchPanics(n))
    /\ \A s \in FleetSpokes : WF_fleetVars(FleetHeartbeat(s))

Spec == Init /\ [][Next]_vars /\ Fairness

-----------------------------------------------------------------------------
(***************************************************************************)
(* The instance.                                                           *)
(***************************************************************************)
MCTarget == [c \in Captures |-> rt]

\* The same address, without and with TLS.
MCHubSpecs == {[addr |-> "a", tls |-> b, mtls |-> b] : b \in BOOLEAN}

\* Two spokes, each in a cell of its own; the capture is at the first, the replay at the
\* second.
MCCellOf == [s \in FleetSpokes |-> IF s = s1 THEN "east" ELSE "west"]
MCHomeOf == [x \in FleetCaptures \cup FleetReplays |-> IF x = p1 THEN s2 ELSE s1]

\* Constraints of each kind; those on an order go both ways.
MCNone == [accepts |-> Configs, conflicts |-> {}, before |-> {}, after |-> {}, resources |-> {}]
MCDeclared ==
    {MCNone,
     [MCNone EXCEPT !.accepts = {"good"}, !.resources = {[name |-> "body", access |-> "shared"]}],
     [MCNone EXCEPT !.before = {2}, !.resources = {[name |-> "body", access |-> "exclusive"]}],
     [MCNone EXCEPT !.after = {1}],
     [MCNone EXCEPT !.conflicts = {1}]}

\* Every filter and redaction setting with a good storage; every storage type with every
\* choice of fields; and plugins with a symbol or a config of their own, over files that do
\* not open, lack the symbol, export something else, or have a builder that fails.
MCPlain == [disableRedaction |-> FALSE, redactHeaders |-> {}, pathPrefix |-> Unset,
            headers |-> {}, percentage |-> Unset, maxBodyBytes |-> Unset]
MCFile == [opens |-> TRUE, exports |-> {"NewWriterFactory", "Other"},
           builders |-> {"NewWriterFactory", "Other"}, builds |-> {<<"NewWriterFactory", Unset>>}]
MCFiles == {MCFile, [MCFile EXCEPT !.opens = FALSE], [MCFile EXCEPT !.exports = {"Other"}],
            [MCFile EXCEPT !.builders = {"Other"}], [MCFile EXCEPT !.builds = {}]}
MCStore(t, f) == [type |-> t, fields |-> f, symbol |-> Unset, config |-> Unset,
                  spokeFile |-> MCFile, agentFile |-> MCFile]
MCCaptureSpecs ==
    ([disableRedaction : BOOLEAN, redactHeaders : {{}, {[key |-> "X-Token"]}, NoRedaction},
      pathPrefix : {Unset, <<{"p"}>>}, headers : {{}, {[key |-> "Cookie", value |-> "v"]}},
      percentage : {Unset, <<0>>, <<50>>, <<100>>}, maxBodyBytes : {<<1>>}]
        \X {MCStore("S3", {"bucket", "region"})})
    \cup ({MCPlain} \X UNION {{MCStore(t, f) : f \in SUBSET Required(t)} :
                                  t \in {"S3", "GCS", "EFS", "EBS", "Plugin"}})
    \cup ({MCPlain} \X [type : {"Plugin"}, fields : {{"path"}}, symbol : {Unset, <<"Other">>},
                         config : {Unset, <<"object">>, <<"list">>},
                         spokeFile : MCFiles, agentFile : MCFiles])

MCHeader(k, s, v) == [key |-> k, spelling |-> s, value |-> v]
MCRequests ==
    {[path |-> "p", size |-> 2,
      headers |-> {MCHeader("Cookie", "lower", "v"), MCHeader("X-Token", "canonical", "w")}],
     [path |-> "q", size |-> 1, headers |-> {MCHeader("Cookie", "canonical", "u")}]}

\* Every part stays in its types.
ControlTypeOK ==
    /\ CapturesTypeOK /\ JobsTypeOK /\ ListenerTypeOK /\ FleetTypeOK
    /\ PluginsTypeOK /\ PayloadTypeOK /\ CaptureSettingsTypeOK

\* The hub's server follows its CaptureHubs: when editing ends it has the configuration of
\* the oldest one and the current certificate, and spokes are not disconnected for less.
ServerSettles == ServerKept /\ (part = "listener" => ServerFollows)
=============================================================================
