----------------------------- MODULE CaptureSettings -----------------------------
(***************************************************************************)
(* How the settings of a TrafficCapture and its CaptureStorage reach a     *)
(* capture agent and what they do there: the spoke validates the storage   *)
(* and writes the settings into the environment of the agent's container   *)
(* (internal/spoke/agent_deployer.go), the agent's main reads them back    *)
(* (cmd/capture-agent/main.go), builds its writer factory and its filter,  *)
(* and the handler applies filter and redaction to every request           *)
(* (internal/agent). An unset variable is a sequence of length 0.          *)
(*                                                                         *)
(* A header has a canonical name, the spelling it is written in and a      *)
(* value. Paths are model values; a prefix is the set of paths it covers.  *)
(***************************************************************************)
EXTENDS Naturals, FiniteSets, Sequences

CONSTANTS
    CaptureSpecs,       \* pairs of a TrafficCapture spec (filters, redaction, size limit) and
                        \* a CaptureStorage spec: type, fields that are not blank, a plugin's
                        \* symbol and config, and the shared objects that are at its path
    AgentRequests,      \* requests: path, headers, size
    Samples,            \* values rand.IntN(100) may return
    DefaultMaxBody      \* the agent's --max-body-bytes

ASSUME CaptureSpecsAssumption ==
    \A pair \in CaptureSpecs :
        /\ pair[1].percentage \in Seq(Nat)
        /\ pair[2].type \in {"S3", "GCS", "EFS", "EBS", "Plugin"}
ASSUME HeadersAssumption ==
    \A r \in AgentRequests : \A h \in r.headers : {"key", "value"} \subseteq DOMAIN h
ASSUME SamplesAssumption == Samples \subseteq 0 .. 99

VARIABLES
    tcSpec, storageSpec,
    storagePhase,       \* the CaptureStorage reconciler's verdict, or "none"
    env,                \* <<>> or <<the container's environment>>
    agentCfg,           \* <<>> or <<the running agent's configuration>>
    agentExit,          \* the agent's main gave up
    handled             \* what became of the requests so far

settingVars == <<tcSpec, storageSpec, storagePhase, env, agentCfg, agentExit, handled>>

Unset == <<>>
\* The value "none" of the environment: the word that turns redaction off, and what a list
\* of just that header reads.
NoRedaction == {[key |-> "None"]}
DefaultRedact == {"Authorization", "Proxy-Authorization", "Cookie", "Set-Cookie", "X-Api-Key",
                  "X-Auth-Token"}

CaptureSettingsInit ==
    /\ \E pair \in CaptureSpecs : tcSpec = pair[1] /\ storageSpec = pair[2]
    /\ storagePhase = "none" /\ env = Unset /\ agentCfg = Unset /\ agentExit = FALSE
    /\ handled = {}

-----------------------------------------------------------------------------
(***************************************************************************)
(* The spoke. A field of the storage's section is blank, or it has text.   *)
(***************************************************************************)
PluginSymbol(symbol) == IF symbol = Unset THEN "NewWriterFactory" ELSE symbol[1]

\* loadPluginBuilder, for the shared object (external) at the path: it opens, exports the
\* symbol, and the symbol has the type of a builder.
PluginLoads(file, symbol) ==
    /\ file.opens
    /\ PluginSymbol(symbol) \in file.exports
    /\ PluginSymbol(symbol) \in file.builders

\* NewPluginWriterFactory: the builder is called, and may fail or return no factory.
PluginBuilds(file, symbol, config) ==
    PluginLoads(file, symbol) /\ <<PluginSymbol(symbol), config>> \in file.builds

\* Which fields a section must have; efs and ebs also need the identifier of the volume.
Required(type) == CASE type = "S3" -> {"bucket", "region"} [] type = "GCS" -> {"bucket"}
                    [] type \in {"EFS", "EBS"} -> {"id", "mountPath"} [] type = "Plugin" -> {"path"}

\* The config of a plugin must be an object; its builder is loaded and not called.
validateCaptureStorageSpec(s) ==
    /\ Required(s.type) \subseteq s.fields
    /\ s.type = "Plugin" => s.config # <<"list">> /\ PluginLoads(s.spokeFile, s.symbol)

ReconcileStorageSpec ==
    /\ storagePhase = "none"
    /\ storagePhase' = IF validateCaptureStorageSpec(storageSpec) THEN "Ready" ELSE "Error"
    /\ UNCHANGED <<tcSpec, storageSpec, env, agentCfg, agentExit, handled>>

\* The mount path is all that the agent is told of a filesystem.
buildEnvVars(spec, s) ==
    [storageType |-> s.type, fields |-> s.fields, symbol |-> s.symbol, config |-> s.config,
     redact |-> IF spec.disableRedaction THEN <<NoRedaction>>
                ELSE IF spec.redactHeaders # {} THEN <<spec.redactHeaders>> ELSE Unset,
     pathPrefix |-> spec.pathPrefix,
     headers |-> spec.headers,
     percentage |-> spec.percentage,
     maxBodyBytes |-> spec.maxBodyBytes]

\* The TrafficCapture reconciler deploys agents for a storage that is Ready.
DeployAgent ==
    /\ storagePhase = "Ready" /\ env = Unset
    /\ env' = <<buildEnvVars(tcSpec, storageSpec)>>
    /\ UNCHANGED <<tcSpec, storageSpec, storagePhase, agentCfg, agentExit, handled>>

-----------------------------------------------------------------------------
(***************************************************************************)
(* The agent's main.                                                       *)
(***************************************************************************)
\* "none" disables redaction; otherwise the default headers and those listed, by
\* canonical name.
parseRedactHeaders(redact) ==
    CASE redact = Unset -> DefaultRedact [] redact = <<NoRedaction>> -> {}
      [] OTHER -> DefaultRedact \cup {h.key : h \in redact[1]}

\* parseStorageConfig and NewWriterFactory, with the shared object in the agent's own
\* filesystem: what a factory insists on.  The symbol and the config of a plugin are in the
\* environment, but the agent does not read them.
NewWriterFactory(e, file) ==
    CASE e.storageType \in {"S3", "GCS"} -> "bucket" \in e.fields
      [] e.storageType \in {"EFS", "EBS"} -> "mountPath" \in e.fields
      [] e.storageType = "Plugin" -> "path" \in e.fields /\ PluginBuilds(file, Unset, Unset)

envIntOr(value) == IF value = Unset THEN 100 ELSE value[1]

\* main: exits when no factory can be made; else the handler's configuration. The
\* variables for headers, bodies and the size limit are not read.
StartAgent ==
    /\ env # Unset /\ agentCfg = Unset /\ ~agentExit
    /\ IF NewWriterFactory(env[1], storageSpec.agentFile)
       THEN /\ agentCfg' = <<[prefix |-> env[1].pathPrefix, headers |-> env[1].headers,
                              percentage |-> envIntOr(env[1].percentage),
                              redact |-> parseRedactHeaders(env[1].redact),
                              maxBody |-> DefaultMaxBody]>>
            /\ agentExit' = FALSE
       ELSE agentExit' = TRUE /\ agentCfg' = Unset
    /\ UNCHANGED <<tcSpec, storageSpec, storagePhase, env, handled>>

-----------------------------------------------------------------------------
(***************************************************************************)
(* The handler.                                                            *)
(***************************************************************************)
headerMatches(headers, hf) == \E h \in headers : h.key = hf.key /\ h.value = hf.value

Matches(c, r, sample) ==
    /\ c.prefix # Unset => r.path \in c.prefix[1]
    /\ \A hf \in c.headers : headerMatches(r.headers, hf)
    /\ c.percentage >= 100 \/ (c.percentage > 0 /\ sample < c.percentage)

Redact(c, headers) ==
    {IF h.key \in c.redact THEN [h EXCEPT !.value = "[REDACTED]"] ELSE h : h \in headers}

HandleRedactFirst(r) ==         \* mutant: the filter sees the redacted headers
    /\ agentCfg # Unset /\ \A h \in handled : h.request # r
    /\ \E sample \in Samples :
          LET c == agentCfg[1]
              kept == Matches(c, [r EXCEPT !.headers = Redact(c, r.headers)], sample)
          IN  handled' = handled \cup {[request |-> r, sample |-> sample, kept |-> kept,
                            headers |-> IF kept THEN Redact(c, r.headers) ELSE {},
                            size |-> IF r.size > c.maxBody THEN c.maxBody ELSE r.size]}
    /\ UNCHANGED <<tcSpec, storageSpec, storagePhase, env, agentCfg, agentExit>>

\* Handle: filter on the headers as they came, then cut the body and redact.
HandleCaptured(r) ==
    /\ agentCfg # Unset /\ \A h \in handled : h.request # r
    /\ \E sample \in Samples :
          LET c == agentCfg[1]
              kept == Matches(c, r, sample)
          IN  handled' = handled \cup {[request |-> r, sample |-> sample, kept |-> kept,
                            headers |-> IF kept THEN Redact(c, r.headers) ELSE {},
                            size |-> IF r.size > c.maxBody THEN c.maxBody ELSE r.size]}
    /\ UNCHANGED <<tcSpec, storageSpec, storagePhase, env, agentCfg, agentExit>>

CaptureSettingsNext ==
    \/ ReconcileStorageSpec \/ DeployAgent \/ StartAgent
    \/ \E r \in AgentRequests : HandleCaptured(r)

-----------------------------------------------------------------------------
(***************************************************************************)
(* Properties.                                                             *)
(***************************************************************************)
\* The type invariant: a stage follows the one before it.
CaptureSettingsTypeOK ==
    /\ storagePhase \in {"none", "Ready", "Error"}
    /\ env # Unset => storagePhase = "Ready"
    /\ agentCfg # Unset => env # Unset /\ agentCfg[1].percentage \in 0 .. 100
    /\ Cardinality(handled) <= Cardinality(AgentRequests)

\* Unless the user disabled redaction, no stored request holds the value of a credential
\* header or of a header the user listed, however it is spelled in the request, in the
\* list, and whatever the filters are ("Credential headers must never become durable
\* capture data").  A list of just the header "none" is excepted: the agent takes it for
\* the word that disables redaction, although the API promises the listed headers on top
\* of the default ones.
CredentialsRedacted ==
    \A h \in handled :
        h.kept /\ ~tcSpec.disableRedaction /\ tcSpec.redactHeaders # NoRedaction =>
            \A x \in h.headers : x.key \in DefaultRedact \cup {l.key : l \in tcSpec.redactHeaders}
                                    => x.value = "[REDACTED]"

\* A request is stored exactly when it meets the filters the user wrote: the path, every
\* header with its original value, and the share, where nothing means everything and zero
\* means nothing.
StoredIffMatches ==
    \A h \in handled :
        h.kept = (/\ tcSpec.pathPrefix # Unset => h.request.path \in tcSpec.pathPrefix[1]
                  /\ \A f \in tcSpec.headers :
                        \E x \in h.request.headers : x.key = f.key /\ x.value = f.value
                  /\ tcSpec.percentage # Unset => h.sample < tcSpec.percentage[1])

\* A storage that the spoke calls Ready lets the agents start.  Of a plugin the spoke's
\* verdict says less: an agent of a Ready plugin fails when the plugin has a symbol or a
\* config of its own, which the agent ignores, when the file in the agent's image is not
\* the spoke's, or when its builder, which the spoke does not call, makes no factory.
ReadyStorageStarts ==
    agentExit =>
        /\ storageSpec.type = "Plugin"
        /\ \/ storageSpec.symbol # Unset \/ storageSpec.config # Unset
           \/ storageSpec.agentFile # storageSpec.spokeFile
           \/ ~PluginBuilds(storageSpec.spokeFile, Unset, Unset)

\* What the user wrote in the TrafficCapture and its storage is what the agent does, after
\* the way through Deployment, environment and flags: which requests are stored, which
\* headers are not, and that the agent starts at all.
SettingsHonoured == CredentialsRedacted /\ StoredIffMatches /\ ReadyStorageStarts
=============================================================================
