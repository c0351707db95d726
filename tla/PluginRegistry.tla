----------------------------- MODULE PluginRegistry -----------------------------
(***************************************************************************)
(* The plugin registries (payload.Registry in internal/plugin/payload,     *)
(* replay.Registry in internal/plugin/replay) and the validation.Registry  *)
(* they embed. A builder map and a constraint map have a mutex each, so    *)
(* registering a plugin with its constraints is two critical sections and, *)
(* when the second fails, a third that takes the first one back. Several   *)
(* goroutines may register at once, and Validation is an exported field on *)
(* which anyone may register constraints alone.                            *)
(*                                                                         *)
(* The builder map stands for payload.Registry.builders and for each of    *)
(* the four maps of replay.Registry, of which only transformers have       *)
(* constraints. ValidatePipeline holds the read lock throughout: it is an  *)
(* operator on the state.                                                  *)
(***************************************************************************)
EXTENDS Naturals, FiniteSets, Sequences, Functions

CONSTANTS
    PluginNames,    \* names that callers register and pipelines refer to; 0 is the empty one
    Declared,       \* the Constraints that plugins come with
    Configs,        \* plugin configurations
    Registrants,    \* goroutines, each of which registers once
    MaxPipeline     \* bound on the length of a pipeline

ASSUME PluginsAssumption ==
    /\ 0 \in PluginNames
    /\ Declared # {}
    /\ \A c \in Declared : \A x \in c.resources : x.access \in {"shared", "exclusive"}

VARIABLES
    builders,       \* name -> <<who registered the builder>>, or <<>>
    constraints,    \* name -> <<[by, c]>>, or <<>>
    registrant      \* what each goroutine is doing

pluginVars == <<builders, constraints, registrant>>

\* A PluginRef has a name and a configuration.
Pipelines == UNION {[1 .. n -> [name : PluginNames \ {0}, config : Configs]] : n \in 0 .. MaxPipeline}

PluginsInit ==
    /\ builders = [n \in PluginNames |-> <<>>]
    /\ constraints = [n \in PluginNames |-> <<>>]
    /\ registrant = [t \in Registrants |->
          [pc |-> "idle", kind |-> "none", name |-> 0, c |-> CHOOSE c \in Declared : TRUE]]

-----------------------------------------------------------------------------
(***************************************************************************)
(* Registration.                                                           *)
(***************************************************************************)
\* Register, or the first half of RegisterWithConstraints.
Register(t, kind, n, c) ==
    /\ registrant[t].pc = "idle" /\ kind \in {"builder", "both"}
    /\ LET free == builders[n] = <<>>
       IN  /\ builders' = IF free THEN [builders EXCEPT ![n] = <<t>>] ELSE builders
           /\ registrant' = [registrant EXCEPT ![t] =
                 [pc |-> IF ~free THEN "error" ELSE IF kind = "builder" THEN "ok" ELSE "bound",
                  kind |-> kind, name |-> n, c |-> c]]
    /\ UNCHANGED constraints

\* Registry.Register of the validation package: the empty name and a known one are refused.
RegisterConstraints(t, call, failed) ==
    LET free == call.name # 0 /\ constraints[call.name] = <<>>
    IN  /\ constraints' = IF free THEN [constraints EXCEPT ![call.name] = <<[by |-> t, c |-> call.c]>>]
                                  ELSE constraints
        /\ registrant' = [registrant EXCEPT ![t] = [call EXCEPT !.pc = IF free THEN "ok" ELSE failed]]
        /\ UNCHANGED builders

ConstrainForget(t) ==           \* mutant: the failing half is reported, its first half stays
    /\ registrant[t].pc = "bound"
    /\ RegisterConstraints(t, registrant[t], "error")

\* The second half of RegisterWithConstraints.
Constrain(t) ==
    /\ registrant[t].pc = "bound"
    /\ RegisterConstraints(t, registrant[t], "undo")

\* "Roll back the builder registration on constraint failure."
RollBack(t) ==
    /\ registrant[t].pc = "undo"
    /\ builders' = [builders EXCEPT ![registrant[t].name] = <<>>]
    /\ registrant' = [registrant EXCEPT ![t].pc = "error"]
    /\ UNCHANGED constraints

\* Constraints registered on the exported Validation field, without a builder.
ConstrainOnly(t, n, c) ==
    /\ registrant[t].pc = "idle"
    /\ RegisterConstraints(t, [pc |-> "idle", kind |-> "constraints", name |-> n, c |-> c], "error")

PluginsNext ==
    \E t \in Registrants :
        \/ \E kind \in {"builder", "both"}, n \in PluginNames, c \in Declared : Register(t, kind, n, c)
        \/ \E n \in PluginNames, c \in Declared : ConstrainOnly(t, n, c)
        \/ Constrain(t)
        \/ RollBack(t)

-----------------------------------------------------------------------------
(***************************************************************************)
(* ValidatePipeline: the five phases. An error names its category and the  *)
(* plugins involved; errors between two plugins are reported once a pair.  *)
(***************************************************************************)
Known(n) == constraints[n] # <<>>
Of(n) == constraints[n][1].c
NamesIn(p) == {p[i].name : i \in DOMAIN p}

checkUnknown(p) == {<<"unknown", {n}>> : n \in {m \in NamesIn(p) : ~Known(m)}}

checkConfigs(p) ==
    {<<"config", {p[i].name}>> :
        i \in {j \in DOMAIN p : Known(p[j].name) /\ p[j].config \notin Of(p[j].name).accepts}}

checkConflictsLater(p) ==       \* mutant: only plugins further down the pipeline conflict
    UNION {{<<"conflict", {p[i].name, m}>> :
               m \in {p[j].name : j \in {k \in DOMAIN p : k > i}} \cap Of(p[i].name).conflicts} :
              i \in {j \in DOMAIN p : Known(p[j].name)}}

checkConflicts(p) ==
    UNION {{<<"conflict", {n, m}>> : m \in Of(n).conflicts \cap NamesIn(p)} :
              n \in {m \in NamesIn(p) : Known(m)}}

checkOrdering(p) ==
    UNION {{<<"order", {p[i].name, p[j].name}>> :
               j \in {k \in DOMAIN p : \/ p[k].name \in Of(p[i].name).before /\ i >= k
                                       \/ p[k].name \in Of(p[i].name).after /\ i <= k}} :
              i \in {j \in DOMAIN p : Known(p[j].name)}}

\* An exclusive claim of one plugin meets any claim of another plugin on the resource.
Contend(a, b) ==
    \E x \in Of(a).resources, y \in Of(b).resources : x.access = "exclusive" /\ x.name = y.name

checkResources(p) ==
    UNION {{<<"resource", {a, b}>> : b \in {m \in NamesIn(p) \ {a} : Known(m) /\ Contend(a, m)}} :
              a \in {m \in NamesIn(p) : Known(m)}}

ValidatePipeline(p) ==
    checkUnknown(p) \cup checkConfigs(p) \cup checkConflicts(p) \cup checkOrdering(p)
        \cup checkResources(p)

\* Build finds a builder.
Builds(n) == builders[n] # <<>>

-----------------------------------------------------------------------------
(***************************************************************************)
(* Properties.                                                             *)
(***************************************************************************)
\* The type invariant of the registries; the empty name never has constraints.
PluginsTypeOK ==
    /\ \A n \in PluginNames : Len(builders[n]) <= 1 /\ Len(constraints[n]) <= 1
    /\ constraints[0] = <<>>
    /\ \A t \in Registrants : registrant[t].pc \in {"idle", "bound", "undo", "ok", "error"}

\* A registration happens completely or not at all, whatever other goroutines register
\* meanwhile: a call that returned nil has its builder and its constraints in place for
\* good, one that returned an error has left neither (RegisterWithConstraints' rollback).
RegistrationAtomic ==
    \A t \in Registrants :
        LET call == registrant[t]
            bound == builders[call.name] = <<t>>
            constrained == constraints[call.name] # <<>> /\ constraints[call.name][1].by = t
        IN  /\ call.pc = "ok" => /\ bound = (call.kind # "constraints")
                                 /\ constrained = (call.kind # "builder")
            /\ call.pc = "error" => ~bound /\ ~constrained

\* A pipeline that validates can be built, also while registrations are under way: names
\* whose constraints came with a builder have that builder.
ValidMeansBuildable ==
    \A n \in PluginNames :
        constraints[n] # <<>> /\ registrant[constraints[n][1].by].kind = "both" => Builds(n)

\* Registrations that race leave the two maps consistent: none is half done, and what has
\* constraints by RegisterWithConstraints has a builder.
RegistrationSound == RegistrationAtomic /\ ValidMeansBuildable

\* A pipeline without errors is one in which no two positions clash, looked at in either
\* order: the rules that a Constraints value states, whichever side registered them. (As
\* long as nothing is registered only the empty pipeline is without errors.)
ValidMeansSound ==
    (\E n \in PluginNames : Known(n)) =>
    \A p \in Pipelines : ValidatePipeline(p) = {} =>
        /\ \A i \in DOMAIN p : Known(p[i].name) /\ p[i].config \in Of(p[i].name).accepts
        /\ \A i, j \in DOMAIN p :
              LET a == Of(p[i].name)
                  b == Of(p[j].name)
              IN  /\ p[j].name \notin a.conflicts /\ p[i].name \notin b.conflicts
                  /\ p[j].name \in a.before \/ p[i].name \in b.after => i < j
                  /\ p[i].name # p[j].name =>
                        \A x \in a.resources, y \in b.resources :
                            x.name = y.name => x.access = "shared" /\ y.access = "shared"
=============================================================================
