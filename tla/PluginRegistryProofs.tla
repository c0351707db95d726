-------------------------- MODULE PluginRegistryProofs --------------------------
(***************************************************************************)
(* The registries of plugins, for any goroutines that register any names   *)
(* with any constraints, and validation for pipelines of any length.       *)
(***************************************************************************)
EXTENDS PluginRegistry, TLAPS

PluginsSpec == PluginsInit /\ [][PluginsNext]_pluginVars

(***************************************************************************)
(* Who registered what can be read off the two maps: a builder belongs to  *)
(* the call that has put it there and not taken it back, constraints to    *)
(* the call that has succeeded with them.                                  *)
(***************************************************************************)
Entries == [by : Registrants, c : Declared]
Calls == [pc : {"idle", "bound", "undo", "ok", "error"},
          kind : {"none", "builder", "both", "constraints"},
          name : PluginNames, c : Declared]

RegistryType ==
    /\ builders \in [PluginNames -> Seq(Registrants)]
    /\ constraints \in [PluginNames -> Seq(Entries)]
    /\ registrant \in [Registrants -> Calls]

HasBuilder(call, n) ==
    call.name = n /\ call.kind \in {"builder", "both"} /\ call.pc \in {"bound", "undo", "ok"}
HasConstraints(call, n) ==
    call.name = n /\ call.kind \in {"both", "constraints"} /\ call.pc = "ok"
Staged(call) ==
    /\ call.pc \in {"bound", "undo"} => call.kind = "both"
    /\ call.pc # "idle" => call.kind # "none"

ConstrainedBy(t, n) == constraints[n] # <<>> /\ constraints[n][1].by = t

BuildersRight ==
    \A t \in Registrants, n \in PluginNames : builders[n] = <<t>> <=> HasBuilder(registrant[t], n)
ConstraintsRight ==
    \A t \in Registrants, n \in PluginNames : ConstrainedBy(t, n) <=> HasConstraints(registrant[t], n)
RegistryInv ==
    RegistryType /\ BuildersRight /\ ConstraintsRight /\ \A t \in Registrants : Staged(registrant[t])

-----------------------------------------------------------------------------
(***************************************************************************)
(* A step of one goroutine: the maps change at one name at most, and what  *)
(* they say of the goroutine agrees with its call.                         *)
(***************************************************************************)
LEMMA OneCall ==
  ASSUME RegistryInv, NEW t \in Registrants, NEW r \in Calls,
         registrant' = [registrant EXCEPT ![t] = r], Staged(r),
         builders' \in [PluginNames -> Seq(Registrants)],
         constraints' \in [PluginNames -> Seq(Entries)],
         \A n \in PluginNames : builders'[n] = <<t>> <=> HasBuilder(r, n),
         \A u \in Registrants, n \in PluginNames : u # t => (builders'[n] = <<u>> <=> builders[n] = <<u>>),
         \A n \in PluginNames : ConstrainedBy(t, n)' <=> HasConstraints(r, n),
         \A u \in Registrants, n \in PluginNames : u # t => (ConstrainedBy(u, n)' <=> ConstrainedBy(u, n))
  PROVE  RegistryInv'
<1>1. /\ registrant'[t] = r
      /\ \A u \in Registrants : u # t => registrant'[u] = registrant[u]
      /\ registrant' \in [Registrants -> Calls]
  BY Zenon DEF RegistryInv, RegistryType
<1>2. RegistryType'
  BY <1>1, Zenon DEF RegistryType
<1>3. BuildersRight'
  <2> SUFFICES ASSUME NEW u \in Registrants, NEW n \in PluginNames
               PROVE  builders'[n] = <<u>> <=> HasBuilder(registrant'[u], n)
    BY Zenon DEF BuildersRight
  <2>1. CASE u = t
    BY <1>1, <2>1, Zenon
  <2>2. CASE u # t
    <3>1. builders[n] = <<u>> <=> HasBuilder(registrant[u], n)
      BY Zenon DEF RegistryInv, BuildersRight
    <3> QED
      BY <1>1, <2>2, <3>1, Zenon
  <2> QED
    BY <2>1, <2>2, Zenon
<1>4. ConstraintsRight'
  BY <1>1, Zenon DEF RegistryInv, ConstraintsRight
<1>5. \A u \in Registrants : Staged(registrant'[u])
  BY <1>1, Zenon DEF RegistryInv
<1> QED
  BY <1>2, <1>3, <1>4, <1>5, Zenon DEF RegistryInv

\* The first half: an idle call takes a free name or fails.
LEMMA RegisterKeeps ==
  ASSUME RegistryInv, NEW t \in Registrants, NEW kind \in {"builder", "both"},
         NEW n \in PluginNames, NEW c \in Declared, Register(t, kind, n, c)
  PROVE  RegistryInv'
<1> DEFINE r == [pc |-> IF builders[n] # <<>> THEN "error" ELSE IF kind = "builder" THEN "ok" ELSE "bound",
                 kind |-> kind, name |-> n, c |-> c]
<1>1. registrant[t].pc = "idle" /\ registrant' = [registrant EXCEPT ![t] = r] /\ constraints' = constraints
  BY Zenon DEF Register
<1>2. builders' = IF builders[n] = <<>> THEN [builders EXCEPT ![n] = <<t>>] ELSE builders
  BY Zenon DEF Register
<1>3. /\ r \in Calls /\ r.name = n /\ r.kind = kind
      /\ builders[n] # <<>> => r.pc = "error"
      /\ builders[n] = <<>> => r.pc = IF kind = "builder" THEN "ok" ELSE "bound"
  BY Zenon DEF Calls
<1> HIDE DEF r
<1>4. builders \in [PluginNames -> Seq(Registrants)] /\ <<t>> \in Seq(Registrants)
  BY DEF RegistryInv, RegistryType
<1>5. builders' \in [PluginNames -> Seq(Registrants)] /\ constraints' \in [PluginNames -> Seq(Entries)]
  BY <1>1, <1>2, <1>4, Zenon DEF RegistryInv, RegistryType
<1>6. \A m \in PluginNames : builders[m] # <<t>> /\ ~ConstrainedBy(t, m)
  BY <1>1, Zenon DEF RegistryInv, BuildersRight, ConstraintsRight, HasBuilder, HasConstraints
<1>7. Staged(r)
  BY <1>3, Zenon DEF Staged
<1>8. \A u \in Registrants, m \in PluginNames : ConstrainedBy(u, m)' <=> ConstrainedBy(u, m)
  BY <1>1, Zenon DEF ConstrainedBy
<1>9. \A m \in PluginNames : ~HasConstraints(r, m)
  BY <1>3, Zenon DEF HasConstraints
<1>10. \A m \in PluginNames : builders'[m] = <<t>> <=> HasBuilder(r, m)
  BY <1>2, <1>3, <1>4, <1>6, Zenon DEF HasBuilder
<1>11. \A u \in Registrants, m \in PluginNames : u # t => (builders'[m] = <<u>> <=> builders[m] = <<u>>)
  BY <1>2, <1>4
<1> QED
  BY <1>1, <1>3, <1>5, <1>6, <1>7, <1>8, <1>9, <1>10, <1>11, OneCall, Zenon

\* Constraints are stored under a free, non-empty name, or refused.
LEMMA RegisterConstraintsKeeps ==
  ASSUME RegistryInv, NEW t \in Registrants, NEW call \in Calls, NEW failed \in {"undo", "error"},
         RegisterConstraints(t, call, failed),
         \A m \in PluginNames : ~ConstrainedBy(t, m),
         \A m \in PluginNames : builders[m] = <<t>> <=> (call.kind = "both" /\ call.name = m),
         \/ call.kind = "both" /\ failed = "undo"
         \/ call.kind = "constraints" /\ failed = "error"
  PROVE  RegistryInv'
<1> DEFINE n == call.name
           free == n # 0 /\ constraints[n] = <<>>
           r == [call EXCEPT !.pc = IF free THEN "ok" ELSE failed]
           e == [by |-> t, c |-> call.c]
<1>1. registrant' = [registrant EXCEPT ![t] = r] /\ builders' = builders
  BY Zenon DEF RegisterConstraints
<1>2. constraints' = IF free THEN [constraints EXCEPT ![n] = <<e>>] ELSE constraints
  BY Zenon DEF RegisterConstraints
<1>3. n \in PluginNames /\ call.c \in Declared
  BY Zenon DEF Calls
<1>4. r \in Calls /\ r.name = n /\ r.kind = call.kind /\ r.pc = IF free THEN "ok" ELSE failed
  BY Zenon DEF Calls
<1>5. e \in Entries /\ e.by = t /\ <<e>> \in Seq(Entries) /\ <<e>> # <<>> /\ <<e>>[1] = e
  BY <1>3 DEF Entries
<1> HIDE DEF r, e
<1>6. constraints \in [PluginNames -> Seq(Entries)] /\ builders' \in [PluginNames -> Seq(Registrants)]
  BY <1>1, Zenon DEF RegistryInv, RegistryType
<1>7. constraints' \in [PluginNames -> Seq(Entries)]
  BY <1>2, <1>3, <1>5, <1>6, Zenon
<1>8. Staged(r)
  BY <1>4, Zenon DEF Staged
<1>9. \A m \in PluginNames : builders'[m] = <<t>> <=> HasBuilder(r, m)
  BY <1>1, <1>4, Zenon DEF HasBuilder
<1>10. \A m \in PluginNames : ConstrainedBy(t, m)' <=> HasConstraints(r, m)
  BY <1>2, <1>3, <1>4, <1>5, <1>6, Zenon DEF HasConstraints, ConstrainedBy
<1>11. \A u \in Registrants, m \in PluginNames : u # t => (ConstrainedBy(u, m)' <=> ConstrainedBy(u, m))
  BY <1>2, <1>3, <1>5, <1>6, Zenon DEF ConstrainedBy
<1> QED
  BY <1>1, <1>4, <1>6, <1>7, <1>8, <1>9, <1>10, <1>11, OneCall, Zenon

\* The second half, and constraints registered alone.
LEMMA ConstrainKeeps ==
  ASSUME RegistryInv, NEW t \in Registrants, Constrain(t)
  PROVE  RegistryInv'
<1> DEFINE call == registrant[t]
<1>1. call \in Calls /\ call.pc = "bound" /\ call.kind = "both"
  BY Zenon DEF RegistryInv, RegistryType, Constrain, Staged
<1>2. \A m \in PluginNames : builders[m] = <<t>> <=> call.name = m
  BY <1>1, Zenon DEF RegistryInv, BuildersRight, HasBuilder
<1>3. \A m \in PluginNames : ~ConstrainedBy(t, m)
  BY <1>1, Zenon DEF RegistryInv, ConstraintsRight, HasConstraints
<1>4. RegisterConstraints(t, call, "undo")
  BY Zenon DEF Constrain
<1> HIDE DEF call
<1> QED
  BY <1>1, <1>2, <1>3, <1>4, RegisterConstraintsKeeps, Zenon

LEMMA ConstrainOnlyKeeps ==
  ASSUME RegistryInv, NEW t \in Registrants, NEW n \in PluginNames, NEW c \in Declared,
         ConstrainOnly(t, n, c)
  PROVE  RegistryInv'
<1> DEFINE call == [pc |-> "idle", kind |-> "constraints", name |-> n, c |-> c]
<1>1. call \in Calls /\ call.kind = "constraints"
  BY Zenon DEF Calls
<1>2. registrant[t].pc = "idle" /\ RegisterConstraints(t, call, "error")
  BY Zenon DEF ConstrainOnly
<1>3. \A m \in PluginNames : builders[m] # <<t>> /\ ~ConstrainedBy(t, m)
  BY <1>2, Zenon DEF RegistryInv, BuildersRight, ConstraintsRight, HasBuilder, HasConstraints
<1>4. call.kind # "both"
  BY <1>1, Zenon
<1> HIDE DEF call
<1> QED
  BY <1>1, <1>2, <1>3, <1>4, RegisterConstraintsKeeps, Zenon

\* The builder that is taken back is the caller's own: no other call can have replaced it.
LEMMA RollBackKeeps ==
  ASSUME RegistryInv, NEW t \in Registrants, RollBack(t)
  PROVE  RegistryInv'
<1> DEFINE n == registrant[t].name
           r == [registrant[t] EXCEPT !.pc = "error"]
<1>1. registrant[t] \in Calls /\ registrant[t].pc = "undo" /\ registrant[t].kind = "both"
  BY Zenon DEF RegistryInv, RegistryType, RollBack, Staged
<1>2. n \in PluginNames /\ r \in Calls /\ r.pc = "error" /\ r.kind = "both"
  BY <1>1, Zenon DEF Calls
<1>3. registrant' = [registrant EXCEPT ![t] = r] /\ builders' = [builders EXCEPT ![n] = <<>>]
      /\ constraints' = constraints
  BY Zenon DEF RollBack
<1>4. \A m \in PluginNames : (builders[m] = <<t>> <=> m = n) /\ ~ConstrainedBy(t, m)
  BY <1>1, Zenon DEF RegistryInv, BuildersRight, ConstraintsRight, HasBuilder, HasConstraints
<1> HIDE DEF r, n
<1>5. builders \in [PluginNames -> Seq(Registrants)] /\ <<>> \in Seq(Registrants)
  BY DEF RegistryInv, RegistryType
<1>6. builders' \in [PluginNames -> Seq(Registrants)] /\ constraints' \in [PluginNames -> Seq(Entries)]
  BY <1>3, <1>5, Zenon DEF RegistryInv, RegistryType
<1>7. Staged(r) /\ \A m \in PluginNames : ~HasBuilder(r, m) /\ ~HasConstraints(r, m)
  BY <1>2, Zenon DEF Staged, HasBuilder, HasConstraints
<1>8. \A m \in PluginNames : builders'[m] # <<t>>
  BY <1>2, <1>3, <1>4, <1>5, Zenon
<1>9. builders[n] = <<t>>
  BY <1>2, <1>4, Zenon
<1>10. \A u \in Registrants, m \in PluginNames : u # t => (builders'[m] = <<u>> <=> builders[m] = <<u>>)
  BY <1>2, <1>3, <1>5, <1>9
<1>11. \A u \in Registrants, m \in PluginNames : ConstrainedBy(u, m)' <=> ConstrainedBy(u, m)
  BY <1>3, Zenon DEF ConstrainedBy
<1> QED
  BY <1>2, <1>3, <1>4, <1>6, <1>7, <1>8, <1>10, <1>11, OneCall, Zenon

-----------------------------------------------------------------------------
LEMMA RegistryInvariant ==
  PluginsSpec => []RegistryInv
<1>1. PluginsInit => RegistryInv
  <2> DEFINE first == [pc |-> "idle", kind |-> "none", name |-> 0, c |-> CHOOSE c \in Declared : TRUE]
  <2> SUFFICES ASSUME PluginsInit PROVE RegistryInv
    BY Zenon
  <2>1. (CHOOSE c \in Declared : TRUE) \in Declared
    BY PluginsAssumption, Zenon
  <2>2. first \in Calls /\ first.pc = "idle"
    BY <2>1, PluginsAssumption, Zenon DEF Calls
  <2>3. registrant = [t \in Registrants |-> first]
    BY Zenon DEF PluginsInit
  <2> HIDE DEF first
  <2>4. \A t \in Registrants : registrant[t] = first
    BY <2>3, Zenon
  <2>5. RegistryType
    <3>1. <<>> \in Seq(Registrants) /\ <<>> \in Seq(Entries)
      OBVIOUS
    <3> QED
      BY <2>2, <2>3, <3>1, Zenon DEF PluginsInit, RegistryType
  <2>6. BuildersRight
    BY <2>2, <2>4, Zenon DEF PluginsInit, BuildersRight, HasBuilder
  <2>7. ConstraintsRight
    BY <2>2, <2>4, Zenon DEF PluginsInit, ConstraintsRight, ConstrainedBy, HasConstraints
  <2> QED
    BY <2>2, <2>4, <2>5, <2>6, <2>7, Zenon DEF RegistryInv, Staged
<1>2. RegistryInv /\ [PluginsNext]_pluginVars => RegistryInv'
  <2> SUFFICES ASSUME RegistryInv, [PluginsNext]_pluginVars PROVE RegistryInv'
    BY Zenon
  <2>1. CASE UNCHANGED pluginVars
    <3>1. UNCHANGED <<builders, constraints, registrant>>
      BY <2>1, Zenon DEF pluginVars
    <3> QED
      BY <3>1, Zenon DEF RegistryInv, RegistryType, BuildersRight, ConstraintsRight, ConstrainedBy
  <2>2. CASE PluginsNext
    BY <2>2, RegisterKeeps, ConstrainKeeps, ConstrainOnlyKeeps, RollBackKeeps, Zenon DEF PluginsNext
  <2> QED
    BY <2>1, <2>2, Zenon
<1> QED
  BY <1>1, <1>2, PTL DEF PluginsSpec

(***************************************************************************)
(* RegisterWithConstraints is atomic in its effect although it is two or   *)
(* three critical sections, and a name whose constraints came with a       *)
(* builder can be built at every moment.                                   *)
(***************************************************************************)
THEOREM RegistrationIsAtomic ==
  PluginsSpec => []RegistrationSound
<1>1. RegistryInv => RegistrationAtomic
  <2> SUFFICES ASSUME RegistryInv, NEW t \in Registrants
               PROVE  /\ registrant[t].pc = "ok" =>
                            /\ (builders[registrant[t].name] = <<t>>) = (registrant[t].kind # "constraints")
                            /\ ConstrainedBy(t, registrant[t].name) = (registrant[t].kind # "builder")
                      /\ registrant[t].pc = "error" =>
                            ~(builders[registrant[t].name] = <<t>>) /\ ~ConstrainedBy(t, registrant[t].name)
    BY Zenon DEF RegistrationAtomic, ConstrainedBy
  <2> DEFINE call == registrant[t]
             bound == builders[call.name] = <<t>>
  <2>1. call \in Calls /\ Staged(call)
    BY Zenon DEF RegistryInv, RegistryType
  <2>2. call.name \in PluginNames /\ call.kind \in {"none", "builder", "both", "constraints"}
    BY <2>1, Zenon DEF Calls
  <2>3. (bound <=> HasBuilder(call, call.name)) /\ (ConstrainedBy(t, call.name) <=> HasConstraints(call, call.name))
    BY <2>2, Zenon DEF RegistryInv, BuildersRight, ConstraintsRight
  <2>4. ASSUME call.pc = "ok"
        PROVE  /\ bound <=> call.kind # "constraints"
               /\ ConstrainedBy(t, call.name) <=> call.kind # "builder"
    BY <2>1, <2>2, <2>3, <2>4, Zenon DEF HasBuilder, HasConstraints, Staged
  <2>5. ASSUME call.pc = "error"
        PROVE  ~bound /\ ~ConstrainedBy(t, call.name)
    BY <2>3, <2>5, Zenon DEF HasBuilder, HasConstraints
  <2>6. ConstrainedBy(t, call.name) \in BOOLEAN
    BY Zenon DEF ConstrainedBy
  <2> QED
    BY <2>4, <2>5, <2>6, Zenon
<1>2. RegistryInv => ValidMeansBuildable
  <2> SUFFICES ASSUME RegistryInv, NEW n \in PluginNames, constraints[n] # <<>>,
                      registrant[constraints[n][1].by].kind = "both"
               PROVE  builders[n] # <<>>
    BY Zenon DEF ValidMeansBuildable, Builds
  <2>1. PICK t \in Registrants : t = constraints[n][1].by
    <3>1. constraints[n] \in Seq(Entries)
      BY Zenon DEF RegistryInv, RegistryType
    <3>2. constraints[n][1] \in Entries
      BY <3>1
    <3> QED
      BY <3>2, Zenon DEF Entries
  <2>2. HasConstraints(registrant[t], n)
    BY <2>1, Zenon DEF RegistryInv, ConstraintsRight, ConstrainedBy
  <2>3. builders[n] = <<t>>
    BY <2>1, <2>2, Zenon DEF RegistryInv, BuildersRight, HasBuilder, HasConstraints
  <2> QED
    BY <2>3
<1> QED
  BY <1>1, <1>2, RegistryInvariant, PTL DEF RegistrationSound

(***************************************************************************)
(* ValidatePipeline misses nothing, for pipelines of any length over any   *)
(* constraints: if its five phases report no error, the rules hold between *)
(* every two positions, whichever of the two plugins states them.          *)
(***************************************************************************)
THEOREM ValidationIsSound == PluginsSpec => []ValidMeansSound
<1>1. RegistryInv => ValidMeansSound
  <2> SUFFICES ASSUME RegistryInv, NEW p \in Pipelines, ValidatePipeline(p) = {}
               PROVE  /\ \A i \in DOMAIN p : Known(p[i].name) /\ p[i].config \in Of(p[i].name).accepts
                      /\ \A i, j \in DOMAIN p :
                            /\ p[j].name \notin Of(p[i].name).conflicts
                            /\ p[i].name \notin Of(p[j].name).conflicts
                            /\ p[j].name \in Of(p[i].name).before \/ p[i].name \in Of(p[j].name).after => i < j
                            /\ p[i].name # p[j].name =>
                                  \A x \in Of(p[i].name).resources, y \in Of(p[j].name).resources :
                                      x.name = y.name => x.access = "shared" /\ y.access = "shared"
    BY DEF ValidMeansSound
  <2>0. PICK len \in 0 .. MaxPipeline : p \in [1 .. len -> [name : PluginNames \ {0}, config : Configs]]
    BY Zenon DEF Pipelines
  <2>1. /\ checkUnknown(p) = {} /\ checkConfigs(p) = {} /\ checkConflicts(p) = {}
        /\ checkOrdering(p) = {} /\ checkResources(p) = {}
    BY Zenon DEF ValidatePipeline
  <2>2. \A i \in DOMAIN p : p[i].name \in NamesIn(p)
    BY Zenon DEF NamesIn
  <2>3. \A n \in NamesIn(p) : Known(n)
    BY <2>1, Zenon DEF checkUnknown
  <2>4. \A i \in DOMAIN p : p[i].config \in Of(p[i].name).accepts
    BY <2>1, <2>2, <2>3, Zenon DEF checkConfigs
  <2>5. \A n, m \in NamesIn(p) : m \notin Of(n).conflicts
    <3> SUFFICES ASSUME NEW n \in NamesIn(p), NEW m \in NamesIn(p), m \in Of(n).conflicts
                 PROVE  FALSE
      BY Zenon
    <3> DEFINE found == {<<"conflict", {n, k}>> : k \in Of(n).conflicts \cap NamesIn(p)}
    <3>1. <<"conflict", {n, m}>> \in found
      BY Zenon
    <3>2. found \subseteq checkConflicts(p)
      BY <2>3, Zenon DEF checkConflicts
    <3> QED
      BY <2>1, <3>1, <3>2, Zenon
  <2>6. \A i, j \in DOMAIN p : /\ p[j].name \in Of(p[i].name).before => ~(i >= j)
                               /\ p[j].name \in Of(p[i].name).after => ~(i <= j)
    <3> SUFFICES ASSUME NEW i \in DOMAIN p, NEW j \in DOMAIN p,
                        \/ p[j].name \in Of(p[i].name).before /\ i >= j
                        \/ p[j].name \in Of(p[i].name).after /\ i <= j
                 PROVE  FALSE
      BY Zenon
    <3> DEFINE clash == {k \in DOMAIN p : \/ p[k].name \in Of(p[i].name).before /\ i >= k
                                          \/ p[k].name \in Of(p[i].name).after /\ i <= k}
               found == {<<"order", {p[i].name, p[k].name}>> : k \in clash}
    <3>1. j \in clash
      BY Zenon
    <3>2. <<"order", {p[i].name, p[j].name}>> \in found
      BY <3>1, Zenon
    <3>3. found \subseteq checkOrdering(p)
      BY <2>2, <2>3, Zenon DEF checkOrdering
    <3> QED
      BY <2>1, <3>2, <3>3, Zenon
  <2>7. \A i, j \in DOMAIN p : /\ p[j].name \in Of(p[i].name).before => i < j
                               /\ p[i].name \in Of(p[j].name).after => i < j
    <3>1. DOMAIN p \subseteq Nat
      BY <2>0
    <3> QED
      BY <2>6, <3>1
  <2>8. \A a, b \in NamesIn(p) : a # b =>
           \A x \in Of(a).resources, y \in Of(b).resources : x.name = y.name => x.access # "exclusive"
    <3> SUFFICES ASSUME NEW a \in NamesIn(p), NEW b \in NamesIn(p), a # b, Contend(a, b)
                 PROVE  FALSE
      BY Zenon DEF Contend
    <3> DEFINE found == {<<"resource", {a, c}>> : c \in {m \in NamesIn(p) \ {a} : Known(m) /\ Contend(a, m)}}
    <3>1. <<"resource", {a, b}>> \in found
      BY <2>3, Zenon
    <3>2. found \subseteq checkResources(p)
      BY <2>3, Zenon DEF checkResources
    <3> QED
      BY <2>1, <3>1, <3>2, Zenon
  <2>9. \A n \in NamesIn(p) : \A x \in Of(n).resources : x.access \in {"shared", "exclusive"}
    <3> SUFFICES ASSUME NEW n \in NamesIn(p)
                 PROVE  Of(n) \in Declared
      <4>1. \A c \in Declared : \A x \in c.resources : x.access \in {"shared", "exclusive"}
        BY PluginsAssumption, Zenon
      <4> QED
        BY <4>1, Zenon
    <3>1. PICK i \in DOMAIN p : n = p[i].name
      BY Zenon DEF NamesIn
    <3>2. p[i] \in [name : PluginNames \ {0}, config : Configs]
      <4> DEFINE Refs == [name : PluginNames \ {0}, config : Configs]
      <4> HIDE DEF Refs
      <4>1. \A q \in [1 .. len -> Refs] : \A l \in DOMAIN q : q[l] \in Refs
        BY Zenon
      <4> QED
        BY <2>0, <4>1, Zenon DEF Refs
    <3>3. n \in PluginNames
      BY <3>1, <3>2, Zenon
    <3>4. constraints[n] \in Seq(Entries) /\ constraints[n] # <<>>
      BY <2>3, <3>3, Zenon DEF RegistryInv, RegistryType, Known
    <3>5. constraints[n][1] \in Entries
      BY <3>4
    <3> QED
      BY <3>5, Zenon DEF Entries, Of
  <2>10. \A a, b \in NamesIn(p) : a # b =>
           \A x \in Of(a).resources, y \in Of(b).resources :
              x.name = y.name => x.access = "shared" /\ y.access = "shared"
    <3> TAKE a, b \in NamesIn(p)
    <3> HAVE a # b
    <3> TAKE x \in Of(a).resources, y \in Of(b).resources
    <3> HAVE x.name = y.name
    <3>1. x.access # "exclusive" /\ y.access # "exclusive"
      BY <2>8, Zenon
    <3>2. x.access \in {"shared", "exclusive"} /\ y.access \in {"shared", "exclusive"}
      BY <2>9, Zenon
    <3> QED
      BY <3>1, <3>2, Zenon
  <2> QED
    BY <2>2, <2>3, <2>4, <2>5, <2>7, <2>10, Zenon
<1> QED
  BY <1>1, RegistryInvariant, PTL
=============================================================================
