------------------------------ MODULE HubListener ------------------------------
(***************************************************************************)
(* The CaptureHub controller (internal/hub/controller.go, tls.go): the one *)
(* gRPC server of the hub process follows the oldest CaptureHub.  A pass   *)
(* lists the CaptureHubs, starts, replaces or rotates the server, marks    *)
(* the other CaptureHubs and writes the status of the oldest.              *)
(*                                                                         *)
(* A new server is started by a goroutine that reads r.server when it gets *)
(* to run, without the lock: it may then start the next server, under the  *)
(* cancelled context of its own, or find none and panic.                   *)
(***************************************************************************)
EXTENDS Naturals, FiniteSets, Sequences

CONSTANTS
    HubNames,           \* names of CaptureHubs, ordered as numbers
    HubSpecs,           \* the specs: records [addr, tls, mtls]
    MaxHubEdits,        \* bound on edits of CaptureHubs and of the secret
    MaxHubFaults        \* bound on failing calls, on crashes and on ports in use

ASSUME ListenerAssumption ==
    HubNames \subseteq Nat /\ MaxHubEdits \in Nat /\ MaxHubFaults \in Nat

VARIABLES
    hubs,               \* [HubNames -> CaptureHub], none or one of each name
    condition,          \* each one's Active condition
    secret,             \* the TLS secret that all of them name
    listener,           \* r.server: none or one [inc, config, hash, cert, state]
    launches,           \* servers whose starting goroutine has not run yet
    incs,               \* servers made so far
    hubPass,            \* the pass in progress: none or one [hubs, pc, stale]
    clock, hubEdits, hubFaults

listenerVars == <<hubs, condition, secret, listener, launches, incs, hubPass,
                  clock, hubEdits, hubFaults>>

\* One CaptureHub exists, and a secret with a key pair and a CA.
ListenerInit ==
    /\ \E first \in HubNames, spec \in HubSpecs :
          hubs = [h \in HubNames |->
                     IF h = first THEN <<[born |-> 1, spec |-> spec]>> ELSE <<>>]
    /\ condition = [h \in HubNames |-> "none"]
    /\ secret = [content |-> "pair and ca", version |-> 1]
    /\ listener = <<>> /\ launches = {} /\ incs = 0
    /\ hubPass = <<>>
    /\ clock = 1 /\ hubEdits = 0 /\ hubFaults = 0

-----------------------------------------------------------------------------
NoData == [content |-> "none", version |-> 0]
Existing(hs) == {h \in HubNames : hs[h] # <<>>}

\* The oldest, of equally old ones the first by name.
authoritativeHub(hs) ==
    CHOOSE h \in Existing(hs) : \A g \in Existing(hs) :
        g # h => hs[h][1].born < hs[g][1].born \/ (hs[h][1].born = hs[g][1].born /\ h < g)

\* The listener configuration that ensureServer compares: address, secret, mTLS.
ConfigOf(h) == hubPass[1].hubs[h][1].spec

\* buildServerTLSConfig.
Buildable(data, spec) == data.content \in {"pair and ca"} \cup (IF spec.mtls THEN {} ELSE {"pair"})

\* hashTLSData: the content of the secret, nothing without TLS.
Hash(data, spec) == IF spec.tls THEN data.version ELSE 0

\* loadTLSSecret.
Missing(spec) == spec.tls /\ secret.content = "none"

-----------------------------------------------------------------------------
(***************************************************************************)
(* A pass.                                                                 *)
(***************************************************************************)
PassAt(pc) == hubPass # <<>> /\ hubPass[1].pc = pc
Listed == Existing(hubPass[1].hubs)
Followed == authoritativeHub(hubPass[1].hubs)
PassTo(pc) == hubPass' = <<[hubPass[1] EXCEPT !.pc = pc]>>

ListHubs ==
    /\ hubPass = <<>>
    /\ hubPass' = <<[hubs |-> hubs, pc |-> "ensure", stale |-> {}, data |-> NoData]>>
    /\ UNCHANGED <<hubs, condition, secret, listener, launches, incs, clock, hubEdits, hubFaults>>

\* stopServer, when no CaptureHub is left.
StopListener ==
    /\ PassAt("ensure") /\ Listed = {}
    /\ listener' = <<>>
    /\ hubPass' = <<>>
    /\ UNCHANGED <<hubs, condition, secret, launches, incs, clock, hubEdits, hubFaults>>

ensureServerRestarting ==       \* mutant: a changed secret replaces the server
    /\ PassAt("ensure") /\ Listed # {}
    /\ LET spec == ConfigOf(Followed)
           fits == listener # <<>> /\ listener[1].config = spec /\ listener[1].hash = Hash(secret, spec)
       IN  /\ hubPass' = IF Missing(spec) THEN <<>>
                         ELSE <<[hubPass[1] EXCEPT !.pc = IF fits THEN "mark" ELSE "create",
                                                   !.data = IF fits THEN @ ELSE secret]>>
           /\ listener' = IF fits \/ Missing(spec) THEN listener ELSE <<>>
    /\ UNCHANGED <<hubs, condition, secret, launches, incs, clock, hubEdits, hubFaults>>

\* The pass ends with an error when the secret is missing, or cannot replace the one in
\* use; the server then stays as it is.
ensureServer ==
    /\ PassAt("ensure") /\ Listed # {}
    /\ LET spec == ConfigOf(Followed) IN
       IF Missing(spec) THEN
          hubPass' = <<>> /\ UNCHANGED listener
       ELSE IF listener # <<>> /\ listener[1].config = spec THEN
          IF spec.tls /\ listener[1].hash # Hash(secret, spec) THEN
             IF Buildable(secret, spec)
             THEN /\ listener' = <<[listener[1] EXCEPT !.hash = Hash(secret, spec), !.cert = Hash(secret, spec)]>>
                  /\ PassTo("mark")
             ELSE hubPass' = <<>> /\ UNCHANGED listener
          ELSE PassTo("mark") /\ UNCHANGED listener
       ELSE /\ hubPass' = <<[hubPass[1] EXCEPT !.pc = "create", !.data = secret]>>
            /\ listener' = <<>>
    /\ UNCHANGED <<hubs, condition, secret, launches, incs, clock, hubEdits, hubFaults>>

\* The second half of ensureServer, with the content of the secret that it read.
CreateServer ==
    /\ PassAt("create")
    /\ LET spec == ConfigOf(Followed)
           hash == Hash(hubPass[1].data, spec)
       IN
       IF spec.tls /\ ~Buildable(hubPass[1].data, spec) THEN
          hubPass' = <<>> /\ UNCHANGED <<listener, launches, incs>>
       ELSE /\ incs' = incs + 1
            /\ listener' = <<[inc |-> incs + 1, config |-> spec, hash |-> hash,
                              cert |-> hash, state |-> "new"]>>
            /\ launches' = launches \cup {incs + 1}
            /\ hubPass' = <<[hubPass[1] EXCEPT !.pc = "mark", !.data = NoData]>>
    /\ UNCHANGED <<hubs, condition, secret, clock, hubEdits, hubFaults>>

\* A conflicting or failing write of another hub's status is only logged.
markNotAuthoritative ==
    /\ PassAt("mark")
    /\ \E failing \in {{}} \cup IF hubFaults < MaxHubFaults THEN {HubNames} ELSE {} :
          /\ hubFaults' = IF failing = {} THEN hubFaults ELSE hubFaults + 1
          /\ condition' = [h \in HubNames |->
                IF h \in Listed \ ({Followed} \cup hubPass[1].stale \cup failing)
                THEN "False" ELSE condition[h]]
    /\ PassTo("status")
    /\ UNCHANGED <<hubs, secret, listener, launches, incs, clock, hubEdits>>

updateHubStatus ==
    /\ PassAt("status")
    /\ condition' = IF Followed \in hubPass[1].stale THEN condition
                    ELSE [condition EXCEPT ![Followed] = "True"]
    /\ hubPass' = <<>>
    /\ UNCHANGED <<hubs, secret, listener, launches, incs, clock, hubEdits, hubFaults>>

HubPassFails ==
    /\ hubPass # <<>>
    /\ hubFaults < MaxHubFaults /\ hubFaults' = hubFaults + 1
    /\ hubPass' = <<>>
    /\ UNCHANGED <<hubs, condition, secret, listener, launches, incs, clock, hubEdits>>

-----------------------------------------------------------------------------
(***************************************************************************)
(* The goroutine of server n, and Server.Start.  It starts whatever server *)
(* r.server holds.  A server started under a cancelled context stops at    *)
(* once, and a stopped server cannot be started again; the port of one     *)
(* that serves is in use, and a listener that fails is only logged.        *)
(***************************************************************************)
Launch(n) ==
    /\ n \in launches
    /\ listener # <<>>
    /\ launches' = launches \ {n}
    /\ \/ /\ listener' = <<[listener[1] EXCEPT
                               !.state = IF @ # "new" THEN @
                                         ELSE IF listener[1].inc = n THEN "serving" ELSE "stopped"]>>
          /\ hubFaults' = hubFaults
       \/ /\ hubFaults < MaxHubFaults /\ hubFaults' = hubFaults + 1
          /\ listener' = listener
    /\ UNCHANGED <<hubs, condition, secret, incs, hubPass, clock, hubEdits>>

\* The hub process starts again, with nothing in memory.
Restarted ==
    /\ listener' = <<>> /\ launches' = {} /\ hubPass' = <<>>

LaunchPanics(n) ==
    /\ n \in launches
    /\ listener = <<>>
    /\ Restarted
    /\ UNCHANGED <<hubs, condition, secret, incs, clock, hubEdits, hubFaults>>

HubCrash ==
    /\ listener # <<>>
    /\ hubFaults < MaxHubFaults /\ hubFaults' = hubFaults + 1
    /\ Restarted
    /\ UNCHANGED <<hubs, condition, secret, incs, clock, hubEdits>>

-----------------------------------------------------------------------------
(***************************************************************************)
(* Users and time.  Creation timestamps count seconds.                     *)
(***************************************************************************)
Outdated(h) ==
    IF hubPass = <<>> THEN <<>> ELSE <<[hubPass[1] EXCEPT !.stale = @ \cup {h}]>>

EditHub(h) ==
    /\ hubEdits < MaxHubEdits /\ hubEdits' = hubEdits + 1
    /\ \E spec \in HubSpecs :
          hubs' = [hubs EXCEPT ![h] =
                      <<[born |-> IF @ = <<>> THEN clock ELSE @[1].born, spec |-> spec]>>]
    /\ hubs' # hubs
    /\ hubPass' = Outdated(h)
    /\ UNCHANGED <<condition, secret, listener, launches, incs, clock, hubFaults>>

DeleteHub(h) ==
    /\ hubEdits < MaxHubEdits /\ hubEdits' = hubEdits + 1
    /\ hubs[h] # <<>>
    /\ hubs' = [hubs EXCEPT ![h] = <<>>]
    /\ condition' = [condition EXCEPT ![h] = "none"]
    /\ hubPass' = Outdated(h)
    /\ UNCHANGED <<secret, listener, launches, incs, clock, hubFaults>>

EditSecret ==
    /\ hubEdits < MaxHubEdits /\ hubEdits' = hubEdits + 1
    /\ \E content \in {"none", "no pair", "pair", "pair and ca"} :
          secret' = [content |-> content, version |-> secret.version + 1]
    /\ UNCHANGED <<hubs, condition, listener, launches, incs, hubPass, clock, hubFaults>>

Tick ==
    /\ clock = 1 /\ clock' = 2
    /\ UNCHANGED <<hubs, condition, secret, listener, launches, incs, hubPass, hubEdits, hubFaults>>

HubPassStep == ListHubs \/ StopListener \/ ensureServer \/ CreateServer
               \/ markNotAuthoritative \/ updateHubStatus

ListenerNext ==
    \/ HubPassStep \/ HubPassFails \/ HubCrash \/ EditSecret \/ Tick
    \/ \E n \in launches : Launch(n) \/ LaunchPanics(n)
    \/ \E h \in HubNames : EditHub(h) \/ DeleteHub(h)

-----------------------------------------------------------------------------
(***************************************************************************)
(* Properties.                                                             *)
(***************************************************************************)
\* The type invariant of the CaptureHub controller.
ListenerTypeOK ==
    /\ \A h \in HubNames : hubs[h] # <<>> => hubs[h][1].spec \in HubSpecs
    /\ condition \in [HubNames -> {"none", "True", "False"}]
    /\ listener # <<>> =>
          /\ listener[1].inc \in 1 .. incs
          /\ listener[1].config \in HubSpecs
          /\ listener[1].state \in {"new", "serving", "stopped"}
    /\ launches \subseteq 1 .. incs
    /\ hubPass # <<>> => hubPass[1].stale \subseteq HubNames

\* A hub nobody is older than; equally old ones go by name.
Oldest(h, hs) ==
    /\ hs[h] # <<>>
    /\ \A g \in HubNames \ {h} : hs[g] # <<>> =>
          /\ hs[g][1].born >= hs[h][1].born
          /\ hs[g][1].born = hs[h][1].born => h < g

\* Spokes are disconnected only for a reason: a running server is stopped or replaced
\* only when the oldest CaptureHub asks for another address or TLS mode or is gone.  A
\* second CaptureHub, the deletion of one, or a new certificate leaves it running.
ServerKept ==
    [][(listener # <<>> /\ hubPass # <<>> /\ hubFaults' = hubFaults
        /\ (listener' = <<>> \/ listener'[1].inc # listener[1].inc)) =>
           \A h \in HubNames :
              Oldest(h, hubPass[1].hubs) => hubPass[1].hubs[h][1].spec # listener[1].config]_listenerVars

\* Once nobody edits any more, the server has the configuration of the oldest CaptureHub
\* and serves the current certificate if that is usable, the oldest CaptureHub is the
\* one marked Active, and without a CaptureHub there is no server.
ServerFollows ==
    <>[](/\ (Existing(hubs) = {}) => listener = <<>>
         /\ \A h \in HubNames :
              (Oldest(h, hubs) /\ (hubs[h][1].spec.tls => Buildable(secret, hubs[h][1].spec))) =>
                 /\ listener # <<>>
                 /\ listener[1].config = hubs[h][1].spec
                 /\ listener[1].cert = Hash(secret, hubs[h][1].spec)
                 /\ \A g \in HubNames : (condition[g] = "True") <=> (g = h))
=============================================================================
