-------------------------- MODULE LoadTestLifecycle --------------------------
(***************************************************************************)
(* What a CaptureLoadTest promises to whoever watches it: a run is planned *)
(* at most once, after that its assignment never changes; Completed,       *)
(* Failed and Aborted are final; Completed means that every assigned shard *)
(* ran, unless shards of an earlier test of the name ran; nothing is       *)
(* written to a test that is being deleted.  There are no channels, caches *)
(* or passes here; LoadTestRefinement shows that the system implements     *)
(* this.                                                                   *)
(***************************************************************************)
EXTENDS Naturals

CONSTANTS
    LoadTests,      \* the names of CaptureLoadTests
    Shards,         \* shard indexes
    Spokes,         \* spoke IDs
    RunNumbers,     \* the numbers the tests created under one name get, in order
    Absent,         \* no CaptureLoadTest of that name
    Denied          \* the tests whose target spec.safety denies

VARIABLES
    test,           \* what is stored under each name
    ran             \* the <<test, run, shard>> that ran to completion

lifeVars == <<test, ran>>

-----------------------------------------------------------------------------
Final == {"Completed", "Failed", "Aborted"}
Plans == UNION {[D -> Spokes] : D \in (SUBSET Shards) \ {{}}}
IsPlanned(k) == DOMAIN test[k].plan # {}

\* The test is there for the reconciler to work on.
Open(k) == test[k] # Absent /\ ~test[k].deleting /\ test[k].phase \notin Final

LifeInit ==
    /\ test = [k \in LoadTests |-> Absent]
    /\ ran = {}

Create(k) ==
    /\ test[k] = Absent
    /\ \E run \in RunNumbers :
          test' = [test EXCEPT ![k] = [run |-> run, deleting |-> FALSE, phase |-> "",
                                       plan |-> [i \in {} |-> Absent]]]
    /\ UNCHANGED ran

Plan(k) ==
    /\ Open(k)
    /\ ~IsPlanned(k)
    /\ \E plan \in Plans :
          test' = [test EXCEPT ![k].plan = plan, ![k].phase = "Distributing"]
    /\ UNCHANGED ran

\* The hub has no server, or there is no spoke to run on.
Wait(k) ==
    /\ Open(k)
    /\ test' = [test EXCEPT ![k].phase = "Pending"]
    /\ UNCHANGED ran

Deny(k) ==
    /\ Open(k)
    /\ k \in Denied
    /\ test' = [test EXCEPT ![k].phase = "Failed"]
    /\ UNCHANGED ran

Progress(k) ==
    /\ Open(k)
    /\ IsPlanned(k)
    /\ test' = [test EXCEPT ![k].phase = "Running"]
    /\ UNCHANGED ran

\* Every shard ran.  Later tests of the name may count shards of earlier ones.
Complete(k) ==
    /\ Open(k)
    /\ IsPlanned(k)
    /\ \/ \A i \in DOMAIN test[k].plan : <<k, test[k].run, i>> \in ran
       \/ \E earlier \in 1 .. test[k].run - 1, i \in Shards : <<k, earlier, i>> \in ran
    /\ test' = [test EXCEPT ![k].phase = "Completed"]
    /\ UNCHANGED ran

\* A shard failed, or the run broke its abort policy.
Stop(k) ==
    /\ Open(k)
    /\ IsPlanned(k)
    /\ \E phase \in {"Failed", "Aborted"} : test' = [test EXCEPT ![k].phase = phase]
    /\ UNCHANGED ran

Ran(k) ==
    /\ \E run \in RunNumbers, i \in Shards : ran' = ran \cup {<<k, run, i>>}
    /\ UNCHANGED test

Delete(k) ==
    /\ test[k] # Absent
    /\ test' = [test EXCEPT ![k].deleting = TRUE]
    /\ UNCHANGED ran

\* Deleted tests go, as does one that no pass has worked on yet.
Remove(k) ==
    /\ test[k] # Absent
    /\ test[k].deleting \/ test[k].phase = ""
    /\ test' = [test EXCEPT ![k] = Absent]
    /\ UNCHANGED ran

LifeNext ==
    \E k \in LoadTests :
        \/ Create(k)
        \/ Plan(k)
        \/ Wait(k)
        \/ Deny(k)
        \/ Progress(k)
        \/ Complete(k)
        \/ Stop(k)
        \/ Ran(k)
        \/ Delete(k)
        \/ Remove(k)

LifeSpec == LifeInit /\ [][LifeNext]_lifeVars
=============================================================================
