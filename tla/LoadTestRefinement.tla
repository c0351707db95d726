-------------------------- MODULE LoadTestRefinement --------------------------
(***************************************************************************)
(* LoadTestSystem implements LoadTestLifecycle: the stored objects without *)
(* their finalizer and their AbortInProgress condition.                    *)
(***************************************************************************)
EXTENDS LoadTestSystem

Shown(lt) ==
    IF lt = Absent THEN Absent
    ELSE [run |-> lt.run, deleting |-> lt.deleting, phase |-> lt.phase, plan |-> lt.plan]

\* An object that is shown is not mistaken for a missing one.
ASSUME ShownAssumption ==
    Absent \notin [run : Nat, deleting : BOOLEAN, phase : Phases, plan : Assignments]

Lifecycle == INSTANCE LoadTestLifecycle WITH
    test <- [k \in LoadTests |-> Shown(cr[k])],
    ran <- done,
    RunNumbers <- 1 .. MaxRuns

(***************************************************************************)
(* Whatever passes, spokes, crashes and late messages do, the stored       *)
(* CaptureLoadTests behave as LoadTestLifecycle says: one plan per run     *)
(* (Reconcile, "the recorded assignment stays stable for the lifetime of   *)
(* the run"), final phases that stay (the early return on terminal         *)
(* phases), no status written once deletion began (the API server's        *)
(* conflict check on r.Status().Update).                                   *)
(***************************************************************************)
ImplementsLifecycle == Lifecycle!LifeSpec
=============================================================================
