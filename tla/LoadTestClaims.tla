---------------------------- MODULE LoadTestClaims ----------------------------
(***************************************************************************)
(* What comments and documents of the repository say of load tests, stated *)
(* for LoadTestSystem.  The system does not satisfy these under the events *)
(* that the runs named after them allow; LoadTestSystem states what holds. *)
(***************************************************************************)
EXTENDS LoadTestSystem

(***************************************************************************)
(* docs/multi-cell-load-testing.md:148: "maxDuration - wall-clock limit    *)
(* from the run's start time".  A pass that finds no server sets the phase *)
(* to Pending, and shouldAbort looks at Distributing and Running only.     *)
(***************************************************************************)
MaxDurationEnforced ==
    \A k \in LoadTests : k \in expired ~> Over(k)

(***************************************************************************)
(* api/v1alpha1/captureloadtest_types.go:212: "CompletedShards is the      *)
(* number of shards that finished successfully"; the phase is Completed    *)
(* when that number is totalShards.  A test created under the name of a    *)
(* deleted one counts the statuses that its shards left behind.            *)
(***************************************************************************)
CompletedCountsOwnShards ==
    \A k \in LoadTests :
        (cr[k] # Absent /\ cr[k].phase = "Completed") =>
            \A i \in DOMAIN cr[k].plan : <<k, cr[k].run, i>> \in done
=============================================================================
