--------------------------- MODULE MCLoadTestSystem ---------------------------
(***************************************************************************)
(* LoadTestSystem for TLC.                                                 *)
(***************************************************************************)
EXTENDS LoadTestClaims, LoadTestRefinement, TLC

CONSTANTS s1, s2, k1, k2, k3

\* One or two spokes in one cell, s1's ID before s2's.
MCRank1 == [s \in {s1} |-> 1]
MCRank2 == [s \in {s1, s2} |-> IF s = s1 THEN 1 ELSE 2]
MCCellOf == [s \in {s1, s2} |-> "east"]
MCTestCells == [k \in {k1, k2, k3} |-> {}]

\* Tests that only differ by their names.
MCSymmetry == Permutations({k1, k2})

MCShards1 == 0 .. 0
MCShards2 == 0 .. 1
MCShards3 == 0 .. 2

\* Run reports: none is scraped, or one without failed requests, or with only such.
MCNone == {}
MCFailing == {[sent |-> 0, failed |-> 1]}
MCMixed == {[sent |-> 1, failed |-> 0], [sent |-> 0, failed |-> 1]}
=============================================================================
