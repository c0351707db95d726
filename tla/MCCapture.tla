------------------------------ MODULE MCCapture ------------------------------
(***************************************************************************)
(* CaptureAgent for TLC.                                                   *)
(***************************************************************************)
EXTENDS CaptureAgent

CONSTANTS r1, r2

\* The last process has ended and nothing is under way.
Finished ==
    /\ main \in {"exited", "killed"} /\ starts = MaxStarts /\ day = MaxDays
    /\ \A r \in Requests : req[r] \notin {"new", "reading", "sending"}
    /\ UNCHANGED agentVars

Next == AgentNext \/ Finished

\* Handlers get the bodies they read, and goroutines are scheduled; a SIGTERM need not
\* come, and nobody starts another process.
Fairness ==
    /\ \A r \in Requests : WF_agentVars(Handle(r)) /\ WF_agentVars(Enqueue(r))
    /\ WF_agentVars(Drain) /\ WF_agentVars(Flusher) /\ WF_agentVars(Main)

Spec == AgentInit /\ [][Next]_agentVars /\ Fairness
=============================================================================
