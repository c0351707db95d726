------------------------------ MODULE CaptureLog ------------------------------
(***************************************************************************)
(* What the agent's write pipeline promises: a log.  Accepted requests     *)
(* wait in order; a prefix of them becomes durable and leaves the queue,   *)
(* or becomes durable without the agent knowing it and stays; the end of   *)
(* the agent loses what waits.  What is durable stays so, but for what the *)
(* start of an agent exposes: that a later store may overwrite.            *)
(***************************************************************************)
EXTENDS Naturals, Sequences, Functions

CONSTANT Requests

VARIABLES
    up,             \* an agent runs
    waiting,        \* accepted, not known to be durable
    stored,         \* durable
    exposed         \* durable, and may be overwritten by the agent that runs

logVars == <<up, waiting, stored, exposed>>

Init == up = TRUE /\ waiting = <<>> /\ stored = {} /\ exposed = {}

Accept(r) ==
    /\ up
    /\ r \notin Range(waiting) \cup stored
    /\ waiting' = Append(waiting, r)
    /\ UNCHANGED <<up, stored, exposed>>

\* The first n requests become durable, perhaps in the place of others; the agent learns
\* of it or does not.
Store(n) ==
    /\ up
    /\ \E lost \in SUBSET exposed :
          /\ stored' = (stored \ lost) \cup Range(SubSeq(waiting, 1, n))
          /\ exposed' \subseteq exposed \ lost
    /\ waiting' \in {waiting, SubSeq(waiting, n + 1, Len(waiting))}
    /\ up' = up

Stop ==
    /\ up' = FALSE /\ waiting' = <<>> /\ exposed' = {}
    /\ stored' = stored

\* Under a name of its own an agent exposes nothing.
Start ==
    /\ ~up /\ up' = TRUE
    /\ exposed' \subseteq stored
    /\ UNCHANGED <<waiting, stored>>

Next ==
    \/ \E r \in Requests : Accept(r)
    \/ \E n \in 0 .. Len(waiting) : Store(n)
    \/ Stop \/ Start

Spec == Init /\ [][Next]_logVars
=============================================================================
