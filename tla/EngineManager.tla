---------------------------- MODULE EngineManager ----------------------------
(***************************************************************************)
(* The engine manager of a worker: it launches the plugin of one engine,   *)
(* watches its binary, and replaces the process when the binary changes.   *)
(* The installer writes a binary under a temporary name and renames it.    *)
(*                                                                         *)
(* Acquire, Reload and Close hold one mutex, Acquire and Reload through    *)
(* the whole launch, so each is one action.  A launch reads the binary,    *)
(* and fails on a bad one: no handshake, no common ABI version, another    *)
(* name, or a timeout.                                                     *)
(***************************************************************************)
EXTENDS Naturals, Sequences

CONSTANTS
    Versions,           \* the versions installed one after the other: 1 .. n
    BadVersions,        \* those whose launch fails
    Processes,          \* bound on the launches: 1 .. m
    Timers              \* bound on the debounce timers: 1 .. t

ASSUME ManagerAssumption ==
    /\ 1 \in Versions /\ BadVersions \subseteq Versions
    /\ Processes \subseteq Nat /\ Timers \subseteq Nat \ {0}

VARIABLES
    binary,             \* the version in the plugin directory
    copying,            \* the installer has a temporary file there
    unseen,             \* a file event the watch goroutine has not handled
    process,            \* [Processes -> [state, version]]
    current,            \* m.engines[name], as a sequence of length 0 or 1
    timer,              \* [Timers -> "unused", "armed", "fired", "reload" or "over"]
    pending,            \* m.pending[name], as a sequence of length 0 or 1
    manager,            \* "open", "closed", or "exited": the worker process is gone
    run                 \* [pc, on]: the worker's run, and the process it acquired

fileVars == <<binary, copying>>
timerVars == <<timer, pending, unseen>>
managerVars == <<fileVars, timerVars, process, current, manager, run>>

Unstarted == [state |-> "none", version |-> 0]

ManagerInit ==
    /\ binary = 1 /\ copying = FALSE /\ unseen = FALSE
    /\ process = [p \in Processes |-> Unstarted] /\ current = <<>>
    /\ timer = [t \in Timers |-> "unused"] /\ pending = <<>>
    /\ manager = "open" /\ run = [pc |-> "acquire", on |-> <<>>]

-----------------------------------------------------------------------------
(***************************************************************************)
(* copyAtomic: a temporary file, whose name the watch ignores, and a       *)
(* rename, which is one event.                                             *)
(***************************************************************************)
InstallCopy ==
    /\ ~copying /\ binary + 1 \in Versions
    /\ copying' = TRUE
    /\ UNCHANGED <<binary, timerVars, process, current, manager, run>>

InstallRename ==
    /\ copying
    /\ \/ binary' = binary + 1 /\ unseen' = TRUE
       \/ UNCHANGED <<binary, unseen>>          \* the copy failed and was removed
    /\ copying' = FALSE
    /\ UNCHANGED <<timer, pending, process, current, manager, run>>

-----------------------------------------------------------------------------
(***************************************************************************)
(* Acquire and Reload.                                                     *)
(***************************************************************************)
Fresh(p) == process[p].state = "none" /\ \A q \in Processes : q < p => process[q].state # "none"

\* What Launch does to the process table: a failed launch kills its process.
Launch(p) ==
    process' = [process EXCEPT ![p] =
        [state |-> IF binary \in BadVersions THEN "closed" ELSE "running", version |-> binary]]
Launched == binary \notin BadVersions

\* The worker acquires once, before any engine of its manager runs.
Acquire(p) ==
    /\ run.pc = "acquire" /\ current = <<>> /\ Fresh(p)
    /\ Launch(p)
    /\ run' = IF Launched THEN [pc |-> "execute", on |-> <<p>>] ELSE [run EXCEPT !.pc = "over"]
    /\ current' = IF Launched THEN <<p>> ELSE current
    /\ UNCHANGED <<fileVars, timerVars, manager>>

ReloadForgets(t, p) ==          \* mutant: the old process is never drained and closed
    /\ timer[t] = "reload" /\ Fresh(p) /\ manager # "exited"
    /\ timer' = [timer EXCEPT ![t] = "over"]
    /\ IF current = <<>> THEN UNCHANGED <<process, current>>
       ELSE Launch(p) /\ current' = IF Launched THEN <<p>> ELSE current
    /\ UNCHANGED <<fileVars, pending, unseen, manager, run>>

\* Nothing to do when no engine runs.  A launch that fails keeps the old process; one that
\* succeeds swaps it in, and a goroutine drains and closes the old one.
Reload(t, p) ==
    /\ timer[t] = "reload" /\ Fresh(p) /\ manager # "exited"
    /\ timer' = [timer EXCEPT ![t] = "over"]
    /\ IF current = <<>> THEN UNCHANGED <<process, current>>
       ELSE IF ~Launched THEN Launch(p) /\ current' = current
       ELSE /\ process' = [process EXCEPT ![p] = [state |-> "running", version |-> binary],
                                          ![current[1]].state = "replaced"]
            /\ current' = <<p>>
    /\ UNCHANGED <<fileVars, pending, unseen, manager, run>>

\* The goroutine: Drain, the rest of the grace period, Close.  It does not ask whether a
\* run is still on the process.
DrainOld(p) ==
    /\ process[p].state = "replaced" /\ manager # "exited"
    /\ process' = [process EXCEPT ![p].state = "draining"]
    /\ UNCHANGED <<fileVars, timerVars, current, manager, run>>

CloseOld(p) ==
    /\ process[p].state = "draining" /\ manager # "exited"
    /\ process' = [process EXCEPT ![p].state = "closed"]
    /\ UNCHANGED <<fileVars, timerVars, current, manager, run>>

-----------------------------------------------------------------------------
(***************************************************************************)
(* Watch and scheduleReload.                                               *)
(***************************************************************************)
WatchEventWrite(t) ==           \* mutant: a rename is not taken for a change
    /\ unseen /\ unseen' = FALSE /\ timer[t] = "unused" /\ manager # "exited"
    /\ UNCHANGED <<timer, pending, fileVars, process, current, manager, run>>

\* An event stops the pending timer, if it has not fired, and starts another.  The watch
\* goroutine may still take an event after Close.
WatchEvent(t) ==
    /\ unseen /\ unseen' = FALSE
    /\ timer[t] = "unused" /\ manager # "exited"
    /\ timer' = [s \in Timers |-> IF s = t THEN "armed"
                                  ELSE IF <<s>> = pending /\ timer[s] = "armed" THEN "over"
                                  ELSE timer[s]]
    /\ pending' = <<t>>
    /\ UNCHANGED <<fileVars, process, current, manager, run>>

\* Close stopped the watch; what it has not seen stays unseen.
WatchStops ==
    /\ unseen /\ manager = "closed" /\ unseen' = FALSE
    /\ UNCHANGED <<fileVars, timer, pending, process, current, manager, run>>

Fire(t) ==
    /\ timer[t] = "armed" /\ manager # "exited"
    /\ timer' = [timer EXCEPT ![t] = "fired"]
    /\ UNCHANGED <<fileVars, pending, unseen, process, current, manager, run>>

\* The callback deletes the pending entry, its own or a newer one, then reloads.
Callback(t) ==
    /\ timer[t] = "fired" /\ manager # "exited"
    /\ timer' = [timer EXCEPT ![t] = "reload"] /\ pending' = <<>>
    /\ UNCHANGED <<fileVars, unseen, process, current, manager, run>>

-----------------------------------------------------------------------------
(***************************************************************************)
(* The end of the run, Close, and the end of the worker.                   *)
(***************************************************************************)
EndRunOn ==
    /\ run.pc = "execute"
    /\ run' = [run EXCEPT !.pc = "over"]
    /\ UNCHANGED <<fileVars, timerVars, process, current, manager>>

\* Close stops the timers in the table that have not fired, and closes the engine.
Close ==
    /\ manager = "open" /\ run.pc = "over"
    /\ manager' = "closed"
    /\ timer' = [t \in Timers |-> IF <<t>> = pending /\ timer[t] = "armed" THEN "over" ELSE timer[t]]
    /\ process' = [p \in Processes |-> IF <<p>> = current
                                       THEN [process[p] EXCEPT !.state = "closed"] ELSE process[p]]
    /\ current' = <<>>
    /\ UNCHANGED <<fileVars, pending, unseen, run>>

\* Close is deferred in runExternalEngine: main returns after it, and with the worker go
\* its goroutines, those that still wait out a grace period included.
Exit ==
    /\ manager = "closed"
    /\ manager' = "exited"
    /\ UNCHANGED <<fileVars, timerVars, process, current, run>>

CallbackStep(t) == Fire(t) \/ Callback(t) \/ \E p \in Processes : Reload(t, p)
WatchStep == WatchStops \/ \E t \in Timers : WatchEvent(t)
DrainStep(p) == DrainOld(p) \/ CloseOld(p)

ManagerNext ==
    \/ InstallCopy \/ InstallRename \/ WatchStep \/ EndRunOn \/ Close \/ Exit
    \/ \E p \in Processes : Acquire(p) \/ DrainStep(p)
    \/ \E t \in Timers : CallbackStep(t)

-----------------------------------------------------------------------------
(***************************************************************************)
(* Properties.                                                             *)
(***************************************************************************)
\* The type invariant of the manager's state.
ManagerTypeOK ==
    /\ binary \in Versions /\ copying \in BOOLEAN /\ unseen \in BOOLEAN
    /\ \A p \in Processes :
          process[p].state \in {"none", "running", "replaced", "draining", "closed"}
    /\ Len(current) <= 1 /\ Len(pending) <= 1
    /\ \A t \in Timers : timer[t] \in {"unused", "armed", "fired", "reload", "over"}
    /\ manager \in {"open", "closed", "exited"} /\ run.pc \in {"acquire", "execute", "over"}

\* Acquire hands out a process that runs and is not being drained, and no other process
\* of the engine is left running: neither a failed reload, nor an event after Close, nor a
\* timer that fired before its successor was armed can lose or leak one.
OneRunningEngine ==
    {p \in Processes : process[p].state = "running"} = {current[i] : i \in DOMAIN current}

\* While the manager is open an engine that once ran is replaced, never lost: a reload
\* whose launch fails "keeps the old process".
EngineKept == [][current # <<>> /\ manager' = "open" => current' # <<>>]_managerVars

\* "Runs already executing on the old process finish there", as far as the code keeps it:
\* the process a run acquired is closed under that run only once it has been replaced and
\* drained, when its grace period is over.  Neither the launch of the new process nor Close
\* takes it away.
RunKeepsProcess ==
    [][\A p \in Processes :
          /\ run.pc = "execute" /\ run.on = <<p>>
          /\ process[p].state # "closed" /\ process'[p].state = "closed"
          => process[p].state = "draining" /\ current # <<p>>]_managerVars

\* A process that was replaced is drained and closed while the manager is open.  After
\* Close nothing is promised: the goroutine that waits out the grace period dies with the
\* worker, and Close itself closes the current process only.
ReplacedIsClosed ==
    []<>(manager # "open" \/ \A p \in Processes : process[p].state \notin {"replaced", "draining"})

\* In the end the engine runs the binary that is installed, if that one works, however the
\* events and the timers of the debounce interleave: an event that comes while a reload is
\* under way is not lost.
NewBinaryRuns ==
    <>[](\/ manager # "open" \/ current = <<>> \/ binary \in BadVersions
         \/ process[current[1]].version = binary)

\* A reload comes to a good end: no engine is lost on the way, nor taken from the run that
\* has it, the old process is closed, and the new binary runs.
ReloadsSettle == EngineKept /\ RunKeepsProcess /\ ReplacedIsClosed /\ NewBinaryRuns
=============================================================================
