------------------------------- MODULE MCReplay -------------------------------
(***************************************************************************)
(* The replay data plane for TLC: each behaviour is one of a worker in     *)
(* direct mode, a feed server, a run on a plugin engine, an engine         *)
(* manager, a dataset being presharded or a load test's settings on their  *)
(* way to the workers.  The other parts keep their initial state.          *)
(***************************************************************************)
EXTENDS ReplayWorker, FeedServer, EngineStream, EngineManager, Dataset,
        ReplaySettings

CONSTANTS Parts         \* the parts a run explores

VARIABLE part

vars == <<part, workerVars, feedVars, streamVars, managerVars, datasetVars, settingsVars>>

Init ==
    /\ part \in Parts
    /\ WorkerInit /\ FeedInit /\ StreamInit /\ ManagerInit /\ DatasetInit /\ SettingsInit
    /\ part # "worker" => Senders = {1}
    /\ part # "feed" => source = "capture"
    /\ part # "stream" => engine = CHOOSE e \in Engines : TRUE
    /\ part # "dataset" => Cardinality(objects) = 1
    /\ part # "settings" => lt.spec = EmptySpec

Worker(A) ==
    /\ part = "worker" /\ A
    /\ UNCHANGED <<part, feedVars, streamVars, managerVars, datasetVars, settingsVars>>
Feed(A) ==
    /\ part = "feed" /\ A
    /\ UNCHANGED <<part, workerVars, streamVars, managerVars, datasetVars, settingsVars>>
Stream(A) ==
    /\ part = "stream" /\ A
    /\ UNCHANGED <<part, workerVars, feedVars, managerVars, datasetVars, settingsVars>>
Manager(A) ==
    /\ part = "manager" /\ A
    /\ UNCHANGED <<part, workerVars, feedVars, streamVars, datasetVars, settingsVars>>
Data(A) ==
    /\ part = "dataset" /\ A
    /\ UNCHANGED <<part, workerVars, feedVars, streamVars, managerVars, settingsVars>>
Config(A) ==
    /\ part = "settings" /\ A
    /\ UNCHANGED <<part, workerVars, feedVars, streamVars, managerVars, datasetVars>>

Next ==
    \/ Worker(WorkerNext)
    \/ Feed(FeedNext)
    \/ Stream(StreamNext)
    \/ Manager(ManagerNext)
    \/ Data(DatasetNext)
    \/ Config(SettingsNext)

\* Some goroutine of a worker, of a run or of a manager that can step does; network calls,
\* timers and child processes end.  Each handler of a feed server is scheduled, however many
\* calls the others serve.  The goroutines of a manager step only until the worker exits, see
\* Exit.  Nothing is assumed of clients, signals, file changes or failures.
WorkerSteps == ReaderStep \/ FlusherStep \/ RunStep \/ \E s \in 1 .. MaxConcurrency : SenderStep(s)
StreamSteps == HostStep \/ SDKStep \/ ExecuteStep \/ CollectStep \/ \E w \in EngineWorkers : EngineStep(w)
ManagerSteps == WatchStep \/ (\E t \in Timers : CallbackStep(t)) \/ \E p \in Processes : DrainStep(p)

Fairness ==
    /\ WF_vars(Worker(WorkerSteps))
    /\ WF_vars(Feed(FeederStep)) /\ \A c \in Consumers : WF_vars(Feed(HandlerStep(c)))
    /\ WF_vars(Stream(StreamSteps))
    /\ WF_vars(Manager(ManagerSteps))

Spec == Init /\ [][Next]_vars /\ Fairness

\* Four requests; the worker's shard, the even hashes, owns three of them; of three slices one is empty.
MCCapture == <<"a", "b", "c", "d">>
MCHash == [id \in {"a", "b", "c", "d"} |->
              CASE id = "a" -> 0 [] id = "b" -> 1 [] id = "c" -> 4 [] id = "d" -> 6]

\* Recorded on three days; the second one of the first day was flushed after midnight.
MCDay(t) == t \div 3
MCRecorded == [id \in {"a", "b", "c", "d"} |->
    CASE id = "a" -> [time |-> 3, day |-> 1, path |-> "x", method |-> "GET"]
      [] id = "b" -> [time |-> 4, day |-> 2, path |-> "y", method |-> "GET"]
      [] id = "c" -> [time |-> 6, day |-> 2, path |-> "x", method |-> "PUT"]
      [] id = "d" -> [time |-> 9, day |-> 3, path |-> "x", method |-> "GET"]]

\* Load tests that vary what selects requests, what paces them, and where they go.
MCRates == {None, <<[mode |-> "Unlimited", rps |-> 0, timeScale |-> None]>>,
            <<[mode |-> "OriginalTiming", rps |-> 0, timeScale |-> <<"2">>]>>}
           \cup {<<[mode |-> "Constant", rps |-> n, timeScale |-> None]>> : n \in {1, 3, 5}}
MCWindows == {<<None, None>>, <<None, <<5>>>>, <<<<4>>, <<6>>>>, <<<<6>>, None>>}
MCStaging == {[wild |-> TRUE, labels |-> <<"stg">>]}
MCSpecs ==
    {[EmptySpec EXCEPT !.presharded = p, !.start = w[1], !.end = w[2], !.prefix = x, !.limit = l] :
        p \in BOOLEAN, w \in MCWindows, x \in {None, <<{"x"}>>}, l \in {None, <<1>>}}
    \cup {[EmptySpec EXCEPT !.shards = 3, !.presharded = p] : p \in BOOLEAN}
    \cup {[EmptySpec EXCEPT !.rate = r, !.concurrency = o[1], !.engine = o[2], !.methods = {"GET"}] :
             r \in MCRates, o \in {<<None, None>>, <<<<1>>, <<"builtin">>>>, <<<<1>>, <<"k6">>>>}}
    \cup {[EmptySpec EXCEPT !.host = h, !.allowed = a, !.port = o[1], !.tls = o[2]] :
             h \in {<<"api">>, <<"api", "stg">>, <<"stg">>}, a \in {{}, MCStaging},
             o \in {<<None, FALSE>>, <<None, TRUE>>, <<<<8080>>, TRUE>>}}
    \cup {[EmptySpec EXCEPT !.storage = "Plugin",
                            !.allowed = {[wild |-> FALSE, labels |-> <<"api">>]}]}
MCEdited == {[EmptySpec EXCEPT !.host = <<"stg">>, !.allowed = MCStaging],
             [EmptySpec EXCEPT !.host = <<"prod">>]}

\* Every part stays in its types.
ReplayTypeOK ==
    WorkerTypeOK /\ FeedTypeOK /\ StreamTypeOK /\ ManagerTypeOK /\ DatasetTypeOK /\ SettingsTypeOK

\* Nobody waits for good: a worker's process ends, a run on an engine that reads its feed
\* ends and a consumer of the feed is answered, whatever fails or is cancelled.
NobodyWaits ==
    /\ part = "worker" => WorkerEnds
    /\ part = "stream" => StreamEnds
    /\ CallsAnswered
=============================================================================
