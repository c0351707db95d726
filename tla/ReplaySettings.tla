----------------------------- MODULE ReplaySettings -----------------------------
(***************************************************************************)
(* How the settings of a load test reach the workers. The hub turns the    *)
(* CaptureLoadTest into a directive per shard, the spoke the directive     *)
(* into a TrafficReplay and that into the flags of a Job, and the worker   *)
(* the flags into the options of a reader and of an engine; each of them   *)
(* has its own way to say "not set". The load test may be edited while its *)
(* shards are on their way.                                                *)
(*                                                                         *)
(* Unset fields are sequences of length 0. Names of captures, headers and  *)
(* plugin images are left out; the presharded layout exists for the load   *)
(* tests that read it (Dataset models how it is written, and what a reader *)
(* of the whole capture then sees).                                        *)
(***************************************************************************)
EXTENDS Sharding, Integers, FiniteSets, FiniteSetsExt

CONSTANTS
    Recorded,       \* [Requests -> [time, day, path, method]]; day is that of its object, which
                    \* is the next one for a request that was flushed after midnight
    LoadTestSpecs,  \* the specs a user writes
    EditedSpecs,    \* the specs they may be changed to
    LayoutCount,    \* number of slices kapture-preshard wrote
    LayoutDay,      \* the day it ran, which names the slices' objects
    Day(_),         \* the day of a time
    MaxSpecEdits

VARIABLES
    lt,             \* the CaptureLoadTest: spec, the status' totalShards, phase Failed
    shard,          \* per shard: how far its settings got, in which form, and (ghost) the
                    \* spec that its directive was built from
    specEdits

settingsVars == <<lt, shard, specEdits>>

None == <<>>
IsSet(x) == x # None

\* What the CRD's validation lets through.
ASSUME SettingsAssumption ==
    /\ LayoutCount \in Nat
    /\ \A s \in LoadTestSpecs \cup EditedSpecs :
          /\ s.shards \in Nat \ {0} /\ s.presharded \in BOOLEAN /\ s.tls \in BOOLEAN
          /\ IsSet(s.port) => s.port[1] \in Nat \ {0}
          /\ IsSet(s.concurrency) => s.concurrency[1] \in Nat \ {0}
          /\ IsSet(s.engine) => s.engine[1] # ""
          /\ IsSet(s.limit) => s.limit[1] \in Nat
          /\ s.host \in Seq(STRING)
          /\ \A p \in s.allowed : p.wild \in BOOLEAN /\ p.labels \in Seq(STRING)

\* The settings of a load test that names nothing.
EmptySpec ==
    [shards |-> 2, presharded |-> FALSE, storage |-> "S3", host |-> <<"api">>, allowed |-> {},
     port |-> None, tls |-> FALSE, concurrency |-> None, engine |-> None, rate |-> None,
     start |-> None, end |-> None, prefix |-> None, methods |-> {}, limit |-> None]

SettingsInit ==
    /\ \E s \in LoadTestSpecs : lt = [spec |-> s, totalShards |-> s.shards, failed |-> FALSE]
    /\ shard = [i \in 0 .. lt.totalShards - 1 |-> [at |-> "planned", spec |-> None, from |-> None]]
    /\ specEdits = 0

Advance(i, at, spec) ==
    shard' = [shard EXCEPT ![i] = [at |-> at, spec |-> spec, from |-> @.from]]
Settings(i) == shard[i].spec[1]

-----------------------------------------------------------------------------
(***************************************************************************)
(* The hub.                                                                *)
(***************************************************************************)
\* A host is a sequence of labels; a pattern is one with a flag for a leading "*.".
Subdomain(h, labels) == \E n \in 1 .. Len(h) - 1 : labels = SubSeq(h, n + 1, Len(h))
HostAllowed(h, allowed) ==
    \/ allowed = {}
    \/ \E p \in allowed : IF p.wild THEN Subdomain(h, p.labels) ELSE h = p.labels

splitRate(totalRPS, count, i) ==
    LET base == totalRPS \div count + (IF i < totalRPS % count THEN 1 ELSE 0)
    IN  IF base < 1 THEN 1 ELSE base

\* The directive: protobuf has no unset scalars, so unset is zero, or false, or empty.
buildStartDirective(test, i) ==
    LET s == test.spec
        zero(x) == IF IsSet(x) THEN x[1] ELSE 0
    IN  [index |-> i, count |-> test.totalShards, presharded |-> s.presharded,
         host |-> s.host, allowed |-> s.allowed, storage |-> s.storage,
         port |-> zero(s.port), tls |-> s.tls,
         concurrency |-> IF IsSet(s.concurrency) THEN s.concurrency[1] ELSE 10,
         engine |-> IF IsSet(s.engine) THEN s.engine[1] ELSE "",
         mode |-> IF IsSet(s.rate) THEN s.rate[1].mode ELSE "OriginalTiming",
         rps |-> IF IsSet(s.rate) /\ s.rate[1].mode = "Constant"
                 THEN splitRate(s.rate[1].rps, test.totalShards, i) ELSE 0,
         timeScale |-> IF IsSet(s.rate) THEN s.rate[1].timeScale ELSE None,
         start |-> s.start, end |-> s.end, prefix |-> s.prefix, methods |-> s.methods,
         limit |-> zero(s.limit)]

\* A pass of the reconciler: the safety gate, terminal when it is closed, then a directive.
Distribute(i) ==
    /\ shard[i].at = "planned" /\ ~lt.failed
    /\ IF HostAllowed(lt.spec.host, lt.spec.allowed)
       THEN /\ shard' = [shard EXCEPT ![i] = [at |-> "directed", spec |-> <<buildStartDirective(lt, i)>>,
                                              from |-> <<lt.spec>>]]
            /\ lt' = lt
       ELSE lt' = [lt EXCEPT !.failed = TRUE] /\ shard' = shard
    /\ specEdits' = specEdits

\* The user edits the spec; the status, and with it the number of shards, stays.
EditSpec ==
    /\ specEdits < MaxSpecEdits /\ specEdits' = specEdits + 1
    /\ \E s \in EditedSpecs : s # lt.spec /\ lt' = [lt EXCEPT !.spec = s]
    /\ UNCHANGED shard

-----------------------------------------------------------------------------
(***************************************************************************)
(* The spoke.                                                              *)
(***************************************************************************)
Positive(n) == IF n > 0 THEN <<n>> ELSE None

\* replayFromDirective: zero becomes unset again.
replayFromDirective(d) ==
    [index |-> d.index, count |-> d.count, presharded |-> d.presharded,
     host |-> d.host, allowed |-> d.allowed, storage |-> d.storage,
     port |-> IF d.port # 0 THEN <<d.port>> ELSE None, tls |-> d.tls,
     concurrency |-> Positive(d.concurrency),
     engine |-> IF d.engine # "" THEN <<d.engine>> ELSE None,
     rate |-> [mode |-> d.mode, rps |-> Positive(d.rps), timeScale |-> d.timeScale],
     start |-> d.start, end |-> d.end, prefix |-> d.prefix, methods |-> d.methods,
     limit |-> Positive(d.limit)]

Materialise(i) ==
    /\ shard[i].at = "directed"
    /\ Advance(i, "created", <<replayFromDirective(Settings(i))>>)
    /\ UNCHANGED <<lt, specEdits>>

RateMode(mode) == CASE mode = "Constant" -> "constant" [] mode = "OriginalTiming" -> "original"
                    [] mode = "Unlimited" -> "unlimited"

TargetURLPlain(tr) ==           \* mutant: TLS does not move the default port
    [scheme |-> IF tr.tls THEN "https" ELSE "http", host |-> tr.host,
     port |-> IF IsSet(tr.port) THEN tr.port[1] ELSE 80]

TargetURL(tr) ==
    [scheme |-> IF tr.tls THEN "https" ELSE "http", host |-> tr.host,
     port |-> IF IsSet(tr.port) THEN tr.port[1] ELSE IF tr.tls THEN 443 ELSE 80]

\* Slices are disjoint already: no hash filter for them.
ShardFlags(tr) == IF tr.presharded THEN None ELSE <<tr.index, tr.count>>

\* buildReplayArgs: the flags that are given.
buildReplayArgs(tr) ==
    [slice |-> IF tr.presharded THEN <<tr.index, tr.count>> ELSE None,
     storage |-> tr.storage,
     url |-> TargetURL(tr),
     rateMode |-> RateMode(tr.rate.mode),
     rps |-> IF tr.rate.mode = "Constant" THEN tr.rate.rps ELSE None,
     timeScale |-> IF tr.rate.mode = "OriginalTiming" THEN tr.rate.timeScale ELSE None,
     concurrency |-> tr.concurrency,
     shardFlags |-> ShardFlags(tr),
     engine |-> IF tr.engine = <<"builtin">> THEN None ELSE tr.engine,
     start |-> tr.start, end |-> tr.end, prefix |-> tr.prefix, methods |-> tr.methods,
     limit |-> tr.limit]

\* The TrafficReplay reconciler: the safety gate again, then the Job, if the storage can be read.
RunJob(i) ==
    /\ shard[i].at = "created"
    /\ LET tr == Settings(i)
       IN  IF HostAllowed(tr.host, tr.allowed) /\ tr.storage # "Plugin"
           THEN Advance(i, "job", <<buildReplayArgs(tr)>>)
           ELSE Advance(i, "refused", None)
    /\ UNCHANGED <<lt, specEdits>>

-----------------------------------------------------------------------------
(***************************************************************************)
(* The worker.                                                             *)
(***************************************************************************)
Default(flag, value) == IF IsSet(flag) THEN flag[1] ELSE value

\* parseFlags, buildReadOptions and, for a plugin engine, buildRunConfig.
parseFlags(args) ==
    [slice |-> args.slice, storage |-> args.storage,
     target |-> [host |-> args.url.host, port |-> args.url.port, tls |-> args.url.scheme = "https"],
     rateMode |-> args.rateMode, rps |-> Default(args.rps, 0),
     timeScale |-> Default(args.timeScale, "1"),
     concurrency |-> Default(args.concurrency, 10),
     index |-> IF IsSet(args.shardFlags) THEN args.shardFlags[1] ELSE 0,
     count |-> IF IsSet(args.shardFlags) THEN args.shardFlags[2] ELSE 1,
     engine |-> Default(args.engine, "builtin"),
     start |-> args.start, end |-> args.end, prefix |-> args.prefix, methods |-> args.methods,
     limit |-> Default(args.limit, 0)]

StartWorker(i) ==
    /\ shard[i].at = "job"
    /\ Advance(i, "running", <<parseFlags(Settings(i))>>)
    /\ UNCHANGED <<lt, specEdits>>

filterObjectAfter(day, o) ==    \* mutant: the day of the start time is left out
    /\ IsSet(o.start) => day > Day(o.start[1])
    /\ IsSet(o.end) => day <= Day(o.end[1])

\* The reader: objects by day, then records by their fields, then the limit.
filterObjectByTime(day, o) ==
    /\ IsSet(o.start) => day >= Day(o.start[1])
    /\ IsSet(o.end) => day <= Day(o.end[1])

matchesReadOptions(r, o) ==
    /\ IsSet(o.start) => r.time >= o.start[1]
    /\ IsSet(o.end) => r.time <= o.end[1]
    /\ IsSet(o.prefix) => r.path \in o.prefix[1]
    /\ o.methods # {} => r.method \in o.methods

\* The places in the capture of what lies behind the capture ID: a slice of the layout, or
\* all of it; and of what passes the filters there.
Behind(o) ==
    {k \in DOMAIN Capture : IsSet(o.slice) =>
        o.slice[2] = LayoutCount /\ ShardIndexOf(Capture[k], LayoutCount) = o.slice[1]}
Found(o) ==
    {k \in Behind(o) : LET r == Recorded[Capture[k]] IN
        /\ filterObjectByTime(IF IsSet(o.slice) THEN LayoutDay ELSE r.day, o)
        /\ matchesReadOptions(r, o)}

\* What the reader yields. It counts the limit before the engine looks at shards.
Yielded(o) ==
    {Capture[k] : k \in {k \in Found(o) :
        o.limit > 0 => Cardinality({j \in Found(o) : j < k}) < o.limit}}

\* What the engine, or the feeder of a plugin engine, replays of it.
Replayed(o) == {id \in Yielded(o) : ShardOwns(id, o.index, o.count)}

SettingsNext ==
    \/ \E i \in DOMAIN shard : Distribute(i) \/ Materialise(i) \/ RunJob(i) \/ StartWorker(i)
    \/ EditSpec

-----------------------------------------------------------------------------
(***************************************************************************)
(* Properties.                                                             *)
(***************************************************************************)
Running == {i \in DOMAIN shard : shard[i].at = "running"}

\* All shards run, with settings from the spec s; edits may come before, between and after.
AllRunFrom(s) == Running = DOMAIN shard /\ \A i \in Running : shard[i].from = <<s>>
Specs == LoadTestSpecs \cup EditedSpecs

\* The type invariant: shards are in one of the forms their settings take.
SettingsTypeOK ==
    /\ DOMAIN shard = 0 .. lt.totalShards - 1
    /\ \A i \in DOMAIN shard :
          shard[i].at \in {"planned", "directed", "created", "job", "running", "refused"}
    /\ \A i \in Running : Settings(i).index \in 0 .. Settings(i).count - 1

\* The requests that the user's filters select (ReplayFilters), written from the spec's
\* words: "at or after" the start time and "before" the end time.
Matching(s) ==
    {id \in Requests : /\ IsSet(s.start) => Recorded[id].time >= s.start[1]
                       /\ IsSet(s.prefix) => Recorded[id].path \in s.prefix[1]
                       /\ s.methods # {} => Recorded[id].method \in s.methods}
Selected(s) == {id \in Matching(s) : IsSet(s.end) => Recorded[id].time < s.end[1]}

\* What the code makes of the end time besides: it takes a request at that very time, and
\* it loses one that was flushed after the midnight that ends the day of the end time.
AtEnd(s) == {id \in Matching(s) : IsSet(s.end) /\ Recorded[id].time = s.end[1]}
FlushedLate(s) == {id \in Requests : IsSet(s.end) /\ Recorded[id].day > Day(s.end[1])}

\* Through all the conversions, and whatever was edited meanwhile, the workers that run from
\* one spec without a limit replay what its filters select, each request at exactly one
\* shard, hash-sharded or from slices of the same count (ReplayShardSpec: "cover the
\* capture exactly once"); but for what the end time loses and adds, see FlushedLate and
\* AtEnd. Time filters on slices are left out: they compare with the day on which the
\* slices were written.
SelectedExactlyOnce ==
    \A s \in Specs :
        AllRunFrom(s) /\ ~IsSet(s.limit) /\ (s.presharded =>
                lt.totalShards = LayoutCount /\ ~IsSet(s.start) /\ ~IsSet(s.end)) =>
            LET all == UNION {Replayed(Settings(i)) : i \in Running}
            IN  /\ all \subseteq Selected(s) \cup AtEnd(s)
                /\ Selected(s) \ FlushedLate(s) \subseteq all
                /\ \A i, j \in Running :
                      i # j => Replayed(Settings(i)) \cap Replayed(Settings(j)) = {}

\* The hub divides the aggregate rate of a spec: the rates of the workers that run from it
\* "sum exactly to the configured aggregate" (splitRate) when there is at least one request
\* per second for each. When there is not, that sentence is wrong: splitRate gives every
\* worker one, and they exceed the aggregate.
RatesAddUp ==
    \A s \in Specs :
        AllRunFrom(s) /\ IsSet(s.rate) /\ s.rate[1].mode = "Constant" =>
            LET rps == s.rate[1].rps
                sum == MapThenSumSet(LAMBDA i : Settings(i).rps, Running)
            IN  /\ rps >= lt.totalShards => sum = rps
                /\ rps < lt.totalShards => sum = lt.totalShards

\* A worker runs with the settings of the spec that its directive was built from, or their
\* documented defaults, after four conversions that each spell "unset" differently: the
\* port that goes with TLS, ten senders, the builtin engine, the recorded timing.  No edit
\* of the load test mixes into them.
SettingsSurvive ==
    \A i \in Running :
        LET s == shard[i].from[1]
            o == Settings(i)
        IN  /\ o.target = [host |-> s.host, tls |-> s.tls,
                           port |-> IF IsSet(s.port) THEN s.port[1] ELSE IF s.tls THEN 443 ELSE 80]
            /\ o.concurrency = IF IsSet(s.concurrency) THEN s.concurrency[1] ELSE 10
            /\ o.engine = IF IsSet(s.engine) THEN s.engine[1] ELSE "builtin"
            /\ o.rateMode = IF IsSet(s.rate) THEN RateMode(s.rate[1].mode) ELSE "original"
            /\ o.limit = IF IsSet(s.limit) THEN s.limit[1] ELSE 0

\* The two safety gates agree: the spoke, which checks the target again ("again by every
\* spoke before running a shard"), refuses no shard that the hub let pass, unless it cannot
\* read the storage; whatever was edited after the hub had looked.
GatesAgree ==
    \A i \in DOMAIN shard : shard[i].at = "refused" => shard[i].from[1].storage = "Plugin"

\* A load test's settings reach its workers: the rates add up, the rest arrives unchanged,
\* and hub and spoke come to the same verdict on the target.
SettingsArrive == RatesAddUp /\ SettingsSurvive /\ GatesAgree

\* CaptureLoadTestSpec: "Limit applies per shard." Every shard that owns enough of the
\* selected requests replays as many as the limit says.
LimitPerShard ==
    \A s \in Specs :
        AllRunFrom(s) /\ IsSet(s.limit) /\ ~s.presharded =>
            \A i \in Running :
                LET mine == Cardinality({id \in Selected(s) : ShardOwns(id, i, lt.totalShards)})
                    limit == s.limit[1]
                IN  Cardinality(Replayed(Settings(i))) = IF mine < limit THEN mine ELSE limit
=============================================================================
