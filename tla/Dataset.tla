------------------------------- MODULE Dataset -------------------------------
(***************************************************************************)
(* A stored capture, kapture-preshard and the readers.  The agents left    *)
(* their objects under the capture's ID, one directory a day; a preshard   *)
(* writes slice i of n under captureID/shards/i-of-n, with its manifest;   *)
(* a reader lists every object under an ID, at whatever depth.             *)
(*                                                                         *)
(* A place is <<>>, the capture itself, or <<i, n>>, a slice of it.        *)
(***************************************************************************)
EXTENDS Sharding, SequencesExt

CONSTANTS
    ShardCounts,        \* the --shards values the preshard is run with
    MaxPreshards,       \* bound on the runs of kapture-preshard
    PreBatch,           \* requests a writer buffers before it uploads
    LastDay             \* bound on the days that pass

ASSUME DatasetAssumption ==
    /\ \A n \in ShardCounts : n \in Nat /\ n >= 2
    /\ MaxPreshards \in Nat /\ PreBatch \in Nat \ {0} /\ LastDay \in Nat

VARIABLES
    today,
    objects,            \* what is stored: [place, day, seq, items]
    manifests,          \* the manifests: [place, items], items standing for count and digest
    preshard,           \* [pc, n, next]: the run of kapture-preshard
    todo,               \* what its reader still has to yield
    writer,             \* [shard -> [buffer, seq]]
    digest,             \* [shard -> what was hashed]
    preshards           \* how many runs there were

datasetVars == <<today, objects, manifests, preshard, todo, writer, digest, preshards>>

NoWriter == [buffer |-> <<>>, seq |-> 0]

\* The agents wrote the capture, in one object or in two of consecutive days.
DatasetInit ==
    /\ today = 1
    /\ \E k \in 1 .. Len(Capture) :
          objects = {o \in {[place |-> <<>>, day |-> 0, seq |-> 1, items |-> SubSeq(Capture, 1, k)],
                            [place |-> <<>>, day |-> 1, seq |-> 1,
                             items |-> SubSeq(Capture, k + 1, Len(Capture))]} : o.items # <<>>}
    /\ manifests = {} /\ preshard = [pc |-> "idle", n |-> 0, next |-> 0]
    /\ todo = <<>> /\ writer = <<>> /\ digest = <<>> /\ preshards = 0

-----------------------------------------------------------------------------
(***************************************************************************)
(* The store and the readers.                                              *)
(***************************************************************************)
\* An upload replaces the object of the same name: place, day and sequence number.
Put(store, o) ==
    {x \in store : <<x.place, x.day, x.seq>> # <<o.place, o.day, o.seq>>} \cup {o}

\* The listing of a reader: the prefix of the capture is a prefix of its slices.
List(place) == {o \in objects : place = <<>> \/ o.place = place}

\* The records a reader yields, object after object.
Records(place) ==
    LET listed == SetToSeq(List(place))
    IN  FlattenSeq([i \in DOMAIN listed |-> listed[i].items])

\* manifestPreflight, where the manifest is found: a dataset that declares no records is
\* refused.
Refused(place) == \E m \in manifests : m.place = place /\ m.items = <<>>

-----------------------------------------------------------------------------
(***************************************************************************)
(* Preshard.                                                               *)
(***************************************************************************)
ShardsOf(n) == 0 .. (n - 1)

\* Open lists the capture; one writer and one digest a slice.
PreshardOpen(n) ==
    /\ preshard.pc \in {"idle", "done", "failed"} /\ preshards < MaxPreshards
    /\ preshards' = preshards + 1
    /\ preshard' = [pc |-> "read", n |-> n, next |-> 0]
    /\ todo' = Records(<<>>)
    /\ writer' = [i \in ShardsOf(n) |-> NoWriter]
    /\ digest' = [i \in ShardsOf(n) |-> <<>>]
    /\ UNCHANGED <<today, objects, manifests>>

\* flushLocked of one writer.
Uploaded(w, i, store) ==
    Put(store, [place |-> <<i, preshard.n>>, day |-> today, seq |-> w.seq + 1, items |-> w.buffer])
Emptied(w) == [buffer |-> <<>>, seq |-> w.seq + 1]

\* A failure: closeWriters closes every writer, and a Close uploads what is buffered if it
\* can.
PreshardFail ==
    /\ preshard.pc = "read"
    /\ preshard' = [preshard EXCEPT !.pc = "failed"]
    /\ \E ok \in SUBSET {i \in DOMAIN writer : writer[i].buffer # <<>>} :
          objects' = {x \in objects : \A i \in ok :
                         <<x.place, x.day, x.seq>> # <<<<i, preshard.n>>, today, writer[i].seq + 1>>}
                     \cup {[place |-> <<i, preshard.n>>, day |-> today, seq |-> writer[i].seq + 1,
                            items |-> writer[i].buffer] : i \in ok}
    /\ UNCHANGED <<today, manifests, todo, writer, digest, preshards>>

\* One request: to the writer of its shard, and into its digest.
PreshardRead ==
    /\ preshard.pc = "read" /\ todo # <<>>
    /\ LET id == Head(todo)
           i == ShardIndexOf(id, preshard.n)
           w == [writer[i] EXCEPT !.buffer = Append(@, id)]
           full == Len(w.buffer) >= PreBatch
       IN  /\ writer' = [writer EXCEPT ![i] = IF full THEN Emptied(w) ELSE w]
           /\ objects' = IF full THEN Uploaded(w, i, objects) ELSE objects
           /\ digest' = [digest EXCEPT ![i] = Append(@, id)]
    /\ todo' = Tail(todo)
    /\ UNCHANGED <<today, manifests, preshard, preshards>>

PreshardSkipFlush ==            \* mutant: the last buffer of a slice is not flushed
    /\ preshard.pc = "read" /\ todo = <<>>
    /\ preshard' = [preshard EXCEPT !.pc = "manifests"]
    /\ UNCHANGED <<today, objects, manifests, todo, writer, digest, preshards>>

\* The end of the capture: the writers are flushed and closed one after the other.  An
\* error closes the others, which is PreshardFail.
PreshardFlush ==
    /\ preshard.pc = "read" /\ todo = <<>>
    /\ LET i == preshard.next IN
       /\ IF writer[i].buffer # <<>>
          THEN /\ objects' = Uploaded(writer[i], i, objects)
               /\ writer' = [writer EXCEPT ![i] = Emptied(writer[i])]
          ELSE UNCHANGED <<objects, writer>>
       /\ preshard' = IF i + 1 < preshard.n THEN [preshard EXCEPT !.next = i + 1]
                      ELSE [preshard EXCEPT !.pc = "manifests", !.next = 0]
    /\ UNCHANGED <<today, manifests, todo, digest, preshards>>

\* The manifests, after the data; a failing PutManifest ends the run.
PreshardManifest ==
    /\ preshard.pc = "manifests"
    /\ \/ LET i == preshard.next IN
          /\ manifests' = {m \in manifests : m.place # <<i, preshard.n>>}
                          \cup {[place |-> <<i, preshard.n>>, items |-> digest[i]]}
          /\ preshard' = IF i + 1 < preshard.n THEN [preshard EXCEPT !.next = i + 1]
                         ELSE [preshard EXCEPT !.pc = "done"]
       \/ manifests' = manifests /\ preshard' = [preshard EXCEPT !.pc = "failed"]
    /\ UNCHANGED <<today, objects, todo, writer, digest, preshards>>

\* The process is killed: what it buffered is lost.
PreshardKilled ==
    /\ preshard.pc \in {"read", "manifests"}
    /\ preshard' = [preshard EXCEPT !.pc = "failed"]
    /\ UNCHANGED <<today, objects, manifests, todo, writer, digest, preshards>>

Midnight ==
    /\ today < LastDay /\ today' = today + 1
    /\ UNCHANGED <<objects, manifests, preshard, todo, writer, digest, preshards>>

DatasetNext ==
    \/ \E n \in ShardCounts : PreshardOpen(n)
    \/ PreshardRead \/ PreshardFlush \/ PreshardManifest
    \/ PreshardFail \/ PreshardKilled \/ Midnight

-----------------------------------------------------------------------------
(***************************************************************************)
(* Properties.                                                             *)
(***************************************************************************)
Once(s) == \A i, j \in DOMAIN s : s[i] = s[j] => i = j
Places == {<<>>} \cup UNION {{<<i, n>> : i \in ShardsOf(n)} : n \in ShardCounts}

\* The type invariant of the store and of the preshard run.
DatasetTypeOK ==
    /\ today \in 0 .. LastDay /\ preshards \in 0 .. MaxPreshards
    /\ \A o \in objects : o.place \in Places /\ o.items # <<>> /\ Range(o.items) \subseteq Requests
    /\ \A m \in manifests : m.place \in Places \ {<<>>}
    /\ preshard.pc \in {"idle", "read", "manifests", "done", "failed"}
    /\ \A i \in DOMAIN writer : Len(writer[i].buffer) < PreBatch

\* Whatever runs were made, failed or repeated: a slice holds only requests that the worker
\* of that shard would keep when filtering, so no two workers of a split replay the same.
SlicesDisjoint ==
    \A o \in objects :
        o.place # <<>> => Range(o.items) \subseteq Slice(o.place[1], o.place[2])

\* After the first run of kapture-preshard, if it succeeded, a slice yields each request of
\* its shard once: replaying the slices replays what the filtering workers would, except
\* that the preflight refuses the slice of a shard that owns nothing.
PreshardExact ==
    preshard.pc = "done" /\ preshards = 1 =>
        \A i \in ShardsOf(preshard.n) :
            LET place == <<i, preshard.n>> IN
            /\ Once(Records(place)) /\ Range(Records(place)) = Slice(i, preshard.n)
            /\ Refused(place) <=> Slice(i, preshard.n) = {}

\* In a first run "a manifest's presence implies a complete slice": it is written after
\* every writer was closed, and its digest is that of the stored records.
ManifestMeansComplete ==
    preshards = 1 =>
        \A m \in manifests :
            /\ Range(Records(m.place)) = Range(m.items) /\ Once(Records(m.place))
            /\ Range(m.items) = Slice(m.place[1], m.place[2])

\* The slices are a partition of the capture as soon as their manifests say so, and no
\* repeated or failed run makes two of them overlap.
SlicesSound == SlicesDisjoint /\ PreshardExact /\ ManifestMeansComplete
=============================================================================
