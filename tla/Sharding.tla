------------------------------- MODULE Sharding -------------------------------
(***************************************************************************)
(* How a capture is split among the workers that replay it.  One function  *)
(* decides for the in-process engine, the feeder of the plugin engines and *)
(* kapture-preshard.                                                       *)
(***************************************************************************)
EXTENDS Naturals, Sequences, Functions

CONSTANTS
    Capture,            \* the captured requests, in the order a reader yields them
    Hash,               \* the FNV-1a hash of each request's ID
    ShardIndex,         \* --shard-index of this worker
    ShardCount          \* --shard-count

Requests == Range(Capture)

ASSUME ShardingAssumption ==
    /\ Capture \in Seq(Requests)
    /\ \A i, j \in DOMAIN Capture : Capture[i] = Capture[j] => i = j
    /\ Hash \in [Requests -> Nat]
    /\ ShardCount \in Nat \ {0}
    /\ ShardIndex \in 0 .. (ShardCount - 1)

shardOf(id, count) == Hash[id] % count

\* A count of 1 or less means that the capture is not split.
ShardOwns(id, index, count) == count <= 1 \/ shardOf(id, count) = index
ShardIndexOf(id, count) == IF count <= 1 THEN 0 ELSE shardOf(id, count)

\* The requests of one shard.
Slice(index, count) == {id \in Requests : ShardOwns(id, index, count)}
Own == Slice(ShardIndex, ShardCount)
=============================================================================
