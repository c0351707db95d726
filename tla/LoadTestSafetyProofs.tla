------------------------- MODULE LoadTestSafetyProofs -------------------------
(***************************************************************************)
(* The theorems about LoadTestSystem, for any spokes, load tests, workers, *)
(* buffer sizes, bounds and events.  The lemmas are in                     *)
(* LoadTestTypeProofs, LoadTestPlacementProofs, LoadTestStopProofs and     *)
(* LoadTestLifecycleProofs; here are the facts about the constants they    *)
(* start from.                                                             *)
(***************************************************************************)
EXTENDS LoadTestTypeProofs, LoadTestStopProofs, LoadTestLifecycleProofs, FiniteSetTheorems,
        WellFoundedInduction

-----------------------------------------------------------------------------
\* A plan assigns shards of the load test to spokes.
LEMMA PlanType ==
  ASSUME NEW S \in SUBSET Spokes, NEW p \in planDistribution(S)
  PROVE  p \in Assignments /\ DOMAIN p = 0 .. Cardinality(S) * Workers - 1
<1>1. p \in [0 .. Cardinality(S) * Workers - 1 -> S]
  BY DEF planDistribution
<1>2. IsFiniteSet(S) /\ Cardinality(S) <= Cardinality(Spokes)
  BY SpokesAssumption, FS_Subset
<1>3. Cardinality(S) \in Nat /\ Cardinality(Spokes) \in Nat
  BY <1>2, SpokesAssumption, FS_CardinalityType
<1>4. Cardinality(S) * Workers <= Cardinality(Spokes) * Workers
  <2>1. \A a, b, w \in Nat : a <= b => a * w <= b * w
    OBVIOUS
  <2> QED
    BY <1>2, <1>3, <2>1, WorkersAssumption
<1>5. 0 .. Cardinality(S) * Workers - 1 \subseteq Shards
  BY <1>3, <1>4, WorkersAssumption, ShardCountAssumption
<1>6. p \in [0 .. Cardinality(S) * Workers - 1 -> Spokes]
  BY <1>1
<1> QED
  BY <1>5, <1>6, Zenon DEF Assignments

\* A pass sends to the shards, and to the spokes, in order.
LEMMA LeastNatural ==
  ASSUME NEW S \in SUBSET Nat, S # {}
  PROVE  \E i \in S : \A j \in S : i <= j
<1>1. PICK i \in S : \A j \in S : <<j, i>> \notin OpToRel(<, Nat)
  BY NatLessThanWellFounded, WFMin, Zenon
<1>2. \A j \in S : ~(j < i)
  BY <1>1, Zenon DEF OpToRel
<1> QED
  BY <1>2

\* The next shard to send a START for is one of those left.
LEMMA FirstType ==
  ASSUME NEW S \in SUBSET Shards, S # {}
  PROVE  First(S) \in S
  BY LeastNatural, ShardsAssumption, Zenon DEF First

\* The next spoke to send a STOP to is one of those left.
LEMMA FirstSpokeType ==
  ASSUME NEW S \in SUBSET Spokes, S # {}
  PROVE  FirstSpoke(S) \in S
<1> DEFINE R == {Rank[s] : s \in S}
<1>1. R \in SUBSET Nat /\ R # {}
  BY RankAssumption
<1>2. PICK r \in R : \A q \in R : r <= q
  BY <1>1, LeastNatural, Zenon
<1>3. \E s \in S : \A t \in S : Rank[s] <= Rank[t]
  BY <1>2
<1> QED
  BY <1>3 DEF FirstSpoke

\* A plan for some spokes has shards.
LEMMA PlanHasShards ==
  ASSUME NEW S \in SUBSET Spokes, S # {}, NEW p \in planDistribution(S)
  PROVE  DOMAIN p # {}
<1>1. DOMAIN p = 0 .. Cardinality(S) * Workers - 1
  BY DEF planDistribution
<1>2. IsFiniteSet(S)
  BY SpokesAssumption, FS_Subset
<1>3. Cardinality(S) \in Nat /\ Cardinality(S) # 0
  BY <1>2, FS_CardinalityType, FS_EmptySet
<1>4. Cardinality(S) * Workers \in Nat /\ Cardinality(S) * Workers >= 1
  <2>1. \A a, b \in Nat \ {0} : a * b \in Nat /\ a * b >= 1
    OBVIOUS
  <2> QED
    BY <1>3, <2>1, WorkersAssumption
<1>5. 0 \in DOMAIN p
  BY <1>1, <1>4
<1> QED
  BY <1>5

\* The counting argument: as many completed statuses as shards, each from the
\* spoke its shard is assigned to, are one for every shard.
LEMMA FullCount ==
  ASSUME NEW plan \in Assignments, NEW P \in SUBSET (Spokes \X Shards),
         Cardinality(P) = Cardinality(DOMAIN plan),
         \A p \in P : p[2] \in DOMAIN plan /\ plan[p[2]] = p[1]
  PROVE  \A i \in DOMAIN plan : \E p \in P : p[2] = i
<1> DEFINE T == DOMAIN plan
           f == [p \in P |-> p[2]]
<1>1. IsFiniteSet(T)
  <2>1. T \in SUBSET Shards
    BY DEF Assignments
  <2>2. IsFiniteSet(Shards)
    <3>1. Cardinality(Spokes) \in Nat
      BY SpokesAssumption, FS_CardinalityType
    <3>2. Cardinality(Spokes) * Workers - 1 \in Int
      BY <3>1, WorkersAssumption
    <3> QED
      BY <3>2, FS_Interval, ShardCountAssumption
  <2> QED
    BY <2>1, <2>2, FS_Subset, Zenon
<1>2. f \in Injection(P, T)
  <2>1. f \in [P -> T]
    BY Zenon
  <2>2. ASSUME NEW p \in P, NEW q \in P, f[p] = f[q]
        PROVE  p = q
    <3>1. p[2] = q[2]
      BY <2>2
    <3>2. plan[p[2]] = p[1] /\ plan[q[2]] = q[1]
      BY Zenon
    <3>3. p[1] = q[1]
      BY <3>1, <3>2, Zenon
    <3>4. p \in Spokes \X Shards /\ q \in Spokes \X Shards
      BY <2>2
    <3> QED
      BY <3>1, <3>3, <3>4
  <2> HIDE DEF f
  <2> QED
    BY <2>1, <2>2, Zenon DEF Injection, IsInjective
<1>3. f \in Surjection(P, T)
  BY <1>1, <1>2, FS_Injection, Zenon
<1> SUFFICES ASSUME NEW i \in T
             PROVE  \E p \in P : p[2] = i
  BY Zenon
<1>4. PICK p \in P : f[p] = i
  BY <1>3, Zenon DEF Surjection
<1>5. p[2] = i
  BY <1>4
<1> QED
  BY <1>5, Zenon

\* What the lemmas take for granted of the constants.
LEMMA ConstantFactsHold == ConstantFacts
  BY PlanType, FirstType, FirstSpokeType, Zenon DEF ConstantFacts

LEMMA PlanFactsHold == PlanFacts
  BY PlanHasShards, FullCount, Zenon DEF PlanFacts

-----------------------------------------------------------------------------
\* Every reachable state is well typed: no operation of the hub, the
\* controller or a spoke leaves its types, nor a channel its capacity.
THEOREM TypeCorrect == Spec => []TypeOK
<1>1. Init => TypeOK
  BY TypeInit, Zenon
<1>2. TypeOK /\ [Next]_vars => TypeOK'
  BY ConstantFactsHold, TypeStep, Zenon
<1> QED
  BY <1>1, <1>2, PTL DEF Spec

\* Queued STARTs, the cache and the pass in progress agree with the stored
\* plan of the run they belong to (Reconcile, "Plan the distribution once").
THEOREM PlacementInvariant == Spec => []Placement
<1>1. Init => Placement
  BY PlacementInit, Zenon
<1>2. TypeOK /\ Placement /\ [Next]_vars => Placement'
  BY ConstantFactsHold, PlacementStep, Zenon
<1> QED
  BY <1>1, <1>2, TypeCorrect, PTL DEF Spec

\* A shard of the current run exists only where status.assignments says.
THEOREM ShardPlacement == Spec => []ShardsRunWhereAssigned
<1>1. Placement => ShardsRunWhereAssigned
  BY DEF Placement, ReplaysPlaced, Placed, ShardsRunWhereAssigned
<1> QED
  BY <1>1, PlacementInvariant, PTL

\* A test that spec.safety denies never gets a START or a shard: every START
\* comes from a pass that went through the gate of Reconcile.
THEOREM DenialHolds == Spec => []DeniedTargetsNeverReplayed
<1>1. Init => Denials
  BY DenialsInit, Zenon
<1>2. TypeOK /\ Denials /\ [Next]_vars => Denials'
  BY ConstantFactsHold, DenialsStep, Zenon
<1>3. Denials => DeniedTargetsNeverReplayed
  BY Zenon DEF Denials
<1> QED
  BY <1>1, <1>2, <1>3, TypeCorrect, PTL DEF Spec

\* The invariant behind the next two theorems: what a sweep of stopAllShards
\* has achieved so far, and that its pass is of the current run.
THEOREM StopsInvariant ==
  ASSUME ~CacheLag
  PROVE  Spec => []Stops
<1>1. Init => Stops
  BY StopsInit, Zenon
<1>2. TypeOK /\ Placement /\ Stops /\ [Next]_vars => Stops'
  BY ConstantFactsHold, StopsStep, Zenon
<1> QED
  BY <1>1, <1>2, TypeCorrect, PlacementInvariant, PTL DEF Spec

\* A START of a run that is over has a STOP behind it in the same channel,
\* whatever restarts, crashes and losses there are, if passes read what the
\* last one wrote (Reconcile, stopAllShards).
THEOREM StopsFollow ==
  ASSUME ~CacheLag
  PROVE  Spec => []StopFollowsStart
<1>1. Stops => StopFollowsStart
  BY Zenon DEF Stops
<1> QED
  BY <1>1, StopsInvariant, PTL

\* While no directive is lost, a shard whose run is over is being deleted or
\* has a STOP on its way (stopAllShards, handleStop).
THEOREM NoOrphans ==
  ASSUME ~CacheLag
  PROVE  Spec => []NoOrphansWithoutLoss
<1>1. CASE Lossless
  <2>1. Init => Sweeps
    BY SweepsInit, Zenon
  <2>2. TypeOK /\ Placement /\ Stops /\ Sweeps /\ [Next]_vars => Sweeps'
    BY <1>1, ConstantFactsHold, SweepsStep, Zenon
  <2>3. Sweeps => NoOrphansWithoutLoss
    BY Zenon DEF Sweeps, NoOrphansWithoutLoss
  <2> QED
    BY <2>1, <2>2, <2>3, TypeCorrect, PlacementInvariant, StopsInvariant, PTL DEF Spec
<1>2. CASE ~Lossless
  <2>1. NoOrphansWithoutLoss
    BY <1>2, Zenon DEF Lossless, NoOrphansWithoutLoss
  <2> QED
    BY <2>1, PTL
<1> QED
  BY <1>1, <1>2

-----------------------------------------------------------------------------
\* The invariant behind the next two theorems: every status that aggregate
\* may come to count is of a run that was created, comes from the spoke its
\* plan names, and says Completed only if the shard ran.
THEOREM LifeInvariant == Spec => []Life
<1>1. Init => Life
  BY LifeInitHolds, Zenon
<1>2. TypeOK /\ TypeOK' /\ Placement /\ Life /\ [Next]_vars => Life'
  BY ConstantFactsHold, PlanFactsHold, ProvenanceStep, LifeStep, Zenon
<1> QED
  BY <1>1, <1>2, TypeCorrect, PlacementInvariant, PTL DEF Spec

\* A run that ended as Completed did complete, or counted what a shard of an
\* earlier run of the name completed, whatever statuses are lost, late or
\* repeated (aggregate, ReportReplayStatus, Heartbeat).
THEOREM CompletedHolds == Spec => []CompletedMeansDone
<1>1. Life => CompletedMeansDone
  BY Zenon DEF Life, StoredSound, Sound, AllRan, CompletedMeansDone
<1> QED
  BY <1>1, LifeInvariant, PTL

\* The stored CaptureLoadTests implement LoadTestLifecycle: every step of
\* users, passes, hub and spokes is one of its steps or shows nothing.
THEOREM LifecycleRefined == Spec => ImplementsLifecycle
<1>1. Init => Lifecycle!LifeInit
  BY LifecycleStart, Zenon
<1>2. TypeOK /\ TypeOK' /\ Placement /\ Life /\ [Next]_vars
        => [Lifecycle!LifeNext]_(Lifecycle!lifeVars)
  BY ConstantFactsHold, PlanFactsHold, ProvenanceStep, LifeStep, LifecycleStep, Zenon DEF Provenance
<1> QED
  BY <1>1, <1>2, TypeCorrect, PlacementInvariant, LifeInvariant, PTL
     DEF Spec, ImplementsLifecycle, Lifecycle!LifeSpec
=============================================================================
