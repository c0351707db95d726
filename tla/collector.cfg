SPECIFICATION Spec
CONSTANTS
  s1 = s1
  s2 = s2
  k1 = k1
  k2 = k2
  k3 = k3
  Spokes = {s1}
  Rank <- MCRank1
  CellOf <- MCCellOf
  LoadTests = {k1}
  Shards <- MCShards1
  Results <- MCNone
  BufferSize = 1
  NoSummary = NoSummary
  Workers = 1
  TestCells <- MCTestCells
  MaxSpokes = 0
  Denied = {}
  ErrorPercent = 100
  MinSample = 1
  CacheLag = FALSE
  Absent = Absent
  Idle = Idle
  NoReplay = NoReplay
  NoBeat = NoBeat
  Events = {"DeleteTest", "MaxDuration", "DelayHeartbeat", "Aging", "StaleSpoke"}
  MaxRuns = 2
  MaxFaults = 0
INVARIANT CompletedMeansDone
PROPERTY CollectorSparesLiveRuns
