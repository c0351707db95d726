SPECIFICATION Spec
CHECK_DEADLOCK FALSE
CONSTANTS
    Parts = {"pipeline"}
    t1 = t1
    rt = rt
    s1 = s1
    s2 = s2
    c1 = c1
    p1 = p1
    Captures = {t1}
    Timed = {t1}
    Routes = {rt}
    TargetOf <- MCTarget
    Foreign = {t2}
    MaxCreates = 2
    MaxRules = 2
    MaxApiFaults = 1
    MaxEdits = 1
    MaxReplayCreates = 2
    MaxJobFaults = 1
    HubNames = {1, 2}
    HubSpecs <- MCHubSpecs
    MaxHubEdits = 2
    MaxHubFaults = 1
    FleetSpokes = {s1, s2}
    CellOf <- MCCellOf
    FleetCaptures = {c1}
    FleetReplays = {p1}
    HomeOf <- MCHomeOf
    MaxFleetFaults = 2
    MaxFleetClears = 1
    PluginNames = {0, 1, 2}
    Declared <- MCDeclared
    Configs = {"good", "bad"}
    Registrants = {t1, t2}
    MaxPipeline = 3
    Stages = 2
    PayloadWriters = {w1}
    PayloadClosers = {x1, x2}
    CaptureSpecs <- MCCaptureSpecs
    AgentRequests <- MCRequests
    Samples = {0, 49, 50}
    DefaultMaxBody = 3
INVARIANT CloseAfterProcess
