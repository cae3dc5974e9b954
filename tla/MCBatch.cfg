\* Three jobs on two slots with a run deadline and cancel; children need not end.
SPECIFICATION FairSpec
CONSTANTS
    j1 = j1  j2 = j2  j3 = j3
    Jobs = {j1, j2, j3}
    Produces = {j1, j2}
    Forking = {j1}
    Plans <- ThreePlan
    Slots = 2
    Retries = 1
    Contents = {v1}
    None = None
    NoIndex = NoIndex
    Configs = {k1}
    ChildFailures = {"exit"}
    KillCauses = {"wall"}
    RunDeadline = TRUE
    Faults = {}
    MaxRuns = 1
INVARIANTS
    RetriesBounded
    NothingLeftRunning IndexCoversPlan
PROPERTIES
    RunReturns
\* No further run is started after MaxRuns.
CHECK_DEADLOCK FALSE
