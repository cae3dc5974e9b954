\* A run, its resume, and the resume of that, of one job without any fault.
SPECIFICATION Spec
CONSTANTS
    j1 = j1  j2 = j2  j3 = j3
    Jobs = {j1}
    Produces = {j1}
    Forking = {}
    Plans <- OnePlan
    Slots = 1
    Retries = 1
    Contents = {v1, v2}
    None = None
    NoIndex = NoIndex
    Configs = {k1, k2}
    ChildFailures = {"exit"}
    KillCauses = {"wall"}
    RunDeadline = FALSE
    Faults = {}
    MaxRuns = 3
PROPERTIES
    SuccessfulStays
\* No further run is started after MaxRuns.
CHECK_DEADLOCK FALSE
