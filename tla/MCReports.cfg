\* Ledgers of three checks; pages of up to four fragments a side; reports of three
\* pages with every way to ask for parts of them; two releases prepared, removed,
\* served, updated and evicted.
SPECIFICATION MCSpec
CONSTANTS
    c1 = c1  c2 = c2  c3 = c3
    Checks = {c1, c2, c3}
    Capability <- MCCapability
    PageOf <- MCPageOf
    PlanIndex <- MCPlanIndex
    MaxActiveRenders = 1  MaxOcrWorkers = 1
    Pages <- MCPages
    MaxComponentFragments = 3  GapTolerance = 3
    NotAligned = NotAligned  NoRegion = NoRegion  None = None
    Incompletes = {"failed", "timeout", "cancelled"}
    MaxAssetTotal = 11
    All = All  Cited = Cited  Carry = Carry  Original = Original  Foreign = Foreign
    Reports <- MCReports
    UserNotes <- MCUserNotes
    g1 = g1  g2 = g2  pa = pa  pb = pb  Null = Null
    Generations = {g1, g2}
    Paths = {pa, pb}
    PathsOf <- MCPathsOf
    MaxRequests = 3  MaxTasks = 2  MaxWorkers = 2
INVARIANTS LoopsMatchClosedForms MatchingIsSound ReportIsSound
    ProjectionIsSound ReexportKeeps DownloadIsChosen
    CopiesAreSound
PROPERTIES GoodGenerationKept
\* A report is assembled or projected once, no request comes after MaxRequests.
CHECK_DEADLOCK FALSE
