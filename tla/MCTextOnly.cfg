\* One page, with and without OCR, through runs, cancels and closes.
SPECIFICATION SessionSpec
CONSTANTS
    txt = txt  rnd = rnd  ocr = ocr  aln = aln  o1 = o1
    Checks = {txt, rnd, ocr, aln}
    Capability <- MCCapability
    PageOf <- MCPageOf
    PlanIndex <- MCPlanIndex
    Plans <- BothPlans
    TextPlan <- WithoutOcr
    OcrPlan <- WithOcr
    CustomDependencies = {}
    Documents = {d1}  NoDoc = NoDoc  NoCheck = NoCheck
    Chunks <- SingleChunks
    Occurrences = {o1}
    ChunkBytes <- Lengths
    Slots = {"none"}
    ReportedStatuses = {"completed"}
    Reasons = {"model_missing", "worker_crash"}
    Resources <- MCResources
    MaxActiveRenders = 1  MaxOcrWorkers = 1
    MaxUnacked = 2  MaxLiveRasters = 1
    MaxOccurrencesPerCheck = 3  MaxOccurrencesPerRun = 1  MaxRawTextBytes = 9
    MaxTransientRetries = 1
    MaxStragglers = 1  MaxGeneration = 3  MaxSeq = 0
INVARIANT TextIsRead
CHECK_DEADLOCK FALSE
