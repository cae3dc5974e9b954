\* A render, OCR, alignment chain through two runs, a cancel and clears; no
\* worker need ever answer.
SPECIFICATION FairSpec
CONSTANTS
    txt = txt  rnd = rnd  rnd2 = rnd2  ocr = ocr  aln = aln
    o1 = o1  o2 = o2
    Checks = {rnd, ocr, aln}
    Capability <- MCCapability
    PageOf <- MCPageOf
    PlanIndex <- MCPlanIndex
    Plans <- WholePlan
    CustomDependencies <- CyclicMap
    Documents = {d1}  NoDoc = NoDoc  NoCheck = NoCheck
    Chunks <- NoChunks
    Occurrences = {o1, o2}
    ChunkBytes <- Lengths
    Slots = {"none"}
    ReportedStatuses = {"completed", "unsupported"}
    Reasons = {"worker_crash"}
    Resources = {r1}
    MaxActiveRenders = 1  MaxOcrWorkers = 1
    MaxUnacked = 2  MaxLiveRasters = 1
    MaxOccurrencesPerCheck = 3  MaxOccurrencesPerRun = 4  MaxRawTextBytes = 9
    MaxTransientRetries = 1
    MaxGeneration = 3  MaxSeq = 0
INVARIANTS TypeOK EveryJobWatched SettledIsQuiet NothingLeaks
PROPERTIES RunSettles GenerationFirst
CHECK_DEADLOCK FALSE
