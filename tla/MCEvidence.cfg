\* A text check streams chunks, crashes, is retried and rerun, with alignment
\* following; or two renders and an OCR check compete for one slot and one raster.
SPECIFICATION PartSpec
CONSTANTS
    txt = txt  rnd = rnd  rnd2 = rnd2  ocr = ocr  aln = aln
    o1 = o1  o2 = o2
    Checks = {txt, aln, rnd, rnd2, ocr}
    Capability <- MCCapability
    PageOf <- MCPageOf
    PlanIndex <- MCPlanIndex
    Plans <- AllPlans
    CustomDependencies = {}
    Documents = {d1}  NoDoc = NoDoc  NoCheck = NoCheck
    Chunks <- SingleChunks
    Occurrences = {o1, o2}
    ChunkBytes <- Lengths
    Slots = {"none", "pdf_bytes", "raster_rgba"}
    ReportedStatuses = {"completed"}
    Reasons = {"corrupt", "worker_crash"}
    Resources = {}
    MaxActiveRenders = 1  MaxOcrWorkers = 1
    MaxUnacked = 1  MaxLiveRasters = 1
    MaxOccurrencesPerCheck = 2  MaxOccurrencesPerRun = 3  MaxRawTextBytes = 9
    MaxTransientRetries = 1
    MaxGeneration = 2  MaxSeq = 1
INVARIANTS MessagesAccounted SlotsAreUsed
PROPERTIES EvidenceIsFinal
CHECK_DEADLOCK FALSE
