\* Three creators of a baseline of two reports; a request of up to three chunks to the
\* comparator; up to three keys to compare; pages of up to five items; a worker that
\* floods, hangs and forks; two commands on one source, the second after a change.
SPECIFICATION NativeSpec
CONSTANTS
    Creators = {k1, k2, k3}  Keys = {1, 2}  NoBaseline = NoBaseline
    RunChoices <- MCRunChoices
    RequestChunks = {1, 2, 3}  MaxRequest = 2  MaxResponse = 2  MaxDiagnostic = 1  MaxStdin = 1
    PipeSize = 1
    CompareRequests <- MCCompareRequests
    NoReport = NoReport  NoRules = NoRules  Unstated = Unstated  Nowhere = Nowhere
    ReadingRequests <- MCReadingRequests
    MaxChars = 4  MaxWords = 3  OccurrenceChunk = 2  CharChunk = 2  PaddingMin = 1  MaxPixels = 24
    NoEnding = NoEnding
    MaxCapture = 2  WorkerPipe = 1  NoReply = NoReply
    WorkerReplies <- MCWorkerReplies
    InspectRequests <- MCInspectRequests
    ReplayRequests <- MCReplayRequests
    PairRequests <- MCPairRequests
    Disks <- MCDisks
    Source = "source"
    Contents <- MCContents
    MaxVersion = 2  MaxCommands = 2  MaxPagesAll = 2  MaxOcrPages = 2
INVARIANTS BaselinesAreWhole ProcessesAreClean ComparisonTellsAll ReadersKeepAll CommandsAreSound
PROPERTIES ProcessesEnd
\* Each part ends.
CHECK_DEADLOCK FALSE
