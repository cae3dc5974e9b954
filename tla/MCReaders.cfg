\* Three overlapping OCR operations, three preparations of the model, two
\* extractions of one page.
SPECIFICATION ReadersSpec
CONSTANTS
    MaxRetries = 1  MaxRunPixels = 2  CropPixels = 1
    MaxOps = 3  MaxLeases = 2
    MaxPreparations = 3  MaxRemovals = 2
    Extractions = {x1, x2}  Pages = {p1}
    MaxOccurrencesPerCheck = 3  ChunkOccurrences = 2  MaxItems = 4
INVARIANTS OperationsKeepApart ModelStateIsTrue ExtractionIsAccounted
PROPERTIES OperationsEnd
CHECK_DEADLOCK FALSE
