\* An import overtakes an open that then fails.
SPECIFICATION Spec
CONSTANTS
    p1 = p1  p2 = p2  r1 = r1  r2 = r2
    Pdfs = {p1, p2}
    Reports = {r1, r2}
    RecordedDoc <- MCRecordedDoc
    None = None
    MaxActions = 3
INVARIANTS StaleNeverReaches
CHECK_DEADLOCK FALSE
