\* Two PDFs and a report of one of them, offered, attached, run and closed in
\* any order across every await.
SPECIFICATION FairSpec
CONSTANTS
    p1 = p1  p2 = p2  r1 = r1  r2 = r2
    Pdfs = {p1, p2}
    Reports = {r1, r2}
    RecordedDoc <- MCRecordedDoc
    None = None
    MaxActions = 6
INVARIANTS ShownIsSound NobodyStranded
PROPERTIES GenerationFirst OfferEnds
\* No user acts after MaxActions.
CHECK_DEADLOCK FALSE
