----------------------------- MODULE ExportPanel -----------------------------
(***************************************************************************)
(* The export panel of the workspace: ExportController, the component that  *)
(* makes a new one whenever its source object is rebuilt, and the notes     *)
(* that rebuild it. What may be downloaded is always `exported`.            *)
(***************************************************************************)
EXTENDS ReportExport

CONSTANTS
    Reports,      \* the reports that may be open
    UserNotes     \* the notes the user may write, functions from one identifier

---------------------------------------------------------------------------
(* What the code is given *)

CheckStatuses == {"completed", "failed", "timeout", "cancelled", "skipped"}

Assets(pages, transforms) ==
    [purpose : {"crop", "page_render", "source_pdf"}, usable : BOOLEAN, bound : BOOLEAN,
     size : Nat, page : pages \cup {None}, transforms : SUBSET transforms]

\* The schema of a report, as far as a projection reads it.
IsReport(r) ==
    /\ DOMAIN r = {"pages", "selected", "readers", "transforms", "regions", "plan", "checks",
                   "occurrences", "findings", "notes", "assets", "source", "length", "filename",
                   "status", "mode", "replay", "included"}
    /\ \A c \in Ids(r.checks) :
            r.checks[c] \in [status : CheckStatuses, reason : BOOLEAN, produced : Nat,
                             retained : Seq(Ids(r.occurrences))]
    /\ \A o \in Ids(r.occurrences) :
            r.occurrences[o] \in [reader : r.readers, page : r.pages, asset : Ids(r.assets) \cup {None},
                                  polygon : BOOLEAN, transforms : SUBSET Ids(r.transforms)]
    /\ IsFiniteSet(Ids(r.assets))
    /\ \A a \in Ids(r.assets) : r.assets[a] \in Assets(r.pages, Ids(r.transforms))
    /\ r.length \in Nat /\ r.filename \in BOOLEAN

WithBytes(r) ==
    [r EXCEPT !.assets = [a \in DOMAIN @ |-> [@[a] EXCEPT !.usable = TRUE]]]

\* A report that is open was validated, and its images' bytes may be gone since.
ReportsAssumption == \A r \in Reports : IsReport(r) /\ Valid(WithBytes(r))

ASSUME ReportsAssumption

\* The words of a selection are no lists of a report's identifiers, and the null
\* of the JSON is no error, no asset and no identifier of one.
WordsFit(r) ==
    /\ \A ids \in SUBSET Ids(r.findings) : ids # All /\ ids # None
    /\ None \notin Assets(r.pages, Ids(r.transforms))
    /\ None \notin Ids(r.assets) \cup {"a_source"}

WordsAssumption ==
    /\ All # None /\ None # "invalid"
    /\ Carry \notin {None, Original, Foreign} /\ None \notin {Original, Foreign}
    /\ \A r \in Reports : WordsFit(r)

ASSUME WordsAssumption

ASSUME SizesAssumption == MaxAssetTotal \in Nat

---------------------------------------------------------------------------
(* The panel *)

VARIABLES
    sealedReport, \* the open report
    userNotes,    \* notes written since it is open, outside the report
    retained,     \* whether the session holds the original's bytes
    request,      \* the request of the controller
    exported,     \* its projection, or None
    wishes        \* what the user clicked since the report is open

panelVars == <<sealedReport, userNotes, retained, request, exported, wishes>>

DefaultRequest ==
    [findings |-> All, occurrences |-> Cited, crops |-> All, renders |-> None,
     annotations |-> FALSE, filename |-> FALSE, source |-> None]

NoWishes == [annotations |-> FALSE, filename |-> FALSE, renders |-> FALSE,
             source |-> FALSE, deselected |-> {}]

\* The notes of both.
Joined(notes, more) ==
    [n \in DOMAIN notes \cup DOMAIN more |-> IF n \in DOMAIN notes THEN notes[n] ELSE more[n]]

\* Human notes are added to a projection only, never to the report.
Source(report, notes) == [report EXCEPT !.notes = Joined(@, notes)]

\* The original's bytes are pulled when the projection is computed.
Resolved(req, bytes) ==
    IF req.source = Carry /\ bytes THEN [req EXCEPT !.source = Original] ELSE req

Recompute(report, notes, bytes, req) ==
    ProjectReport(Source(report, notes), Resolved(req, bytes))

\* Mutant: a new controller starts from the defaults.
RestoreDefaults(report, notes, req) == DefaultRequest

\* A new controller of the same sealed report takes over what is still offered.
RestoreRequest(report, notes, req) ==
    LET src == Source(report, notes)
        known == IF req.findings = All THEN Ids(src.findings)
                 ELSE req.findings \cap Ids(src.findings)
    IN  [req EXCEPT
            !.findings = IF known = Ids(src.findings) THEN All ELSE known,
            !.annotations = @ /\ Ids(src.notes) # {},
            !.filename = @ /\ src.filename,
            !.renders = IF OfPurpose(src, "page_render") = {} THEN None ELSE @]

PanelInit ==
    /\ sealedReport \in Reports /\ userNotes = <<>> /\ retained \in BOOLEAN
    /\ request = DefaultRequest /\ wishes = NoWishes
    /\ exported = Recompute(sealedReport, userNotes, retained, request)

\* setOption and setFindingSelection: a new request, a new projection.
Ask(req, wish) ==
    /\ request' = req /\ wishes' = wish
    /\ exported' = Recompute(sealedReport, userNotes, retained, req)
    /\ UNCHANGED <<sealedReport, userNotes, retained>>

SetNotes(on) ==
    /\ Ids(Source(sealedReport, userNotes).notes) # {}
    /\ Ask([request EXCEPT !.annotations = on], [wishes EXCEPT !.annotations = on])

SetFilename(on) ==
    /\ sealedReport.filename
    /\ Ask([request EXCEPT !.filename = on], [wishes EXCEPT !.filename = on])

SetPageRenders(on) ==
    /\ OfPurpose(sealedReport, "page_render") # {}
    /\ Ask([request EXCEPT !.renders = IF on THEN All ELSE None], [wishes EXCEPT !.renders = on])

SetSourcePdfWanted(on) ==
    Ask([request EXCEPT !.source = IF on THEN Carry ELSE None], [wishes EXCEPT !.source = on])

ToggleFinding(f) ==
    LET known == Ids(sealedReport.findings)
        selected == IF request.findings = All THEN known ELSE request.findings
        next == IF f \in selected THEN selected \ {f} ELSE selected \cup {f}
    IN  Ask([request EXCEPT !.findings = IF next = known THEN All ELSE next],
            [wishes EXCEPT !.deselected = known \ next])

\* The source object changed, the sealed report did not.
Rebuilt(notes, bytes) ==
    LET req == RestoreRequest(sealedReport, notes, request)
    IN  /\ userNotes' = notes /\ retained' = bytes /\ request' = req
        /\ exported' = Recompute(sealedReport, notes, bytes, req)
        /\ UNCHANGED <<sealedReport, wishes>>

\* A note is about a page of the open report, or a finding and its page.
AddNote(note) ==
    /\ NotesAgree([sealedReport EXCEPT !.notes = note])
    /\ DOMAIN note \cap DOMAIN Source(sealedReport, userNotes).notes = {}
    /\ Rebuilt(Joined(userNotes, note), retained)

RemoveNote(n) == Rebuilt(Restrict(userNotes, DOMAIN userNotes \ {n}), retained)

\* The session retains or drops the bytes: with notes every render of the
\* workspace rebuilds the source object, without them the projection stays.
RetainSource ==
    IF userNotes = <<>> THEN /\ retained' = ~retained
                             /\ UNCHANGED <<sealedReport, userNotes, request, exported, wishes>>
    ELSE Rebuilt(userNotes, ~retained)

\* Another report: a new panel, and notes that are not its own are discarded.
OpenReport(report) ==
    /\ report # sealedReport
    /\ sealedReport' = report /\ userNotes' = <<>> /\ retained' = FALSE
    /\ request' = DefaultRequest /\ wishes' = NoWishes
    /\ exported' = Recompute(report, <<>>, FALSE, DefaultRequest)

PanelNext ==
    \/ \E on \in BOOLEAN : \/ SetNotes(on) \/ SetFilename(on)
                           \/ SetPageRenders(on) \/ SetSourcePdfWanted(on)
    \/ \E f \in Ids(sealedReport.findings) : ToggleFinding(f)
    \/ \E note \in UserNotes : AddNote(note)
    \/ \E n \in DOMAIN userNotes : RemoveNote(n)
    \/ RetainSource
    \/ \E report \in Reports : OpenReport(report)

PanelSpec == PanelInit /\ [][PanelNext]_panelVars

---------------------------------------------------------------------------
(* Properties *)

\* A report that satisfies the contract never becomes an export that does not,
\* whatever is left out of it, unless its images and the original together are
\* too large for one file, or one of them has the name of the other.
ProjectionIsValid ==
    exported # None /\ exported.error = "invalid" =>
        LET src == Source(sealedReport, userNotes)
        IN  \E bytes \in BOOLEAN :
                \/ SizeOf(Projected(src, Resolved(request, bytes))) > MaxAssetTotal
                \/ Clashes(src, Resolved(request, bytes))

\* What the report has and the export has not is disclosed with the export:
\* findings, readings, images, notes as a whole, the name, the original and the
\* links of readings to their rasters.
DropsAreTold ==
    exported # None /\ exported.report # None =>
        LET src == Source(sealedReport, userNotes)
            r == exported.report
            told(lines) == exported.omissions \cap lines # {}
            gone(purpose) ==
                {a \in OfPurpose(src, purpose) \ Ids(r.assets) : src.assets[a].usable}
        IN  /\ Ids(src.findings) # Ids(r.findings) =>
                    told({"findings deselected", "findings unsupported"})
            /\ Ids(src.occurrences) # Ids(r.occurrences) => told({"occurrences"})
            /\ Ids(src.notes) # {} /\ Ids(r.notes) = {} => told({"notes"})
            /\ src.filename # r.filename => told({"filename"})
            /\ r.source = None => told({"source"})
            /\ request.source = Carry /\ r.source = None => told({"source missing"})
            /\ gone("crop") # {} => told({"crops"})
            /\ gone("page_render") # {} => told({"page renders"})
            /\ (\E a \in Ids(src.assets) : ~src.assets[a].usable) => told({"missing bytes"})
            /\ (\E o \in Ids(r.occurrences) : src.occurrences[o].asset # r.occurrences[o].asset) =>
                    told({"unlinked"})

\* What is left out of a report leaves it valid, and is told.
ProjectionIsSound == ProjectionIsValid /\ DropsAreTold

\* A projection is what its own request makes of it: exporting an opened export
\* again with the same choices of the panel loses nothing and adds nothing.
ReexportKeeps ==
    exported # None /\ exported.report # None /\ request.occurrences = Cited
        /\ request.crops = All /\ request.renders \in {All, None} =>
        ProjectReport(exported.report, request).report = exported.report

\* "Resetting to all findings here would silently ship evidence they had
\* excluded": through every rebuild of the source, what can be downloaded has no
\* finding the user deselected, no note, name, original or page image not asked
\* for, and every finding that was not deselected.
DownloadIsChosen ==
    wishes # None /\ exported.report # None =>
        LET r == exported.report
        IN  /\ Ids(r.findings) = Ids(sealedReport.findings) \ wishes.deselected
            /\ Ids(r.notes) # {} => wishes.annotations
            /\ r.filename => wishes.filename
            /\ r.source # None => wishes.source
            /\ \A a \in OfPurpose(r, "page_render") :
                    wishes.renders \/ \E o \in Ids(r.occurrences) : r.occurrences[o].asset = a
=============================================================================
