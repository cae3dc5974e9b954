--------------------------- MODULE ReportAssembly ---------------------------
(***************************************************************************)
(* What a settled run of the web workspace becomes: deriveFindings and      *)
(* assembleReport over one selected page of a document of two, in the two   *)
(* steps of session.ts: the alignment check compares what the readers kept, *)
(* then, in the notification that the run is over, the report is assembled  *)
(* and validated.                                                           *)
(***************************************************************************)
EXTENDS Alignment, ReportContract

CONSTANT
    Incompletes     \* how a check may end without completing

VARIABLES
    ended,      \* [status: check -> terminal status, kept: reader check -> BOOLEAN,
                \*  stored: the transforms of OCR's crop are stored]
    report,     \* the assembled report, or None
    error       \* "its report could not be assembled" is shown

assemblyVars == <<ended, report, error>>

Planned == DOMAIN ended.status
Sides == [text |-> "left", ocr |-> "right"]
ReaderOf == [left |-> "pdfjs-text", right |-> "tesseract"]

\* How a run that was not cancelled may have ended: OCR needs the page's render,
\* alignment both readings. The run's deadline ends a check and what waits for it.
Statuses(checks) ==
    LET needs == [ocr |-> {"render"}, align |-> checks \cap {"text", "ocr"},
                  text |-> {}, render |-> {}]
        unmet(s, c) == {s[d] : d \in needs[c]} \ {"completed"}
    IN  {s \in [checks -> Incompletes \cup {"completed", "skipped"}] :
            \A c \in checks :
                \/ unmet(s, c) = {} /\ s[c] # "skipped"
                \/ unmet(s, c) # {} /\ s[c] = "skipped"
                \/ unmet(s, c) = {"timeout"} /\ s[c] = "timeout"}

\* A check that did not complete may keep what it had streamed.  OCR streams at
\* once when it is done, so it keeps nothing then, unless a chunk exceeds what is
\* left of the run's budget: the check fails and keeps the chunks before it.
MayKeep(check, status) ==
    CASE status = "completed" -> {TRUE}
      [] status = "skipped" -> {FALSE}
      [] OTHER -> IF check = "ocr" /\ status # "failed" THEN {FALSE} ELSE BOOLEAN

\* The session stores the crop's transforms when extract returns: before a check
\* that completes, and otherwise after the check has ended, if the run has not.
MayStore(s) ==
    IF "ocr" \notin DOMAIN s THEN {FALSE}
    ELSE CASE s["ocr"] = "completed" -> {TRUE}
           [] s["ocr"] = "skipped" -> {FALSE}
           [] OTHER -> BOOLEAN

EndingsOf(s) ==
    {[status |-> s, kept |-> k, stored |-> b] :
        k \in {f \in [DOMAIN s \cap {"text", "ocr"} -> BOOLEAN] :
                    \A c \in DOMAIN f : f[c] \in MayKeep(c, s[c])},
        b \in MayStore(s)}

Endings ==
    UNION {UNION {EndingsOf(s) : s \in Statuses(checks)} :
            checks \in {{"text", "align"}, {"text", "render", "ocr", "align"}}}

\* Each check reads its own page only.
AssemblyInit == /\ AlignInit /\ ended \in Endings /\ report = None /\ error = FALSE
                /\ "ocr" \in Planned \/ page.right = <<>>

---------------------------------------------------------------------------
(* deriveFindings *)

\* Occurrences are identified by their side and position.
Retained(check) ==
    IF check \in Planned /\ ended.kept[check]
        THEN {<<Sides[check], i>> : i \in DOMAIN page[Sides[check]]} ELSE {}

Members(pair) == {<<"left", i>> : i \in pair.left} \cup {<<"right", i>> : i \in pair.right}

Localized(occurrences) == \A o \in occurrences : page[o[1]][o[2]].geometry # "page_only"

\* The normalized text of a group, in order of emission.
GroupText(side, group) ==
    LET emitted == Ordered(group, {p \in group \X group : page[side][p[1]].ordinal < page[side][p[2]].ordinal})
    IN  FlattenSeq([k \in DOMAIN emitted |-> page[side][emitted[k]].text])

SameText(left, right) == GroupText("left", left) = GroupText("right", right)

RegionId == IF page.region = NoRegion THEN None ELSE "region"

Finding(kind, occurrences, checks, alignment, region) ==
    [kind |-> kind, page |-> 0, occurrences |-> occurrences, checks |-> checks,
     alignment |-> alignment, region |-> region]

\* Mutant: unique inside a selected region.
PlacedAnywhere(kind, occurrences, checks) ==
    IF RegionId # None THEN Finding(kind, occurrences, checks, "unique", RegionId)
                       ELSE Finding(kind, occurrences, checks, "page_level", None)

\* Unique only inside a selected region and between polygons.
Placed(kind, occurrences, checks) ==
    IF RegionId # None /\ Localized(occurrences)
        THEN Finding(kind, occurrences, checks, "unique", RegionId)
        ELSE Finding(kind, occurrences, checks, "page_level", None)

\* Every check that did not complete stays visible.
IncompleteFindings ==
    {Finding("incomplete_check", IF c \in {"text", "ocr"} THEN Retained(c) ELSE {}, {c},
             "not_applicable", IF c \in {"ocr", "align"} THEN RegionId ELSE None) :
        c \in {d \in Planned : ended.status[d] # "completed"}}

\* Without a comparison the reading of one side alone is still reported.
OneSidedFindings ==
    LET alone(c, other, kind) ==
            IF /\ c \in Planned /\ ended.status[c] = "completed"
               /\ Retained(other) = {} /\ Retained(c) # {}
            THEN {IF c = "ocr" THEN Placed(kind, Retained(c), {c})
                               ELSE Finding(kind, Retained(c), {c}, "page_level", None)}
            ELSE {}
    IN  alone("text", "ocr", "observed_structure") \cup alone("ocr", "text", "ocr_interpretation")

Compared == {"text", "ocr"} \cap Planned

MatchFindings ==
    {Placed("reading_difference", Members(p), Compared) :
        p \in {q \in aligned.matches : ~SameText(q.left, q.right)}}

OrderFindings ==
    {Finding("observed_structure", Members(p), Compared, "not_applicable", RegionId) :
        p \in {q \in aligned.orderDifferences : SameText(q.left, q.right)}}

\* Mutant: an ambiguous unit names itself only.
AmbiguousUnits ==
    {Finding("reading_difference", Members(e.unit), Compared, "ambiguous", RegionId) :
        e \in aligned.ambiguous}

\* An ambiguous unit names every candidate that was evaluated.
AmbiguousFindings ==
    {Finding("reading_difference", Members(e.unit) \cup UNION {Members(q) : q \in e.candidates},
             Compared, "ambiguous", RegionId) : e \in aligned.ambiguous}

AbstentionFindings ==
    {Finding("incomplete_check",
             {<<"left", i>> : i \in Range(b.order.left)} \cup {<<"right", i>> : i \in Range(b.order.right)},
             Compared, "not_applicable", RegionId) :
        b \in {c \in Blocks : TooLarge(c)}}

OfStatus(check, status) ==
    {o \in Retained(check) : aligned.status[o[1]][o[2]] = status}

UnmatchedFindings ==
    {Finding(IF c = "text" THEN "observed_structure" ELSE "ocr_interpretation",
             OfStatus(c, "unmatched"), {c}, "unmatched",
             IF Localized(OfStatus(c, "unmatched")) THEN RegionId ELSE None) :
        c \in {d \in Compared : OfStatus(d, "unmatched") # {}}}

\* Readings without a place are compared as whole texts.
PageLevelFindings ==
    LET left == OfStatus("text", "page_level")
        right == OfStatus("ocr", "page_level")
        places(occurrences) == {o[2] : o \in occurrences}
    IN  IF left # {} /\ right # {} /\ ~SameText(places(left), places(right))
        THEN {Finding("reading_difference", left \cup right, Compared, "page_level", None)}
        ELSE {}

DeriveFindings ==
    IncompleteFindings \cup
    (IF ended.status.align # "completed" THEN OneSidedFindings
     ELSE MatchFindings \cup OrderFindings \cup AmbiguousFindings \cup AbstentionFindings
            \cup UnmatchedFindings \cup PageLevelFindings)

---------------------------------------------------------------------------
(* assembleReport *)

\* A cancelled run is not assembled.
RunStatus ==
    LET statuses == Range(ended.status)
    IN  CASE statuses = {"completed"} -> "complete"
          [] "completed" \notin statuses /\ statuses \cap {"failed", "timeout"} # {} -> "failed"
          [] OTHER -> "partial"

\* Its own transform for every page, the raster scale of a render; what OCR read
\* cites a crop's transform too.
KnownTransforms ==
    [t \in {<<"page", 0>>, <<"page", 1>>}
            \cup {<<"raster", 0>> : c \in {d \in Planned : d = "render" /\ ended.status[d] = "completed"}}
            \cup (IF ended.stored THEN {<<"crop", 0>>} ELSE {}) |-> t[2]]

CitedBy(side) == IF side = "left" THEN {<<"page", 0>>}
                 ELSE {<<"page", 0>>, <<"raster", 0>>, <<"crop", 0>>}

PlanOf(check) ==
    [page |-> 0, region |-> IF check \in {"ocr", "align"} THEN RegionId ELSE None,
     readers |-> CASE check = "text" -> {"pdfjs-text"}
                   [] check = "render" -> {"pdfjs-render"}
                   [] check = "ocr" -> {"tesseract"}
                   [] check = "align" -> {ReaderOf[Sides[c]] : c \in Compared}]

ResultOf(check) ==
    LET kept == IF check \in {"text", "ocr"} THEN Retained(check) ELSE {}
    IN  [status |-> ended.status[check], reason |-> ended.status[check] # "completed",
         produced |-> Cardinality(kept), retained |-> SetToSeq(kept)]

AssembledReport ==
    LET findings == DeriveFindings
    IN  [pages |-> {0, 1}, selected |-> {0},
         readers |-> {"pdfjs-text", "pdfjs-render"}
                        \cup (IF "ocr" \in Planned THEN {"tesseract"} ELSE {}),
         transforms |-> KnownTransforms,
         regions |-> [g \in {RegionId} \ {None} |-> [page |-> 0, transforms |-> {<<"page", 0>>}]],
         plan |-> [c \in Planned |-> PlanOf(c)],
         checks |-> [c \in Planned |-> ResultOf(c)],
         occurrences |-> [o \in Retained("text") \cup Retained("ocr") |->
                            [reader |-> ReaderOf[o[1]], page |-> 0, asset |-> None,
                             polygon |-> page[o[1]][o[2]].geometry # "page_only",
                             transforms |-> CitedBy(o[1])]],
         findings |-> [f \in findings |-> f],
         notes |-> <<>>, assets |-> <<>>, source |-> None, filename |-> TRUE,
         status |-> RunStatus, mode |-> "evidence", replay |-> "requires_original",
         included |-> {"selected_text", "document_hash", "filename", "settings", "coverage"}]

\* runAlignmentCheck compares what the two checks of the page keep.
AlignCheck ==
    /\ ended.status.align = "completed" /\ aligned = NotAligned
    /\ aligned' = AlignPage
    /\ UNCHANGED <<page, assemblyVars>>

\* assembleRunReport: a report that does not validate is an error message.
AssembleRunReport ==
    /\ report = None /\ ~error
    /\ ended.status.align = "completed" => aligned # NotAligned
    /\ \/ Valid(AssembledReport) /\ report' = AssembledReport /\ UNCHANGED error
       \/ ~Valid(AssembledReport) /\ error' = TRUE /\ UNCHANGED report
    /\ UNCHANGED <<alignVars, ended>>

AssemblyNext == AlignCheck \/ AssembleRunReport

AssemblySpec == AssemblyInit /\ [][AssemblyNext]_<<alignVars, assemblyVars>>

---------------------------------------------------------------------------
(* Properties *)

\* OCR exceeded the run's budget, and its extract had not returned.
CropIsUnknown == Retained("ocr") # {} /\ ~ended.stored

\* "Every check result, occurrence, and finding on the record" forms a report
\* the contract accepts, and it never ends in an error in place of its report,
\* however the run ended; except that the readings of an OCR check that exceeded
\* the budget cost the run its whole report when nothing kept the run waiting
\* until extract had returned.
RefusedForCropOnly ==
    /\ error => CropIsUnknown
    /\ report # None => Valid(report) /\ ~CropIsUnknown

\* Readings without a place, compared as whole texts, are silent when one side
\* has none or both agree.
PageLevelIsSilent ==
    LET places(c) == {o[2] : o \in OfStatus(c, "page_level")}
    IN  places("text") = {} \/ places("ocr") = {} \/ SameText(places("text"), places("ocr"))

\* Nothing the readers kept disappears without a trace between alignment and the
\* findings: a reading is named by a finding, agrees with the reading it is
\* matched with, lies outside the selected place, or has no place itself and
\* agrees with the other reader's, who may have none.
EveryReadingReported ==
    report # None /\ ended.status.align = "completed" =>
        \A o \in Ids(report.occurrences) :
            LET class == Classify(page[o[1]][o[2]])
            IN  \/ class = "out_of_scope"
                \/ class = "page_level" /\ PageLevelIsSilent
                \/ \E f \in Ids(report.findings) : o \in report.findings[f].occurrences
                \/ \E p \in aligned.matches : o \in Members(p) /\ SameText(p.left, p.right)

\* A run has a report the contract accepts, save in one ending, and it tells
\* every reading the run kept of the selected place.
ReportIsSound == RefusedForCropOnly /\ EveryReadingReported
=============================================================================
