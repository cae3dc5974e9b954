---------------------------- MODULE ReportExport ----------------------------
(***************************************************************************)
(* projectReport of packages/reports/export/selection.ts: from a recorded   *)
(* report and an inclusion request, the report that leaves the machine.     *)
(***************************************************************************)
EXTENDS ReportContract

CONSTANTS
    All, Cited,         \* "all" and "cited" of a selection; None is "none" and null
    Carry, Original,    \* sourcePdf: "carry", or bytes that are the document's
    Foreign             \* sourcePdf: bytes that are not

\* An unknown identifier in an explicit list is refused.
Resolves(selection, known) == selection \in {All, None} \/ selection \subseteq known
ResolveIds(selection, known) ==
    IF selection = All THEN known ELSE IF selection = None THEN {} ELSE selection

OfPurpose(src, purpose) == {a \in Ids(src.assets) : src.assets[a].purpose = purpose}
Usable(src) == {a \in Ids(src.assets) : src.assets[a].usable}

\* An embedded original whose bytes are there.
Carried(src) == OfPurpose(src, "source_pdf") \cap Usable(src)

\* The original as it is exported, or None, and its identifier.
SourceAsset(src, request) ==
    IF request.source = Original
        THEN [purpose |-> "source_pdf", usable |-> TRUE, bound |-> TRUE,
              size |-> src.length, page |-> None, transforms |-> {}]
    ELSE IF request.source = Carry /\ Carried(src) # {}
        THEN src.assets[CHOOSE a \in Carried(src) : TRUE]
    ELSE None

SourceId(src, request) ==
    IF request.source = Original THEN "a_source" ELSE CHOOSE a \in Carried(src) : TRUE

\* Readings missing for a request are named by their missing original.
SourceMissing(src, request) == request.source = Carry /\ SourceAsset(src, request) = None

Refused(src, request) ==
    \/ request.source = Foreign
    \/ /\ SourceAsset(src, request) # None
       /\ ~SourceAsset(src, request).bound \/ SourceAsset(src, request).size > MaxAssetTotal
    \/ ~Resolves(request.findings, Ids(src.findings))
    \/ request.occurrences # Cited /\ ~Resolves(request.occurrences, Ids(src.occurrences))
    \/ ~Resolves(request.crops, OfPurpose(src, "crop"))
    \/ ~Resolves(request.renders, OfPurpose(src, "page_render"))

Chosen(src, request) == ResolveIds(request.findings, Ids(src.findings))

\* What chosen findings cite comes along, unless no reading is wanted.
KeptOccurrences(src, request) ==
    LET cited == UNION {src.findings[f].occurrences : f \in Chosen(src, request)}
    IN  IF request.occurrences = Cited THEN cited
        ELSE IF request.occurrences \in {All, None}
            THEN ResolveIds(request.occurrences, Ids(src.occurrences))
        ELSE request.occurrences \cup cited

\* A finding whose readings are not all kept stays out.
Supported(src, request) ==
    {f \in Chosen(src, request) : src.findings[f].occurrences \subseteq KeptOccurrences(src, request)}

KeptNotes(src, request) ==
    IF request.annotations
        THEN {n \in Ids(src.notes) : src.notes[n].finding \in Supported(src, request) \cup {None}}
        ELSE {}

KeptRegions(src, request) ==
    Ids(src.regions) \cap ({src.plan[c].region : c \in Ids(src.plan)}
                            \cup {src.findings[f].region : f \in Supported(src, request)})

\* Mutant: regions keep their pages before they are pruned.
EvidencePagesUnpruned(src, request) ==
    src.selected
        \cup {src.occurrences[o].page : o \in KeptOccurrences(src, request)}
        \cup {src.findings[f].page : f \in Supported(src, request)}
        \cup {src.notes[n].page : n \in KeptNotes(src, request)}
        \cup {src.regions[g].page : g \in Ids(src.regions)}

\* Pages in the scope of the run or shown by what is kept.
EvidencePages(src, request) ==
    src.selected
        \cup {src.occurrences[o].page : o \in KeptOccurrences(src, request)}
        \cup {src.findings[f].page : f \in Supported(src, request)}
        \cup {src.notes[n].page : n \in KeptNotes(src, request)}
        \cup {src.regions[g].page : g \in KeptRegions(src, request)}

Wanted(src, request) ==
    {a \in OfPurpose(src, "crop") :
        IF request.crops = All THEN src.assets[a].page \in EvidencePages(src, request)
        ELSE a \in ResolveIds(request.crops, {})}
    \cup {a \in OfPurpose(src, "page_render") :
        IF request.renders = All THEN src.assets[a].page \in EvidencePages(src, request)
        ELSE a \in ResolveIds(request.renders, {})}

\* The raster a kept reading was read from is kept whether or not it was wanted.
Required(src, request) ==
    {src.occurrences[o].asset : o \in KeptOccurrences(src, request)}
        \cap (OfPurpose(src, "crop") \cup OfPurpose(src, "page_render"))

KeptImages(src, request) ==
    (Wanted(src, request) \cup Required(src, request)) \cap Usable(src)

KeptAssetIds(src, request) ==
    KeptImages(src, request)
        \cup (IF SourceAsset(src, request) = None THEN {} ELSE {SourceId(src, request)})

KeptAssets(src, request) ==
    [a \in KeptAssetIds(src, request) |->
        IF a \in KeptImages(src, request) THEN src.assets[a] ELSE SourceAsset(src, request)]

\* A reading whose raster is gone keeps no link to it.
Unlinked(src, request) ==
    {o \in KeptOccurrences(src, request) :
        src.occurrences[o].asset \notin {None} \cup KeptAssetIds(src, request)}

\* Mutant: an image does not keep its page.
KeptPagesOfText(src, request) == src.pages \cap EvidencePages(src, request)

KeptPages(src, request) ==
    src.pages \cap (EvidencePages(src, request)
                        \cup {KeptAssets(src, request)[a].page : a \in KeptAssetIds(src, request)})

KeptTransforms(src, request) ==
    Ids(src.transforms) \cap
        ({<<"page", p>> : p \in KeptPages(src, request)}
            \cup (UNION {src.occurrences[o].transforms : o \in KeptOccurrences(src, request)})
            \cup (UNION {src.regions[g].transforms : g \in KeptRegions(src, request)})
            \cup (UNION {KeptAssets(src, request)[a].transforms : a \in KeptAssetIds(src, request)}))

Mode(src, request) ==
    IF SourceAsset(src, request) # None THEN "replayable"
    ELSE IF KeptOccurrences(src, request) = {} /\ KeptImages(src, request) # {} THEN "diagnostic"
    ELSE "evidence"

\* disclosure: derived from what is in the projection, never from the request.
Included(r) ==
    {"document_hash", "settings", "coverage"}
        \cup {x \in {"selected_text"} : Ids(r.occurrences) # {}}
        \cup {x \in {"crops"} : "crop" \in Purposes(r)}
        \cup {x \in {"page_renders"} : "page_render" \in Purposes(r)}
        \cup {x \in {"source_pdf"} : "source_pdf" \in Purposes(r)}
        \cup {x \in {"annotations"} : Ids(r.notes) # {}}
        \cup {x \in {"filename"} : r.filename}

\* Mutant: what was asked is disclosed, not what was done.
ExcludedByRequest(src, request, purpose) ==
    (IF purpose = "crop" THEN request.crops ELSE request.renders) = None

Excluded(src, request, purpose) ==
    (OfPurpose(src, purpose) \cap Usable(src)) \ KeptImages(src, request) # {}

\* The lines of export.omissions, by what they are about.
Omissions(src, request) ==
    LET line(name, condition) == IF condition THEN {name} ELSE {}
    IN  line("source", SourceAsset(src, request) = None)
        \cup line("source missing", SourceMissing(src, request))
        \cup line("filename", ~(request.filename /\ src.filename))
        \cup line("findings unsupported", Chosen(src, request) # Supported(src, request))
        \cup line("findings deselected", Ids(src.findings) # Chosen(src, request))
        \cup line("occurrences", Ids(src.occurrences) # KeptOccurrences(src, request))
        \cup line("notes", Ids(src.notes) # {} /\ KeptNotes(src, request) = {})
        \cup line("regions", Ids(src.regions) # KeptRegions(src, request))
        \cup line("crops", Excluded(src, request, "crop"))
        \cup line("page renders", Excluded(src, request, "page_render"))
        \cup line("missing bytes", Usable(src) # Ids(src.assets))
        \cup line("unlinked", Unlinked(src, request) # {})

\* The readings of a check that are kept, in the order of the check.
RetainedOf(seq, kept) ==
    LET upTo[i \in 0..Len(seq)] ==
            IF i = 0 THEN <<>>
            ELSE IF seq[i] \in kept THEN Append(upTo[i - 1], seq[i]) ELSE upTo[i - 1]
    IN  upTo[Len(seq)]

Replay(src, request) ==
    IF SourceAsset(src, request) # None THEN "source_included_environment_required"
    ELSE IF Mode(src, request) = "diagnostic" THEN "not_replayable"
    ELSE "requires_original"

Projected(src, request) ==
    [pages |-> KeptPages(src, request), selected |-> src.selected, readers |-> src.readers,
     transforms |-> Restrict(src.transforms, KeptTransforms(src, request)),
     regions |-> Restrict(src.regions, KeptRegions(src, request)),
     plan |-> src.plan,
     checks |-> [c \in Ids(src.checks) |->
        [src.checks[c] EXCEPT !.retained = RetainedOf(@, KeptOccurrences(src, request))]],
     occurrences |-> [o \in KeptOccurrences(src, request) |->
        [src.occurrences[o] EXCEPT !.asset = IF o \in Unlinked(src, request) THEN None ELSE @]],
     findings |-> Restrict(src.findings, Supported(src, request)),
     notes |-> Restrict(src.notes, KeptNotes(src, request)),
     assets |-> KeptAssets(src, request),
     source |-> IF SourceAsset(src, request) = None THEN None ELSE SourceId(src, request),
     length |-> src.length, filename |-> src.filename /\ request.filename, status |-> src.status,
     mode |-> Mode(src, request), replay |-> Replay(src, request), included |-> {}]

Sealed(r) == [r EXCEPT !.included = Included(r)]

\* An image of the report may be called what an attached original is called.
Clashes(src, request) ==
    SourceAsset(src, request) # None /\ SourceId(src, request) \in KeptImages(src, request)

\* A projection, or why there is none; validateReport has the last word, and
\* asks that identifiers be unique first.
ProjectReport(src, request) ==
    LET report == Sealed(Projected(src, request))
    IN  IF Refused(src, request)
            THEN [error |-> "refused", report |-> None, omissions |-> {}]
        ELSE IF Clashes(src, request) \/ ~Valid(report)
            THEN [error |-> "invalid", report |-> None, omissions |-> {}]
        ELSE [error |-> None, report |-> report, omissions |-> Omissions(src, request)]
=============================================================================
