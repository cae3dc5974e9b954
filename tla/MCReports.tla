----------------------------- MODULE MCReports -----------------------------
(***************************************************************************)
(* Parts of the workspace that share no state, of which a behaviour         *)
(* explores one: the ledger loops of a plan's checks, the report assembled  *)
(* from a page, the projection of any report for any request, the export    *)
(* panel, and the offline copies of a release.                              *)
(***************************************************************************)
EXTENDS CheckLoops, ReportAssembly, ExportPanel, OfflineCache

CONSTANTS c1, c2, c3, g1, g2, pa, pb

VARIABLE part   \* the part this behaviour explores

\* Three checks, every dependency map over them, every standing of each.
MCCapability == [c \in Checks |-> IF c = c3 THEN "ocr" ELSE "render"]
MCPageOf == [c \in Checks |-> 0]
MCPlanIndex == [c \in Checks |-> IF c = c1 THEN 1 ELSE IF c = c2 THEN 2 ELSE 3]

---------------------------------------------------------------------------
(* Pages *)

Occurrence(box, ordinal) ==
    [onPage |-> TRUE, geometry |-> "precise", box |-> box, ordinal |-> ordinal, text |-> <<ordinal>>]
Box(x, y) == [x0 |-> x, y0 |-> y, x1 |-> x + 4, y1 |-> y + 2]
Row(xs, y, ordinals) == [i \in DOMAIN xs |-> Occurrence(Box(xs[i], y), ordinals[i])]

Units(n) == (SUBSET (1..n)) \ {{}}

\* Costs of single pairs free, of every other candidate the same.
Costs(nl, nr, single, merged) ==
    {[u \in Units(nl) \X Units(nr) |->
        IF Cardinality(u[1]) = 1 /\ Cardinality(u[2]) = 1
            THEN s[CHOOSE i \in u[1] : TRUE, CHOOSE j \in u[2] : TRUE] ELSE m] :
        s \in [(1..nl) \X (1..nr) -> single], m \in merged}

PagesOf(L, R, region, single, merged) ==
    {[left |-> l, right |-> r, region |-> region, cost |-> c] :
        l \in L, r \in R, c \in Costs(Len(CHOOSE x \in L : TRUE), Len(CHOOSE x \in R : TRUE), single, merged)}

\* Wide rows against tall columns: every single pair is a candidate, no span is.
Rows(n) == [i \in 1..n |-> Occurrence([x0 |-> 0, y0 |-> 3 * i, x1 |-> 20, y1 |-> 3 * i + 2], i)]
Columns(n, ordinals) ==
    [i \in 1..n |-> Occurrence([x0 |-> 6 * i, y0 |-> 3, x1 |-> 6 * i + 2, y1 |-> 12], ordinals[i])]

Orders(n) == {o \in [1..n -> 1..n] : \A i, j \in 1..n : i # j => o[i] # o[j]}

\* Two lines of two columns, of which the other reader reads across; one
\* occurrence has no place, one is outside the region.
Mixed == <<Occurrence(Box(0, 0), 1), Occurrence(Box(20, 0), 2), Occurrence(Box(0, 4), 3),
           [Occurrence(Box(20, 4), 4) EXCEPT !.geometry = "page_only"]>>
Across == <<Occurrence([x0 |-> 0, y0 |-> 0, x1 |-> 24, y1 |-> 2], 1), Occurrence(Box(5, 4), 2)>>
Scope == [x0 |-> 0, y0 |-> 0, x1 |-> 24, y1 |-> 3]

MCPages ==
    PagesOf({Row(<<0, 5>>, 0, <<1, 2>>)}, {Row(<<0, 5>>, 0, o) : o \in Orders(2)},
            NoRegion, {0, 13, 90}, {20, 90})
    \cup PagesOf({Row(<<0, 5, 10>>, 0, <<1, 2, 3>>)}, {Row(<<6>>, 1, <<1>>)},
            NoRegion, {0, 13, 30, 60}, {15, 50})
    \cup PagesOf({Rows(3)}, {Columns(2, o) : o \in Orders(2)}, NoRegion, {0, 60}, {35})
    \cup {[left |-> Mixed, right |-> Across, region |-> r,
            cost |-> [u \in Units(4) \X Units(2) |-> IF Cardinality(u[1]) = 1 THEN c ELSE 30]] :
                r \in {NoRegion, Scope}, c \in {10, 70}}
    \cup PagesOf({Row(<<0, 5, 10, 15>>, 0, <<1, 2, 3, 4>>)}, {Row(<<6>>, 1, <<1>>)},
            NoRegion, {10}, {30})

AllCompleted == [status |-> [c \in {"text", "render", "ocr", "align"} |-> "completed"],
                 kept |-> [c \in {"text", "ocr"} |-> TRUE], stored |-> TRUE]

\* Pages whose report is assembled after every ending: readings that agree, that
\* differ, that have no place, of one side only.
PageOnly(seq) == [i \in DOMAIN seq |-> [seq[i] EXCEPT !.geometry = "page_only"]]
Plain(l, r, region, cost) ==
    [left |-> l, right |-> r, region |-> region,
     cost |-> [u \in Units(3) \X Units(3) |-> cost]]
EndingPages ==
    LET line == Row(<<0, 5>>, 0, <<1, 2>>)
        other == Row(<<0, 5>>, 0, <<2, 1>>)
        mixed == <<line[1], PageOnly(line)[2]>>
    IN  {Plain(l, r, g, 20) : l \in {line, mixed, <<>>}, r \in {other, mixed, PageOnly(other), <<>>},
                              g \in {NoRegion, Scope}}

---------------------------------------------------------------------------
(* Reports to export, and requests *)

Image(purpose, p, size, usable) ==
    [purpose |-> purpose, usable |-> usable, bound |-> FALSE, size |-> size, page |-> p,
     transforms |-> {<<"raster", p>>}]
Pdf(size, bound, usable) ==
    [purpose |-> "source_pdf", usable |-> usable, bound |-> bound, size |-> size, page |-> None,
     transforms |-> {}]
Reading(reader, p, asset) ==
    [reader |-> reader, page |-> p, asset |-> asset, polygon |-> TRUE,
     transforms |-> {<<"page", p>>} \cup (IF asset = None THEN {} ELSE {<<"crop", p>>})]
Claim(kind, occurrences, checks, alignment, region, p) ==
    [kind |-> kind, page |-> p, occurrences |-> occurrences, checks |-> checks,
     alignment |-> alignment, region |-> region]
Note(finding, p) == [finding |-> finding, page |-> p]

\* A recorded run of page 0 of three: a difference in a region, a finding of OCR
\* alone, an unfinished check, a reading no finding cites; images of every page.
Recorded(badImages, pdfs, filename, notes) ==
    LET assets == ("crop0" :> Image("crop", 0, 2, "crop0" \notin badImages))
                    @@ ("crop1" :> Image("crop", 1, 1, TRUE))
                    @@ ("render0" :> Image("page_render", 0, 3, "render0" \notin badImages))
                    @@ ("render2" :> Image("page_render", 2, 1, TRUE)) @@ pdfs
        r == [pages |-> {0, 1, 2}, selected |-> {0}, readers |-> {"text", "ocr"},
              transforms |-> [t \in ({"page"} \X {0, 1, 2}) \cup ({"raster"} \X {0, 1, 2})
                                        \cup ({"crop"} \X {0}) |-> t[2]],
              regions |-> ("drawn" :> [page |-> 0, transforms |-> {<<"page", 0>>}])
                            @@ ("found" :> [page |-> 0, transforms |-> {<<"raster", 0>>}])
                            @@ ("other" :> [page |-> 1, transforms |-> {<<"raster", 1>>}]),
              plan |-> ("text" :> [page |-> 0, region |-> None, readers |-> {"text"}])
                        @@ ("ocr" :> [page |-> 0, region |-> "drawn", readers |-> {"ocr"}]),
              checks |-> [c \in {"text", "ocr"} |->
                            [status |-> "completed", reason |-> FALSE, produced |-> 3,
                             retained |-> IF c = "text" THEN <<"o1", "o4">> ELSE <<"o2", "o3">>]],
              occurrences |-> ("o1" :> Reading("text", 0, None)) @@ ("o2" :> Reading("ocr", 0, "crop0"))
                                @@ ("o3" :> Reading("ocr", 0, "render0")) @@ ("o4" :> Reading("text", 0, None)),
              findings |-> ("f1" :> Claim("reading_difference", {"o1", "o2"}, {"text", "ocr"}, "unique", "found", 0))
                            @@ ("f2" :> Claim("ocr_interpretation", {"o3"}, {"ocr"}, "page_level", None, 0))
                            @@ ("f3" :> Claim("observed_structure", {}, {"text"}, "not_applicable", None, 1)),
              notes |-> notes, assets |-> assets,
              source |-> IF "pdf" \in Ids(pdfs) /\ pdfs["pdf"].bound THEN "pdf" ELSE None,
              length |-> IF pdfs = <<>> THEN 5 ELSE 4, filename |-> filename, status |-> "complete", mode |-> "evidence",
              replay |-> "requires_original", included |-> {}]
    IN  Sealed(r)

Embedded == {<<>>} \cup {"pdf" :> Pdf(4, TRUE, u) : u \in BOOLEAN} \cup {"pdf" :> Pdf(2, FALSE, TRUE)}

OwnNotes == ("n1" :> Note("f1", 0)) @@ ("n2" :> Note(None, 2))
Recordings ==
    {Recorded(bad, pdf, TRUE, OwnNotes) : bad \in {{}, {"render0"}, {"crop0"}}, pdf \in Embedded}
    \cup {Recorded({}, <<>>, FALSE, <<>>), Recorded({}, "a_source" :> Image("crop", 0, 1, TRUE), TRUE, OwnNotes)}
MCReports == {Recorded({}, <<>>, TRUE, <<>>), Recorded({"render0"}, "pdf" :> Pdf(4, TRUE, TRUE), FALSE, OwnNotes)}

MCUserNotes == {"u1" :> Note("f2", 0), "u2" :> Note(None, 1)}

Requests ==
    [findings : {All, {}, {"f1"}, {"f2", "f3"}, {"unknown"}},
     occurrences : {All, Cited, None, {"o3"}, {"o1", "o4"}},
     crops : {All, None, {"crop1"}}, renders : {All, None, {"render2"}},
     annotations : BOOLEAN, filename : {TRUE}, source : {None, Carry, Original, Foreign}]

---------------------------------------------------------------------------
(* The parts *)

NoLedger == ledger = <<>> /\ depMap = <<>> /\ counter = 0
NoPage == page = None /\ aligned = NotAligned /\ ended = None /\ report = None
          /\ error = FALSE
NoExport == /\ sealedReport = None /\ userNotes = <<>> /\ retained = FALSE
            /\ request = None /\ exported = None /\ wishes = None

\* A release, and one that has dropped a file of it.
MCPathsOf == [g \in Generations |-> IF g = g1 THEN {pa, pb} ELSE {pb}]

PagesInit ==
    /\ report = None /\ error = FALSE /\ aligned = NotAligned
    /\ \/ page \in MCPages /\ ended = AllCompleted
       \/ page \in EndingPages /\ ended \in Endings /\ ("ocr" \in Planned \/ page.right = <<>>)

\* projectReport for any request, apart from the panel.
ExportInit ==
    /\ sealedReport \in Recordings /\ userNotes = <<>> /\ retained = FALSE
    /\ request \in Requests /\ wishes = None /\ exported = None

MCInit ==
    /\ OfflineInit
    /\ \/ part = "loops" /\ Init /\ NoPage /\ NoExport
       \/ part = "pages" /\ PagesInit /\ NoLedger /\ NoExport
       \/ part = "export" /\ ExportInit /\ NoLedger /\ NoPage
       \/ part = "panel" /\ PanelInit /\ NoLedger /\ NoPage
       \/ part = "offline" /\ NoLedger /\ NoPage /\ NoExport

Project ==
    /\ exported = None
    /\ exported' = Recompute(sealedReport, userNotes, retained, request)
    /\ UNCHANGED <<sealedReport, userNotes, retained, request, wishes>>

MCNext ==
    /\ UNCHANGED part
    /\ \/ part = "loops" /\ Cascade /\ UNCHANGED <<alignVars, assemblyVars, panelVars, offlineVars>>
       \/ part = "pages" /\ AssemblyNext /\ UNCHANGED <<loopVars, panelVars, offlineVars>>
       \/ part = "export" /\ Project /\ UNCHANGED <<loopVars, alignVars, assemblyVars, offlineVars>>
       \/ part = "panel" /\ PanelNext /\ UNCHANGED <<loopVars, alignVars, assemblyVars, offlineVars>>
       \/ /\ part = "offline" /\ OfflineNext
          /\ UNCHANGED <<loopVars, alignVars, assemblyVars, panelVars>>

MCSpec ==
    MCInit /\ [][MCNext]_<<part, loopVars, alignVars, assemblyVars, panelVars, offlineVars>>

\* The other pages are as the assumption asks of Pages.
ASSUME \A p \in EndingPages : IsPage(p)

\* The recorded reports are ones the contract accepts while their bytes are there.
ASSUME \A r \in Recordings : IsReport(r) /\ Valid(WithBytes(r))
=============================================================================
