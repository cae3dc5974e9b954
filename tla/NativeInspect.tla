---------------------------- MODULE NativeInspect ----------------------------
(***************************************************************************)
(* The native commands that read a PDF (native/inkflip/cli: main.py,        *)
(* inspect.py, pages.py, paths.py): inspect makes a report, replay makes    *)
(* one again from what a report recorded, compare-readers makes two. Files  *)
(* change and readers are upgraded between commands.                       *)
(*                                                                         *)
(* A file is a record with a kind; a PDF has an identity, which stands for  *)
(* its digest, and pages. Readings are told apart by reader, page and       *)
(* place: PDFium's have one on the page, the others are page-only (place 0). *)
(***************************************************************************)
EXTENDS Naturals, FiniteSets, Sequences

CONSTANTS InspectRequests, ReplayRequests, PairRequests, \* the commands
          Disks,       \* what may be on the disk at first: path -> file
          Source,      \* the path whose file changes
          Contents,    \* what it may change to
          MaxVersion, MaxCommands,
          MaxPagesAll, MaxOcrPages

ASSUME InspectAssumption == {MaxVersion, MaxCommands, MaxPagesAll, MaxOcrPages} \subseteq Nat \ {0}

Nothing == [kind |-> "missing"]

\* The files that there are before a command has made any.
GivenFiles == Contents \cup UNION {{d[path] : path \in DOMAIN d} : d \in Disks}
GivenPdfs == {f \in GivenFiles : f.kind = "pdf"}
Unusable == {"missing", "unreadable", "large", "other", "encrypted", "broken", "empty"}

\* A report among them is the browser's; a PDF is not empty, and its digest tells it.
ASSUME FilesAssumption ==
    /\ \A f \in GivenFiles \ GivenPdfs :
          \/ f.kind \in Unusable
          \/ /\ f.kind = "report" /\ ~f.native /\ f.embeds \in GivenPdfs \cup {Nothing}
             /\ f.selected \in SUBSET (Nat \ {0}) /\ IsFiniteSet(f.selected)
    /\ \A f \in GivenPdfs : f.id # 0 /\ f.pages \in Nat \ {0}
    /\ \A f, g \in GivenPdfs : f.id = g.id => f = g

\* What is asked names files of the disk, a reader and pages.
ASSUME RequestsAssumption ==
    /\ \A d \in Disks :
          /\ \A r \in InspectRequests : r.file \in DOMAIN d
          /\ \A r \in ReplayRequests : r.report \in DOMAIN d /\ r.source \in DOMAIN d \cup {"none"}
          /\ \A r \in PairRequests : r.file \in DOMAIN d
    /\ \A r \in InspectRequests : r.readers # {}
    /\ \A r \in InspectRequests \cup PairRequests : r.pages \in [all : BOOLEAN, parts : Seq(Nat \X Nat)]

VARIABLES disk,      \* path -> file
          installed, \* reader -> version, 0 when it is missing; "isolated" is the profile's pypdf
          pairing,   \* a compare-readers under way, and the reports in its directory
          last,      \* the last command: its code, the report it made and the one it replayed
          commands

inspectVars == <<disk, installed, pairing, last, commands>>

Allowlisted == {"pdfium", "pypdf", "tesseract"}
BuiltinProfiles == {"native-default", "native", "desktop", "mobile"}

NoCommand == [name |-> "none", code |-> 0, made |-> Nothing, original |-> Nothing]
NoPairing == [busy |-> FALSE, request |-> Nothing, first |-> Nothing, code |-> 0, folder |-> {}]

InspectInit ==
    /\ disk \in Disks
    /\ installed \in {[n \in Allowlisted \cup {"isolated"} |-> IF n = "tesseract" THEN v ELSE 1] : v \in {0, 1}}
    /\ pairing = NoPairing /\ last = NoCommand /\ commands = 0

----------------------------------------------------------------------------
(***************************************************************************)
(* Pages, OCR pages and the region, as they are written: a sequence of      *)
(* one-based ranges or "all"; without one, page 1 and no OCR.               *)
(***************************************************************************)
NoSpec == [all |-> FALSE, parts |-> <<>>]

RangeOf(part) == part[1]..part[2]

NamedPages(spec, total) ==
    IF spec = NoSpec THEN {1}
    ELSE IF spec.all THEN 1..total
    ELSE UNION {RangeOf(spec.parts[i]) : i \in DOMAIN spec.parts}

ValidPages(spec, total) ==
    \/ spec.all /\ total <= MaxPagesAll
    \/ /\ ~spec.all
       /\ \A i \in DOMAIN spec.parts : 1 <= spec.parts[i][1] /\ spec.parts[i][1] <= spec.parts[i][2]
       /\ \A i, j \in DOMAIN spec.parts :
             i # j => RangeOf(spec.parts[i]) \cap RangeOf(spec.parts[j]) = {}
       /\ \A page \in NamedPages(spec, total) : page <= total

\* Read against the last selected page.
LastOf(pages) == CHOOSE page \in pages : \A other \in pages : other <= page

OcrPages(spec, selected) == IF spec = NoSpec THEN {} ELSE NamedPages(spec, LastOf(selected))

ValidOcr(spec, selected) ==
    spec # NoSpec =>
        /\ ValidPages(spec, LastOf(selected))
        /\ OcrPages(spec, selected) \subseteq selected
        /\ Cardinality(OcrPages(spec, selected)) <= MaxOcrPages

\* A region is a range of places, <<>> for none.
ValidRegionSpec(region, selected) ==
    region # <<>> => Cardinality(selected) = 1 /\ region[1] < region[2]

\* A reading without a polygon is outside every region.
InRegion(place, region) ==
    region # <<>> => place # 0 /\ region[1] <= place /\ place <= region[2]

----------------------------------------------------------------------------
(***************************************************************************)
(* inspect_document.                                                       *)
(***************************************************************************)
ReadersUsed(r) == IF r.profile \in BuiltinProfiles THEN r.readers ELSE {"pypdf"}

VersionUsed(reader, profile) == IF profile \in BuiltinProfiles THEN installed[reader] ELSE installed["isolated"]

\* The exit code of what is refused before a reader runs, 0 when nothing is.
RefusalCode(file, r, expected) ==
    LET selected == NamedPages(r.pages, file.pages)
    IN  IF file.kind \in {"missing", "unreadable"} THEN 4
        ELSE IF file.kind = "large" THEN 5
        ELSE IF file.kind \in {"report", "other"} THEN 4
        ELSE IF expected \notin {0, file.id} THEN 2
        ELSE IF file.kind \in {"encrypted", "broken", "empty"} THEN 4
        ELSE IF \/ ~ValidPages(r.pages, file.pages)
                \/ ~ValidOcr(r.ocr, selected) \/ ~ValidRegionSpec(r.region, selected) THEN 2
        ELSE IF r.profile = "blocked" THEN 3
        ELSE IF r.profile \notin BuiltinProfiles \cup {"isolated"} THEN 2
        ELSE IF /\ r.profile \in BuiltinProfiles
                /\ \/ ~(r.readers \subseteq Allowlisted)
                   \/ "tesseract" \in r.readers /\ OcrPages(r.ocr, selected) = {} THEN 2
        ELSE 0

PlannedChecks(file, r) ==
    LET selected == NamedPages(r.pages, file.pages)
    IN  {[reader |-> n, page |-> p] : n \in ReadersUsed(r) \ {"tesseract"}, p \in selected}
        \cup {[reader |-> n, page |-> p] : n \in ReadersUsed(r) \cap {"tesseract"}, p \in OcrPages(r.ocr, selected)}

WholePage(reader) == IF reader = "pdfium" THEN {1, 2} ELSE {0}

\* How a check may end: what a reader emitted before it failed stays.
CheckEnds(c, profile, how) ==
    IF c.reader = "tesseract" /\ installed["tesseract"] = 0 THEN [status |-> "unsupported", places |-> {}]
    ELSE IF how = "partly" /\ profile \in BuiltinProfiles
         THEN [status |-> "failed", places |-> WholePage(c.reader) \cap {0, 1}]
    ELSE IF \/ how \in {"timeout", "unsupported"} /\ (c.reader = "tesseract" \/ profile = "isolated")
            \/ how = "cancelled" /\ profile = "isolated"
         THEN [status |-> how, places |-> {}]
    ELSE IF how = "completed" THEN [status |-> how, places |-> WholePage(c.reader)]
    ELSE [status |-> "failed", places |-> {}]

Fates(plan, profile) ==
    {[c \in plan |-> CheckEnds(c, profile, IF c \in bad THEN how ELSE "completed")] :
        bad \in SUBSET plan, how \in {"failed", "partly", "timeout", "unsupported", "cancelled"}}

ExecutionStatus(statuses) ==
    CASE "cancelled" \in statuses -> "cancelled"
      [] statuses = {"completed"} -> "complete"
      [] statuses \subseteq {"failed", "timeout"} -> "failed"
      [] OTHER -> "partial"

CodeOfStatus(status) ==
    CASE status = "complete" -> 0 [] status = "partial" -> 3 [] status = "failed" -> 4 [] status = "cancelled" -> 130

MakeReport(file, r, origin, fate) ==
    [kind |-> "report", id |-> commands + 1, native |-> TRUE, document |-> file.id,
     selected |-> NamedPages(r.pages, file.pages),
     readers |-> [n \in ReadersUsed(r) |-> VersionUsed(n, r.profile)],
     checks |-> [c \in DOMAIN fate |-> fate[c].status],
     occurrences |-> UNION {{[reader |-> c.reader, page |-> c.page, place |-> p] :
                                p \in {q \in fate[c].places : InRegion(q, r.region)}} : c \in DOMAIN fate},
     region |-> r.region, profile |-> r.profile,
     embeds |-> IF r.embed THEN file ELSE Nothing, origin |-> origin,
     status |-> ExecutionStatus({fate[c].status : c \in DOMAIN fate})]

Refused(code) == [code |-> code, report |-> Nothing]

\* Versions are looked at once the reader has run; a reader named twice breaks the
\* contract when the report is sealed, and so may its size.
Inspections(file, r, expected, required, origin) ==
    LET refusal == RefusalCode(file, r, expected)
        reports == {MakeReport(file, r, origin, fate) : fate \in Fates(PlannedChecks(file, r), r.profile)}
        mismatch == \E n \in ReadersUsed(r) : required[n] \notin {0, VersionUsed(n, r.profile)}
    IN  IF refusal # 0 THEN {Refused(refusal)}
        ELSE (IF r.profile = "isolated" THEN {Refused(4)} ELSE {})
             \cup (IF mismatch THEN {Refused(2)}
                   ELSE IF r.twice /\ r.profile # "isolated" THEN {Refused(4)}
                   ELSE {Refused(5)} \cup {[code |-> CodeOfStatus(report.status), report |-> report] : report \in reports})

Unrequired == [n \in Allowlisted |-> 0]

----------------------------------------------------------------------------
(***************************************************************************)
(* The commands.                                                           *)
(***************************************************************************)
Ready == ~pairing.busy /\ commands < MaxCommands

FinishCommand(name, code, made, original) ==
    /\ last' = [name |-> name, code |-> code, made |-> made, original |-> original]
    /\ commands' = commands + 1

RefuseCommand(name, code, original) == FinishCommand(name, code, Nothing, original) /\ UNCHANGED disk

\* A destination that is the input is refused whatever was asked, another that exists
\* unless its replacement was.
Guarded(input, out, replace) == out = input \/ (disk[out].kind # "missing" /\ ~replace)

\* The report is written whole or, when the disk refuses, not at all.
Deliver(name, out, result, original) ==
    IF result.report = Nothing THEN RefuseCommand(name, result.code, original)
    ELSE \/ /\ disk' = [disk EXCEPT ![out] = result.report]
            /\ FinishCommand(name, result.code, result.report, original)
         \/ RefuseCommand(name, 4, original)

RunInspect ==
    /\ Ready
    /\ \E r \in InspectRequests :
          IF Guarded(r.file, r.out, r.replace) THEN RefuseCommand("inspect", 2, Nothing)
          ELSE \E result \in Inspections(disk[r.file], r, 0, Unrequired, 0) :
                  Deliver("inspect", r.out, result, Nothing)
    /\ UNCHANGED <<installed, pairing>>

\* A profile other than the recorded one; a report without one takes any.
ProfileMismatch(report, profile) ==
    \/ report.profile \notin {"none", profile} /\ profile \notin {"native-default", "native"}
    \/ report.profile \notin BuiltinProfiles \cup {"none", profile}

RangesOf(pages) == [all |-> FALSE, parts |-> [i \in 1..Cardinality(pages) |->
    LET page == CHOOSE p \in pages : Cardinality({q \in pages : q <= p}) = i IN <<page, page>>]]

\* A plan that forgets the region.
ReconstructWhole(report) ==
    [readers |-> IF (DOMAIN report.readers) \cap Allowlisted = {} THEN {"pdfium"}
                 ELSE (DOMAIN report.readers) \cap Allowlisted,
     twice |-> FALSE, pages |-> RangesOf(report.selected),
     ocr |-> RangesOf({c.page : c \in {d \in DOMAIN report.checks : d.reader = "tesseract"}}),
     region |-> <<>>]

\* Readers that the native side does not know give way to PDFium.
Reconstruct(report) ==
    [readers |-> IF (DOMAIN report.readers) \cap Allowlisted = {} THEN {"pdfium"}
                 ELSE (DOMAIN report.readers) \cap Allowlisted,
     twice |-> FALSE, pages |-> RangesOf(report.selected),
     ocr |-> RangesOf({c.page : c \in {d \in DOMAIN report.checks : d.reader = "tesseract"}}),
     region |-> report.region]

RecordedVersions(report) ==
    [n \in Allowlisted |-> IF n \in DOMAIN report.readers THEN report.readers[n] ELSE 0]

Replayed(report, profile) ==
    LET plan == Reconstruct(report)
    IN  [n \in DOMAIN plan \cup {"profile", "embed"} |->
            CASE n = "profile" -> profile [] n = "embed" -> report.embeds # Nothing [] OTHER -> plan[n]]

\* The source is the file named, or the one the report embeds.
RunReplay ==
    /\ Ready
    /\ \E r \in ReplayRequests :
          LET report == disk[r.report]
              file == IF r.source # "none" THEN disk[r.source] ELSE report.embeds
          IN  IF Guarded(r.report, r.out, r.replace) THEN RefuseCommand("replay", 2, Nothing)
              ELSE IF report.kind = "missing" THEN RefuseCommand("replay", 4, Nothing)
              ELSE IF report.kind # "report" \/ ProfileMismatch(report, r.profile) \/ r.source = r.out
                   THEN RefuseCommand("replay", 2, Nothing)
              ELSE IF file = Nothing THEN RefuseCommand("replay", IF r.source = "none" THEN 2 ELSE 4, report)
              ELSE \E result \in Inspections(file, Replayed(report, r.profile), report.document,
                                             RecordedVersions(report), report.id) :
                      Deliver("replay", r.out, result, report)
    /\ UNCHANGED <<installed, pairing>>

\* Two known readers and a directory of its own, empty unless replacement was asked.
RefusedPair(r) ==
    IF disk[r.file].kind = "missing" THEN 4
    ELSE IF \/ r.overlaps \/ ~({r.left, r.right} \subseteq Allowlisted)
            \/ pairing.folder # {} /\ ~r.replace THEN 2
    ELSE 0

ReaderRequest(r, reader) ==
    [readers |-> {reader}, twice |-> FALSE, pages |-> r.pages, ocr |-> r.ocr, region |-> <<>>,
     profile |-> "native-default", embed |-> FALSE]

PairFile(reader, report) == {f \in pairing.folder : f.reader # reader} \cup {[reader |-> reader, report |-> report]}

StartPair ==
    /\ Ready
    /\ \E r \in PairRequests :
          IF RefusedPair(r) # 0 THEN RefuseCommand("compare", RefusedPair(r), Nothing) /\ UNCHANGED pairing
          ELSE \E result \in Inspections(disk[r.file], ReaderRequest(r, r.left), 0, Unrequired, 0) :
                  IF result.report = Nothing
                  THEN RefuseCommand("compare", result.code, Nothing) /\ UNCHANGED pairing
                  ELSE /\ pairing' = [busy |-> TRUE, request |-> r, first |-> result.report, code |-> result.code,
                                      folder |-> PairFile(r.left, result.report)]
                       /\ UNCHANGED <<disk, last, commands>>
    /\ UNCHANGED installed

\* Two readers are never comparable in this mode, nor two files.
PairCode(left, right, code) ==
    IF left.document # right.document \/ DOMAIN left.readers # DOMAIN right.readers THEN 6 ELSE code

\* The bridge that aligns the readings may fail: that is code 2.
EndPair ==
    /\ pairing.busy
    /\ LET r == pairing.request
       IN  \E result \in Inspections(disk[r.file], ReaderRequest(r, r.right), 0, Unrequired, 0) :
              LET code == IF result.code # 0 THEN result.code ELSE pairing.code
              IN  IF result.report = Nothing
                  THEN /\ RefuseCommand("compare", result.code, Nothing)
                       /\ pairing' = [NoPairing EXCEPT !.folder = pairing.folder]
                  ELSE /\ pairing' = [NoPairing EXCEPT !.folder = PairFile(r.right, result.report)]
                       /\ \E final \in {PairCode(pairing.first, result.report, code)}
                                \cup (IF pairing.first.occurrences \cup result.report.occurrences = {} THEN {} ELSE {2}) :
                             FinishCommand("compare", final, result.report, pairing.first)
                       /\ UNCHANGED disk
    /\ UNCHANGED installed

\* What changes before the first command is another initial state.
ChangeSource ==
    /\ pairing.busy \/ commands \in 1..(MaxCommands - 1)
    /\ \E file \in Contents : disk' = [disk EXCEPT ![Source] = file]
    /\ UNCHANGED <<installed, pairing, last, commands>>

\* Until one has the highest version.
UpgradeReader ==
    /\ Ready /\ commands > 0
    /\ \A n \in DOMAIN installed : installed[n] < MaxVersion
    /\ \E n \in DOMAIN installed : installed' = [installed EXCEPT ![n] = @ + 1]
    /\ UNCHANGED <<disk, pairing, last, commands>>

InspectNext == RunInspect \/ RunReplay \/ StartPair \/ EndPair \/ ChangeSource \/ UpgradeReader

InspectSpec == InspectInit /\ [][InspectNext]_inspectVars

----------------------------------------------------------------------------
(***************************************************************************)
(* docs/CLI.md "Exit codes": 0 is a report all of whose planned checks      *)
(* completed; a report under another code says so; without a report the     *)
(* code is never 0. Whatever was asked, a report has a check of every       *)
(* reader on every page that it names and holds no reading outside its      *)
(* region or plan.                                                         *)
(***************************************************************************)
ExitTellsReport ==
    /\ last.made = Nothing /\ last.name # "none" => last.code # 0
    /\ last.made # Nothing =>
          LET statuses == {last.made.checks[c] : c \in DOMAIN last.made.checks}
          IN  /\ last.code = 0 => statuses = {"completed"}
              /\ last.name # "compare" /\ last.code = 4 => "completed" \notin statuses
              /\ last.code = 0 /\ last.name = "compare" =>
                    \A c \in DOMAIN last.original.checks : last.original.checks[c] = "completed"
              /\ \A n \in DOMAIN last.made.readers \ {"tesseract"}, p \in last.made.selected :
                    [reader |-> n, page |-> p] \in DOMAIN last.made.checks
              /\ \A o \in last.made.occurrences :
                    /\ [reader |-> o.reader, page |-> o.page] \in DOMAIN last.made.checks
                    /\ InRegion(o.place, last.made.region)

(***************************************************************************)
(* docs/CLI.md "Replay reconstructs the recorded pages, OCR pages and       *)
(* region. It refuses a source hash mismatch and a reader version           *)
(* mismatch": a report replayed from one the native side made is of the     *)
(* same document, plan and versions, names the original, and, when its      *)
(* checks end alike, has the same readings. A missing reader has no         *)
(* version to hold it to.                                                   *)
(***************************************************************************)
ReplayIsFaithful ==
    last.name = "replay" /\ last.made # Nothing /\ last.original.native =>
        LET made == last.made
            original == last.original
        IN  /\ made.document = original.document /\ made.selected = original.selected
            /\ made.region = original.region /\ made.embeds = original.embeds
            /\ DOMAIN made.checks = DOMAIN original.checks
            /\ \A n \in DOMAIN original.readers : original.readers[n] \in {0, made.readers[n]}
            /\ made.origin = original.id
            /\ made.checks = original.checks /\ made.status = "complete" => made.occurrences = original.occurrences

CommandsAreSound == ExitTellsReport /\ ReplayIsFaithful
=============================================================================
