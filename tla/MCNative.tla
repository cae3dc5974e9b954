------------------------------ MODULE MCNative ------------------------------
(***************************************************************************)
(* Values for model-checking NativeParts: runs to approve, what a worker    *)
(* replies, stored runs to compare, pages to read, files and commands.      *)
(***************************************************************************)
EXTENDS NativeParts, TLC, SequencesExt

---------------------------------------------------------------------------
(* Runs to approve *)

Run(keys, status) ==
    [approved |-> TRUE, status |-> status, allowIncomplete |-> FALSE,
     files |-> [key : keys, suffix : {".json"}], rules |-> "valid", identity |-> "complete"]
MCRunChoices ==
    {Run({1, 2}, "complete"), [Run({2}, "partial") EXCEPT !.allowIncomplete = TRUE],
     Run({1}, "partial"), Run({}, "complete"),
     [Run({1}, "complete") EXCEPT !.files = @ \cup {[key |-> 1, suffix |-> ".inkflip.json"]}],
     [Run({1}, "complete") EXCEPT !.identity = "placeholder"],
     [Run({1}, "complete") EXCEPT !.rules = "invalid"], [Run({1}, "complete") EXCEPT !.approved = FALSE]}

---------------------------------------------------------------------------
(* Replies of a worker: whole, longer than is kept, and wrong in each way *)

Reply(ok, version, wellFormed, length) ==
    [ok |-> ok, version |-> version, pages |-> wellFormed, length |-> length]
MCWorkerReplies ==
    {Reply(TRUE, TRUE, TRUE, 1), Reply(TRUE, TRUE, TRUE, 3), Reply(FALSE, TRUE, TRUE, 1),
     Reply(TRUE, FALSE, TRUE, 1), Reply(TRUE, TRUE, FALSE, 1)}

---------------------------------------------------------------------------
(* Stored runs to compare *)

Stored(document, readers, statuses, occurrences) ==
    [document |-> document, readers |-> readers, profile |-> Unstated,
     checks |-> [c \in DOMAIN statuses |->
                    [status |-> statuses[c], page |-> 1, reader |-> c, region |-> Unstated]],
     occurrences |-> occurrences]
Heard(reader, text, place) ==
    [page |-> 1, reader |-> reader, region |-> Unstated, raw |-> text, norm |-> text \div 2, place |-> place]

BothDone == ("text" :> "completed") @@ ("ocr" :> "completed")
Statements == <<Heard("text", 2, 0), Heard("ocr", 4, Nowhere)>>
Before == Stored(1, 1, BothDone, Statements)

\* The same, normalized alike, other text, one reading less, other places, another
\* order, checks that swapped their endings or are gone, another document, another reader.
After ==
    {Before,
     Stored(1, 1, BothDone, <<Heard("text", 3, 0), Statements[2]>>),
     Stored(1, 1, BothDone, <<Heard("text", 6, 0), Statements[2]>>),
     Stored(1, 1, BothDone, <<Statements[1]>>),
     Stored(1, 1, BothDone, <<Heard("text", 2, 3), Statements[2]>>),
     Stored(1, 1, BothDone, <<Statements[2], Statements[1]>>),
     Stored(1, 1, ("text" :> "completed") @@ ("ocr" :> "failed"), Statements),
     Stored(1, 1, "text" :> "completed", <<Statements[1]>>),
     Stored(1, 1, ("text" :> "completed") @@ ("other" :> "completed"), Statements),
     Stored(1, 1, BothDone, <<>>),
     Stored(2, 1, BothDone, Statements),
     Stored(1, 2, BothDone, Statements)}

Rule(type, value) ==
    [type |-> type, document |-> 1, page |-> 1, reader |-> "text", region |-> Unstated, value |-> value]
Rules(lost, failed, rules) == [failOnCoverageLoss |-> lost, failOnError |-> failed, rules |-> rules]

Side(kind, reports) ==
    [kind |-> kind, readable |-> TRUE, broken |-> FALSE, reports |-> reports, recorded |-> DOMAIN reports,
     intended |-> DOMAIN reports, declared |-> Unstated, algorithm |-> Unstated]

Call(left, right, rules) ==
    [left |-> left, right |-> right, rules |-> rules, rulesValid |-> TRUE, mode |-> "version",
     failOnChanged |-> FALSE, overlaps |-> FALSE, writes |-> TRUE]

\* One pair under every rule and policy.
SinglePolicies ==
    {NoRules} \cup {Rules(l, f, {}) : l, f \in BOOLEAN}
    \cup {Rules(FALSE, FALSE, {Rule(t, v)}) :
            t \in {"expected_text", "stable_reading", "required_coverage",
                   "expected_occurrence_count", "max_geometry_delta"}, v \in {1, 2}}
SinglePairs ==
    {[Call(Side("baseline", (1 :> Before)), Side("run", 1 :> a), p) EXCEPT !.mode = m, !.failOnChanged = f] :
        a \in After, p \in SinglePolicies, m \in {"version", "reader_upgrade", "document_versions"},
        f \in BOOLEAN}

\* Two or three keys of which either side may lack some.
SeveralPairs ==
    {[Call(Side("run", l), [Side("run", r) EXCEPT !.intended = @ \cup i], p) EXCEPT !.failOnChanged = f] :
        l \in {(1 :> Before), (1 :> Before) @@ (2 :> Before), 3 :> Before},
        r \in UNION {[K -> {Before} \cup {a \in After : a.occurrences = <<>> \/ a.document = 2 \/ a.occurrences[1].raw = 6}] :
                        K \in {{1}, {2}, {1, 2}}},
        i \in {{}, {3}}, p \in {NoRules, Rules(TRUE, FALSE, {}), Rules(FALSE, TRUE, {})}, f \in BOOLEAN}

Good == Side("run", 1 :> Before)
Profiled(p) == Side("run", 1 :> [Before EXCEPT !.profile = p])
\* What a side, or the call, may be refused for.
RefusedCalls ==
    {Call(l, r, NoRules) :
        l \in {Good, [Good EXCEPT !.kind = "baseline", !.recorded = {}], [Good EXCEPT !.broken = TRUE],
               [Good EXCEPT !.reports = <<>>], [Good EXCEPT !.algorithm = 1]},
        r \in {Good, [Good EXCEPT !.readable = FALSE], [Profiled(1) EXCEPT !.declared = 2],
               [Good EXCEPT !.intended = {1, 2}],
               [Good EXCEPT !.algorithm = 2], [Good EXCEPT !.reports = <<>>, !.intended = {}]}}
    \cup {[Call(Good, Good, NoRules) EXCEPT !.rulesValid = v, !.overlaps = o, !.writes = w] : v, o, w \in BOOLEAN}

MCCompareRequests == SinglePairs \cup SeveralPairs \cup RefusedCalls

---------------------------------------------------------------------------
(* Checks and their pages *)

Check(reader, items) ==
    [reader |-> reader, items |-> items, closed |-> FALSE, encrypted |-> FALSE,
     capability |-> IF reader = "tesseract" THEN "ocr" ELSE "native_text", binary |-> TRUE,
     regionId |-> FALSE, inRange |-> TRUE, region |-> [x0 |-> 0, y0 |-> 0, x1 |-> 1, y1 |-> 1],
     raster |-> [w |-> 1, h |-> 1], resize |-> 2, model |-> TRUE, decodes |-> TRUE]
Item(kind, box) == [kind |-> kind, box |-> box]
Characters == {Item("glyph", 1), Item("glyph", 2), Item("space", 0), Item("break", 0), Item("fault", 0)}
Printed == {Item("word", 0), Item("other", 0), Item("fault", 0)}
Spans(n) == {<<a, b>> \in (0..n) \X (0..n) : a < b}
Scanned(h, v, w, f) ==
    [Check("tesseract", <<>>) EXCEPT !.region = [x0 |-> h[1], x1 |-> h[2], y0 |-> v[1], y1 |-> v[2]],
                                     !.raster = [w |-> w, h |-> 4], !.resize = f]

MCReadingRequests ==
    {Check("pdfium", items) : items \in BoundedSeq(Characters, 4) \cup {[i \in 1..5 |-> Item("glyph", i)]}}
    \cup {Check("tesseract", items) : items \in BoundedSeq(Printed, 5)}
    \cup {Check("pypdf", items) : items \in BoundedSeq({Item("glyph", 1), Item("fault", 0)}, 2)}
    \cup {Scanned(h, v, w, f) : h \in Spans(5), v \in Spans(4), w \in {4, 5}, f \in {1, 2, 3, 5}}
    \cup {[Check(r, <<Item("glyph", 1)>>) EXCEPT !.closed = c, !.encrypted = e, !.capability = k, !.regionId = i, !.inRange = g] :
              r \in {"pdfium", "pypdf"}, c, e, i, g \in BOOLEAN, k \in {"native_text", "ocr"}}
    \cup {[Check("tesseract", <<Item("word", 0)>>) EXCEPT !.closed = c, !.binary = b, !.model = m, !.decodes = d, !.regionId = i] :
              c, b, m, d, i \in BOOLEAN}

---------------------------------------------------------------------------
(* Files, reports and commands *)

Pdf(id, n) == [kind |-> "pdf", id |-> id, pages |-> n]
Useless(kind) == [kind |-> kind, id |-> 9, pages |-> 0]
Browser == [kind |-> "report", id |-> 0, native |-> FALSE, document |-> 1, selected |-> {1}, readers |-> [n \in {"pdfjs"} |-> 1],
    checks |-> [c \in {[reader |-> "pdfjs", page |-> 1]} |-> "completed"], occurrences |-> {}, region |-> <<>>,
    profile |-> "none", embeds |-> Nothing, origin |-> 0, status |-> "complete"]

Disk(file, a) == [path \in {"source", "a", "b"} |-> CASE path = "source" -> file [] path = "a" -> a [] OTHER -> Nothing]
MCDisks == {Disk(f, Nothing) : f \in {Pdf(1, 2)} \cup {Useless(k) : k \in {"missing", "unreadable", "large", "other", "encrypted", "broken", "empty"}}}
             \cup {Disk(Pdf(1, 2), Browser), Disk(Pdf(1, 2), Useless("other"))}
MCContents == {Pdf(2, 3), Nothing}

Ranges(parts) == [all |-> FALSE, parts |-> parts]
Every == [all |-> TRUE, parts |-> <<>>]
Inspected(readers, pages, ocr, region, profile) ==
    [file |-> "source", out |-> "a", replace |-> FALSE, readers |-> readers, twice |-> FALSE, pages |-> pages, ocr |-> ocr,
     region |-> region, profile |-> profile, embed |-> FALSE]
One == Inspected({"pdfium"}, Ranges(<<<<2, 2>>>>), NoSpec, <<>>, "native-default")
MCInspectRequests ==
    {One, [One EXCEPT !.embed = TRUE], [One EXCEPT !.twice = TRUE], [One EXCEPT !.replace = TRUE], [One EXCEPT !.out = "source", !.replace = TRUE],
     [One EXCEPT !.region = <<1, 2>>], [One EXCEPT !.region = <<2, 3>>, !.readers = {"pdfium", "tesseract"}, !.ocr = Ranges(<<<<2, 2>>>>)], [One EXCEPT !.region = <<2, 1>>],
     [One EXCEPT !.readers = {"other"}], [One EXCEPT !.readers = {"tesseract"}],
     [One EXCEPT !.pages = Every, !.readers = {"pypdf"}], [One EXCEPT !.pages = Every, !.region = <<1, 2>>],
     [One EXCEPT !.pages = Ranges(<<<<2, 2>>, <<1, 1>>>>), !.readers = {"pypdf", "tesseract"}, !.ocr = Ranges(<<<<2, 2>>>>)],
     [One EXCEPT !.pages = Ranges(<<<<1, 2>>, <<2, 2>>>>)], [One EXCEPT !.pages = Ranges(<<<<2, 1>>>>)],
     [One EXCEPT !.pages = Ranges(<<<<0, 1>>>>)], [One EXCEPT !.pages = Ranges(<<<<2, 3>>>>)],
     [One EXCEPT !.readers = {"tesseract"}, !.ocr = Every], [One EXCEPT !.readers = {"tesseract"}, !.pages = NoSpec, !.ocr = Every],
     [One EXCEPT !.readers = {"tesseract"}, !.pages = Every, !.ocr = Every],
     [One EXCEPT !.profile = "isolated"], [One EXCEPT !.profile = "blocked"], [One EXCEPT !.profile = "unknown"]}
MCReplayRequests ==
    {[report |-> "a", source |-> s, profile |-> p, out |-> "b", replace |-> FALSE] :
        s \in {"none", "source"}, p \in {"native-default", "isolated", "desktop"}}
    \cup {[report |-> "a", source |-> "source", profile |-> "native", out |-> o, replace |-> TRUE] : o \in {"a", "source"}}
PairOf(l, r) == [file |-> "source", left |-> l, right |-> r, pages |-> Ranges(<<<<2, 2>>>>), ocr |-> NoSpec, overlaps |-> FALSE, replace |-> FALSE]
MCPairRequests ==
    {PairOf("pdfium", "pypdf"), PairOf("pdfium", "other"), [PairOf("pdfium", "pdfium") EXCEPT !.replace = TRUE],
     [PairOf("pdfium", "pypdf") EXCEPT !.overlaps = TRUE]}
=============================================================================
