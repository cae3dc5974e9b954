----------------------------- MODULE PdfReader -----------------------------
(***************************************************************************)
(* The PDF.js adapter (packages/readers-pdfjs): one document from open() to *)
(* close(), and the extractions that overlap on it.  A text extraction      *)
(* walks the items of a page and emits them in chunks; a render races its   *)
(* timer, its caller's signal and the end of the document.  What pdf.js     *)
(* does is taken from how the adapter uses it: destroying a document        *)
(* cancels its running renders.                                             *)
(***************************************************************************)
EXTENDS Naturals, FiniteSets

CONSTANTS
    Extractions,            \* calls of extract()
    Pages,
    MaxOccurrencesPerCheck,
    ChunkOccurrences,       \* occurrences per emitted chunk
    MaxItems                \* bound of the model: text items of a page

ASSUME PdfAssumption ==
    /\ {MaxOccurrencesPerCheck, MaxItems} \subseteq Nat
    /\ ChunkOccurrences \in Nat \ {0}

VARIABLES
    document,       \* the handle: "opening", "failing", "pageless", "open", "closed", "failed"
    pdfTask,        \* the loading task: "alive" or "destroyed"
    pages,          \* pages whose record is cached in the handle
    extractions     \* extraction -> where it stands

pdfReaderVars == <<document, pdfTask, pages, extractions>>

\* An extraction that has not been called.
Idle ==
    [pc |-> "idle", kind |-> "text", page |-> CHOOSE p \in Pages : TRUE,
     aborted |-> FALSE, items |-> 0, chunk |-> 0, retained |-> 0, emitted |-> 0,
     canvas |-> FALSE, render |-> "none", status |-> "none", produced |-> 0]

PdfReaderInit ==
    /\ document = "opening" /\ pdfTask = "alive"
    /\ pages = {}
    /\ extractions = [x \in Extractions |-> Idle]

(***************************************************************************)
(* The document.                                                           *)
(***************************************************************************)

\* Loading succeeds, or fails, is too late or finds too many pages: then the
\* task is destroyed before open() throws.  A document of no page makes open()
\* throw at once, and its task stays.
Loaded ==
    /\ document = "opening"
    /\ document' \in {"open", "failing", "pageless"}
    /\ UNCHANGED <<pdfTask, pages, extractions>>

Destroyed ==
    /\ document = "failing"
    /\ document' = "failed" /\ pdfTask' = "destroyed"
    /\ UNCHANGED <<pages, extractions>>

\* close() is idempotent; it destroys the document under whoever still uses it.
Close ==
    /\ document = "open"
    /\ document' = "closed" /\ pdfTask' = "destroyed" /\ pages' = {}
    /\ extractions' = [x \in Extractions |->
                        IF extractions[x].render = "running"
                        THEN [extractions[x] EXCEPT !.render = "cancelled"]
                        ELSE extractions[x]]

(***************************************************************************)
(* Extractions.                                                            *)
(***************************************************************************)

Now(x, r) == extractions' = [extractions EXCEPT ![x] = r]

\* A terminal CheckResult; whatever is not a success reports nothing produced.
Failed(r, status) == [r EXCEPT !.pc = "ended", !.status = status, !.chunk = 0]

Reported(r, status) ==
    [r EXCEPT !.pc = "ended", !.status = status, !.produced = r.retained, !.chunk = 0]

\* What follows handlePage: the text of the page is asked for, or a canvas is
\* made and a render task started on it, which a late signal cancels at once.
OnPage(r) ==
    IF r.kind = "text" THEN {[r EXCEPT !.pc = "content"]}
    ELSE {IF r.aborted THEN Failed(r, "cancelled")
          ELSE [r EXCEPT !.pc = "render", !.canvas = TRUE, !.render = "running"],
          Failed(r, "failed")}

Call(x, kind, page, aborted) ==
    LET r == [Idle EXCEPT !.kind = kind, !.page = page, !.aborted = aborted]
    IN  /\ document = "open" /\ extractions[x].pc = "idle"
        /\ \/ aborted /\ Now(x, Failed(r, "cancelled"))
           \/ ~aborted /\ page \in pages /\ \E next \in OnPage(r) : Now(x, next)
           \/ ~aborted /\ page \notin pages /\ Now(x, [r EXCEPT !.pc = "page"])
        /\ UNCHANGED <<document, pdfTask, pages>>

\* The capability is not this adapter's.
Unsupported(x) ==
    /\ document = "open" /\ extractions[x].pc = "idle"
    /\ Now(x, Failed(Idle, "unsupported"))
    /\ UNCHANGED <<document, pdfTask, pages>>

\* getPage answers: the record is cached whatever became of the handle, or the
\* page's geometry is not supported.
PageLoads(x) ==
    LET r == extractions[x]
    IN  /\ r.pc = "page"
        /\ \/ /\ pages' = pages \cup {r.page}
              /\ \E next \in OnPage(r) : Now(x, next)
           \/ /\ \E status \in {"failed", "unsupported"} : Now(x, Failed(r, status))
              /\ UNCHANGED pages
        /\ UNCHANGED <<document, pdfTask>>

\* getTextContent answers with the items of the page.
ContentArrives(x) ==
    LET r == extractions[x]
    IN  /\ r.pc = "content"
        /\ \/ ~r.aborted /\ \E n \in 0..MaxItems : Now(x, [r EXCEPT !.pc = "walk", !.items = n])
           \/ r.aborted /\ Now(x, Failed(r, "cancelled"))
           \/ Now(x, Failed(r, "failed"))
        /\ UNCHANGED <<document, pdfTask, pages>>

\* Mutant: a cancelled walk forgets the chunk it has begun.
StopsAtOnce(x) ==
    LET r == extractions[x]
    IN  /\ r.pc = "walk" /\ r.aborted /\ r.items > 0
        /\ Now(x, Reported(r, "cancelled"))
        /\ UNCHANGED <<document, pdfTask, pages>>

\* The walk is told to stop: what it has is still flushed.
Stops(x) ==
    LET r == extractions[x]
    IN  /\ r.pc = "walk" /\ r.aborted /\ r.items > 0
        /\ Now(x, [r EXCEPT !.pc = "flush", !.status = "cancelled"])
        /\ UNCHANGED <<document, pdfTask, pages>>

\* The next item joins the chunk; the cap is a failure, a full chunk is sent.
Walks(x) ==
    LET r == extractions[x]
        q == [r EXCEPT !.items = @ - 1, !.retained = @ + 1, !.chunk = @ + 1]
    IN  /\ r.pc = "walk" /\ ~r.aborted /\ r.items > 0
        /\ Now(x, IF q.retained > MaxOccurrencesPerCheck THEN Failed(q, "failed")
                  ELSE IF q.chunk >= ChunkOccurrences THEN [q EXCEPT !.pc = "emit"]
                  ELSE q)
        /\ UNCHANGED <<document, pdfTask, pages>>

WalkEnds(x) ==
    LET r == extractions[x]
    IN  /\ r.pc = "walk" /\ r.items = 0
        /\ Now(x, [r EXCEPT !.pc = "flush", !.status = "completed"])
        /\ UNCHANGED <<document, pdfTask, pages>>

\* emitChunk is done with a chunk, the last one included, or throws.
Emitted(x) ==
    LET r == extractions[x]
        q == [r EXCEPT !.emitted = @ + r.chunk, !.chunk = 0]
    IN  /\ r.pc \in {"emit", "flush"}
        /\ \/ Now(x, IF r.pc = "emit" THEN [q EXCEPT !.pc = "walk"]
                     ELSE Reported(q, r.status))
           \/ r.chunk > 0 /\ Now(x, Failed(r, "failed"))
        /\ UNCHANGED <<document, pdfTask, pages>>

\* The canvas is zeroed, whatever the outcome.
Released(r, status) == [Failed(r, status) EXCEPT !.canvas = FALSE]

\* task.cancel() on a task that may have settled already.
Cancelled(r) == IF r.render = "running" THEN [r EXCEPT !.render = "cancelled"] ELSE r

\* pdf.js finishes or fails a render.
RenderSettles(x) ==
    /\ extractions[x].render = "running"
    /\ \E outcome \in {"done", "failed"} :
        Now(x, [extractions[x] EXCEPT !.render = outcome])
    /\ UNCHANGED <<document, pdfTask, pages>>

\* The task's promise wins the race: pixels are read, or they cannot be; a task
\* that was cancelled with its document is taken for a timeout.
RenderAnswers(x) ==
    LET r == extractions[x]
    IN  /\ r.pc = "render"
        /\ \/ r.render = "done" /\ \E status \in {"completed", "failed"} : Now(x, Released(r, status))
           \/ r.render = "failed" /\ Now(x, Released(r, "failed"))
           \/ r.render = "cancelled" /\ Now(x, Released(r, "timeout"))
        /\ UNCHANGED <<document, pdfTask, pages>>

\* Mutant: the timer gives up on the render and lets it run on.
RenderTimesOutOnly(x) ==
    LET r == extractions[x]
    IN  /\ r.pc = "render"
        /\ Now(x, Released(r, "timeout"))
        /\ UNCHANGED <<document, pdfTask, pages>>

RenderTimesOut(x) ==
    LET r == extractions[x]
    IN  /\ r.pc = "render"
        /\ Now(x, Cancelled(Released(r, "timeout")))
        /\ UNCHANGED <<document, pdfTask, pages>>

\* The caller's signal: a render is cancelled at once, a walk at its next item.
\* The listener stays on the signal when the render is over.
AbortExtraction(x) ==
    LET r == [extractions[x] EXCEPT !.aborted = TRUE]
    IN  /\ extractions[x].pc \notin {"idle", "ended"} /\ ~extractions[x].aborted
        /\ Now(x, IF r.pc = "render" THEN Cancelled(Released(r, "cancelled")) ELSE r)
        /\ UNCHANGED <<document, pdfTask, pages>>

PdfReaderNext ==
    \/ Loaded \/ Destroyed \/ Close
    \/ \E x \in Extractions :
        \/ \E kind \in {"text", "render"}, p \in Pages, b \in BOOLEAN : Call(x, kind, p, b)
        \/ Unsupported(x) \/ PageLoads(x) \/ ContentArrives(x)
        \/ Stops(x) \/ Walks(x) \/ WalkEnds(x) \/ Emitted(x)
        \/ RenderSettles(x) \/ RenderAnswers(x) \/ RenderTimesOut(x)
        \/ AbortExtraction(x)

(***************************************************************************)
(* Properties.                                                             *)
(***************************************************************************)

\* A completed or cancelled extraction reports as produced what it emitted, to
\* the last partial chunk, although it may be told to stop at any item.  One
\* that ends otherwise reports nothing, also when chunks of it went out.
ReportedIsEmitted ==
    \A x \in Extractions :
        LET r == extractions[x]
        IN  r.pc = "ended" =>
                r.produced = IF r.status \in {"completed", "cancelled"} THEN r.emitted ELSE 0

\* A loading task is left behind only by a document without pages; an
\* extraction that is over leaves no canvas and no running render, whoever
\* ended it.
PdfLeavesNothing ==
    /\ pdfTask = "alive" => document \in {"opening", "failing", "open", "pageless"}
    /\ \A x \in Extractions :
        extractions[x].pc = "ended" =>
            ~extractions[x].canvas /\ extractions[x].render # "running"

\* An extraction that succeeded or was cancelled has told what it emitted, any
\* other claims nothing, and none holds a canvas, a render or a closed document.
ExtractionIsAccounted == ReportedIsEmitted /\ PdfLeavesNothing
=============================================================================
