--------------------------- MODULE Readers_proofs ---------------------------
(***************************************************************************)
(* What the parts of the readers keep in every behaviour of ReadersSpec:    *)
(* an extraction of the PDF.js adapter accounts for what it emitted, the    *)
(* OCR model's state tells what its store and its memory hold, and the OCR  *)
(* reader's operations keep apart.                                          *)
(***************************************************************************)
EXTENDS MCReaders, FiniteSetTheorems, SequenceTheorems, TLAPS

(***************************************************************************)
(* The PDF.js adapter.                                                     *)
(***************************************************************************)
PdfRecords ==
    [pc : {"idle", "page", "content", "walk", "emit", "flush", "render", "ended"},
     kind : {"text", "render"}, page : Pages \cup {Idle.page},
     aborted : BOOLEAN, items : Nat, chunk : Nat, retained : Nat, emitted : Nat,
     canvas : BOOLEAN, render : {"none", "running", "done", "failed", "cancelled"},
     status : {"none", "completed", "cancelled", "failed", "unsupported", "timeout"},
     produced : Nat]

\* What is retained is emitted or still in the chunk, and only a render that
\* is under way has a canvas; nothing is reported before the end.
Accounted(r) ==
    /\ r.pc \in {"idle", "page", "content", "render"} =>
            r.retained = 0 /\ r.emitted = 0 /\ r.chunk = 0
    /\ r.pc \in {"walk", "emit", "flush"} => r.retained = r.emitted + r.chunk
    /\ r.pc # "ended" => r.produced = 0
    /\ r.pc = "flush" => r.status \in {"completed", "cancelled"}
    /\ r.pc = "ended" =>
            r.produced = IF r.status \in {"completed", "cancelled"} THEN r.emitted ELSE 0
    /\ r.pc # "render" => ~r.canvas /\ r.render # "running"

PdfInv ==
    /\ extractions \in [Extractions -> PdfRecords]
    /\ \A x \in Extractions : Accounted(extractions[x])
    /\ pdfTask = "alive" => document \in {"opening", "failing", "open", "pageless"}

USE PdfAssumption

\* The record of one extraction is replaced by an accounted one.
LEMMA OneRecord ==
    ASSUME PdfInv, NEW x \in Extractions, NEW r \in PdfRecords, Accounted(r), Now(x, r),
           document' = document, pdfTask' = pdfTask
    PROVE  PdfInv'
BY DEF PdfInv, Now, Accounted

\* An extraction that has just been called is in order.
LEMMA FreshRecord ==
    ASSUME NEW kind \in {"text", "render"}, NEW page \in Pages, NEW aborted \in BOOLEAN
    PROVE  LET r == [Idle EXCEPT !.kind = kind, !.page = page, !.aborted = aborted]
           IN  r \in PdfRecords /\ Accounted(r) /\ r.pc = "idle" /\ r.status = "none"
BY DEF Idle, PdfRecords, Accounted

\* Ending an extraction that has emitted nothing is in order, whatever it says.
LEMMA FailedInOrder ==
    ASSUME NEW r \in PdfRecords, Accounted(r), r.pc # "ended",
           NEW status \in {"completed", "cancelled", "failed", "unsupported", "timeout"},
           status = "failed" \/ r.pc \in {"idle", "page", "content"}, r.pc # "render"
    PROVE  Failed(r, status) \in PdfRecords /\ Accounted(Failed(r, status))
<1>1. Failed(r, status) \in PdfRecords
    BY DEF Failed, PdfRecords
<1>2. QED BY <1>1 DEF Failed, PdfRecords, Accounted

\* What follows the page's record is in order.
LEMMA PageInOrder ==
    ASSUME NEW r \in PdfRecords, Accounted(r), r.pc \in {"idle", "page"},
           NEW next \in OnPage(r)
    PROVE  next \in PdfRecords /\ Accounted(next)
<1>1. CASE r.kind = "text"
    BY <1>1 DEF OnPage, PdfRecords, Accounted
<1>2. CASE r.kind # "text" /\ next = Failed(r, "failed")
    BY <1>2, FailedInOrder
<1>3. CASE r.kind # "text" /\ r.aborted /\ next = Failed(r, "cancelled")
    BY <1>3, FailedInOrder
<1>4. CASE r.kind # "text" /\ ~r.aborted
           /\ next = [r EXCEPT !.pc = "render", !.canvas = TRUE, !.render = "running"]
    BY <1>4 DEF PdfRecords, Accounted
<1>5. QED BY <1>1, <1>2, <1>3, <1>4 DEF OnPage

\* The canvas of a render is released and its task no longer runs.
LEMMA ReleasedInOrder ==
    ASSUME NEW r \in PdfRecords, Accounted(r), r.pc = "render",
           NEW status \in {"completed", "cancelled", "failed", "timeout"}
    PROVE  /\ Cancelled(Released(r, status)) \in PdfRecords
           /\ Accounted(Cancelled(Released(r, status)))
           /\ r.render # "running" =>
                Released(r, status) \in PdfRecords /\ Accounted(Released(r, status))
<1>1. Released(r, status) \in PdfRecords
    BY DEF Released, Failed, PdfRecords
<1>2. Cancelled(Released(r, status)) \in PdfRecords
    BY <1>1 DEF Cancelled, PdfRecords
<1>3. /\ Released(r, status).canvas = FALSE /\ Released(r, status).pc = "ended"
      /\ Released(r, status).produced = 0 /\ Released(r, status).emitted = 0
      /\ Released(r, status).render = r.render
    BY DEF Released, Failed, PdfRecords, Accounted
<1>4. r.render # "running" => Accounted(Released(r, status))
    BY <1>3 DEF Accounted
<1>5. Accounted(Cancelled(Released(r, status)))
    BY <1>1, <1>3 DEF Cancelled, PdfRecords, Accounted
<1>6. QED BY <1>1, <1>2, <1>4, <1>5

\* The walk: its steps keep the account of what is retained.
LEMMA WalkInOrder ==
    ASSUME NEW r \in PdfRecords, Accounted(r)
    PROVE  /\ r.pc = "content" => \A n \in 0..MaxItems :
                LET q == [r EXCEPT !.pc = "walk", !.items = n]
                IN  q \in PdfRecords /\ Accounted(q)
           /\ r.pc = "walk" => \A status \in {"completed", "cancelled"} :
                LET q == [r EXCEPT !.pc = "flush", !.status = status]
                IN  q \in PdfRecords /\ Accounted(q)
           /\ r.pc = "walk" /\ r.items > 0 =>
                LET q == [r EXCEPT !.items = @ - 1, !.retained = @ + 1, !.chunk = @ + 1]
                IN  /\ q \in PdfRecords /\ Accounted(q) /\ q.pc = "walk"
                    /\ [q EXCEPT !.pc = "emit"] \in PdfRecords
                    /\ Accounted([q EXCEPT !.pc = "emit"])
<1>1. ASSUME r.pc = "content", NEW n \in 0..MaxItems
      PROVE  LET q == [r EXCEPT !.pc = "walk", !.items = n]
             IN  q \in PdfRecords /\ Accounted(q)
  <2>1. n \in Nat
    BY PdfAssumption
  <2> DEFINE q == [r EXCEPT !.pc = "walk", !.items = n]
  <2>2. q \in PdfRecords
    BY <2>1, Zenon DEF PdfRecords
  <2>3. /\ q.pc = "walk" /\ q.retained = 0 /\ q.emitted = 0 /\ q.chunk = 0 /\ q.produced = 0
        /\ ~q.canvas /\ q.render # "running"
    BY <1>1 DEF PdfRecords, Accounted
  <2> HIDE DEF q
  <2>4. Accounted(q)
    BY <2>3 DEF Accounted
  <2>5. QED BY <2>2, <2>4 DEF q
<1>2. ASSUME r.pc = "walk", NEW status \in {"completed", "cancelled"}
      PROVE  LET q == [r EXCEPT !.pc = "flush", !.status = status]
             IN  q \in PdfRecords /\ Accounted(q)
    BY <1>2 DEF PdfRecords, Accounted
<1>3. ASSUME r.pc = "walk", r.items > 0
      PROVE  LET q == [r EXCEPT !.items = @ - 1, !.retained = @ + 1, !.chunk = @ + 1]
             IN  /\ q \in PdfRecords /\ Accounted(q) /\ q.pc = "walk"
                 /\ [q EXCEPT !.pc = "emit"] \in PdfRecords
                 /\ Accounted([q EXCEPT !.pc = "emit"])
  <2> DEFINE q == [r EXCEPT !.items = @ - 1, !.retained = @ + 1, !.chunk = @ + 1]
  <2>1. q \in PdfRecords
    <3> DEFINE n == r.items - 1  m == r.retained + 1  k == r.chunk + 1
    <3>1. n \in Nat /\ m \in Nat /\ k \in Nat
        BY <1>3 DEF PdfRecords
    <3> HIDE DEF n, m, k
    <3>2. [r EXCEPT !.items = n, !.retained = m, !.chunk = k] \in PdfRecords
        BY <3>1, Zenon DEF PdfRecords
    <3>3. QED BY <3>2 DEF n, m, k
  <2>2. /\ q.pc = "walk" /\ q.retained = q.emitted + q.chunk /\ q.produced = 0
        /\ ~q.canvas /\ q.render # "running"
    BY <1>3 DEF PdfRecords, Accounted
  <2> HIDE DEF q
  <2>3. Accounted(q)
    BY <2>1, <2>2 DEF Accounted
  <2>4. [q EXCEPT !.pc = "emit"] \in PdfRecords /\ Accounted([q EXCEPT !.pc = "emit"])
    BY <2>1, <2>2 DEF PdfRecords, Accounted
  <2>5. QED BY <2>1, <2>2, <2>3, <2>4 DEF q
<1>4. QED BY <1>1, <1>2, <1>3

\* A chunk is emitted.
LEMMA EmissionInOrder ==
    ASSUME NEW r \in PdfRecords, Accounted(r), r.pc \in {"emit", "flush"}
    PROVE  LET q == [r EXCEPT !.emitted = @ + r.chunk, !.chunk = 0]
           IN  /\ r.pc = "emit" => [q EXCEPT !.pc = "walk"] \in PdfRecords
                                   /\ Accounted([q EXCEPT !.pc = "walk"])
               /\ r.pc = "flush" => Reported(q, r.status) \in PdfRecords
                                    /\ Accounted(Reported(q, r.status))
<1> DEFINE q == [r EXCEPT !.emitted = @ + r.chunk, !.chunk = 0]
<1>1. /\ q \in PdfRecords /\ q.retained = q.emitted /\ q.chunk = 0 /\ q.produced = 0
      /\ ~q.canvas /\ q.render # "running" /\ q.pc = r.pc
    BY DEF PdfRecords, Accounted
<1>2. /\ r.status \in {"none", "completed", "cancelled", "failed", "unsupported", "timeout"}
      /\ r.pc = "flush" => r.status \in {"completed", "cancelled"}
      /\ q.status = r.status
    BY DEF PdfRecords, Accounted
<1> HIDE DEF q
<1>3. [q EXCEPT !.pc = "walk"] \in PdfRecords /\ Accounted([q EXCEPT !.pc = "walk"])
    BY <1>1 DEF PdfRecords, Accounted
<1>4. ASSUME r.pc = "flush"
      PROVE  Reported(q, r.status) \in PdfRecords /\ Accounted(Reported(q, r.status))
  <2> DEFINE p == Reported(q, r.status)
  <2>1. q.retained \in Nat
    BY <1>1 DEF PdfRecords
  <2>2. p \in PdfRecords
    BY <1>1, <1>2, <2>1, Zenon DEF PdfRecords, Reported
  <2>3. /\ p.pc = "ended" /\ p.produced = q.retained /\ p.emitted = q.emitted
        /\ p.canvas = q.canvas /\ p.render = q.render /\ p.status = r.status
    BY <1>1 DEF PdfRecords, Reported
  <2> HIDE DEF p
  <2>4. Accounted(p)
    BY <1>1, <1>2, <1>4, <2>3 DEF Accounted
  <2> QED BY <2>2, <2>4 DEF p
<1>5. QED BY <1>3, <1>4 DEF q

\* One action on one extraction.
LEMMA ExtractionSteps ==
    ASSUME PdfInv, NEW x \in Extractions,
           \/ \E kind \in {"text", "render"}, p \in Pages, b \in BOOLEAN : Call(x, kind, p, b)
           \/ Unsupported(x) \/ PageLoads(x) \/ ContentArrives(x)
           \/ Stops(x) \/ Walks(x) \/ WalkEnds(x) \/ Emitted(x)
           \/ RenderSettles(x) \/ RenderAnswers(x) \/ RenderTimesOut(x)
           \/ AbortExtraction(x)
    PROVE  PdfInv'
<1> DEFINE r == extractions[x]
<1>1. r \in PdfRecords /\ Accounted(r)
    BY DEF PdfInv
<1>2. SUFFICES ASSUME document' = document, pdfTask' = pdfTask
               PROVE  \E q \in PdfRecords : Accounted(q) /\ Now(x, q)
  <2>1. document' = document /\ pdfTask' = pdfTask
    BY DEF Call, Unsupported, PageLoads, ContentArrives, Stops, Walks, WalkEnds, Emitted,
           RenderSettles, RenderAnswers, RenderTimesOut, AbortExtraction
  <2>2. QED BY <1>2, <2>1, OneRecord
<1>3. ASSUME NEW kind \in {"text", "render"}, NEW p \in Pages, NEW b \in BOOLEAN,
             Call(x, kind, p, b)
      PROVE  \E q \in PdfRecords : Accounted(q) /\ Now(x, q)
  <2> DEFINE c == [Idle EXCEPT !.kind = kind, !.page = p, !.aborted = b]
  <2>1. c \in PdfRecords /\ Accounted(c) /\ c.pc = "idle"
    BY FreshRecord
  <2>2. \/ Now(x, Failed(c, "cancelled"))
        \/ \E next \in OnPage(c) : Now(x, next)
        \/ Now(x, [c EXCEPT !.pc = "page"])
    BY <1>3 DEF Call
  <2> HIDE DEF c
  <2>3. Failed(c, "cancelled") \in PdfRecords /\ Accounted(Failed(c, "cancelled"))
    BY <2>1, FailedInOrder
  <2>4. [c EXCEPT !.pc = "page"] \in PdfRecords /\ Accounted([c EXCEPT !.pc = "page"])
    BY <2>1 DEF PdfRecords, Accounted
  <2>5. \A next \in OnPage(c) : next \in PdfRecords /\ Accounted(next)
    BY <2>1, PageInOrder
  <2>6. QED BY <2>2, <2>3, <2>4, <2>5
<1>4. ASSUME Unsupported(x)
      PROVE  \E q \in PdfRecords : Accounted(q) /\ Now(x, q)
  <2>1. Idle \in PdfRecords /\ Accounted(Idle) /\ Idle.pc = "idle"
    BY DEF Idle, PdfRecords, Accounted
  <2>2. Failed(Idle, "unsupported") \in PdfRecords /\ Accounted(Failed(Idle, "unsupported"))
    BY <2>1 DEF Failed, PdfRecords, Accounted
  <2>3. QED BY <1>4, <2>2 DEF Unsupported
<1>5. ASSUME PageLoads(x)
      PROVE  \E q \in PdfRecords : Accounted(q) /\ Now(x, q)
  <2>1. r.pc = "page"
    BY <1>5 DEF PageLoads
  <2>2. \/ \E next \in OnPage(r) : Now(x, next)
        \/ \E status \in {"failed", "unsupported"} : Now(x, Failed(r, status))
    BY <1>5 DEF PageLoads
  <2> HIDE DEF r
  <2>3. \A next \in OnPage(r) : next \in PdfRecords /\ Accounted(next)
    BY <1>1, <2>1, PageInOrder
  <2>4. \A status \in {"failed", "unsupported"} :
            Failed(r, status) \in PdfRecords /\ Accounted(Failed(r, status))
    BY <1>1, <2>1, FailedInOrder
  <2>5. QED BY <2>2, <2>3, <2>4
<1>6. ASSUME ContentArrives(x)
      PROVE  \E q \in PdfRecords : Accounted(q) /\ Now(x, q)
  <2>1. /\ r.pc = "content"
        /\ \/ \E n \in 0..MaxItems : Now(x, [r EXCEPT !.pc = "walk", !.items = n])
           \/ Now(x, Failed(r, "cancelled"))
           \/ Now(x, Failed(r, "failed"))
    BY <1>6 DEF ContentArrives
  <2> HIDE DEF r
  <2>2. \A n \in 0..MaxItems :
            /\ [r EXCEPT !.pc = "walk", !.items = n] \in PdfRecords
            /\ Accounted([r EXCEPT !.pc = "walk", !.items = n])
    BY <1>1, <2>1, WalkInOrder
  <2>3. \A status \in {"cancelled", "failed"} :
            Failed(r, status) \in PdfRecords /\ Accounted(Failed(r, status))
    BY <1>1, <2>1, FailedInOrder
  <2>4. QED BY <2>1, <2>2, <2>3
<1>7. ASSUME Stops(x) \/ WalkEnds(x)
      PROVE  \E q \in PdfRecords : Accounted(q) /\ Now(x, q)
  <2>1. /\ r.pc = "walk"
        /\ \E status \in {"completed", "cancelled"} :
                Now(x, [r EXCEPT !.pc = "flush", !.status = status])
    BY <1>7 DEF Stops, WalkEnds
  <2> HIDE DEF r
  <2>2. \A status \in {"completed", "cancelled"} :
            /\ [r EXCEPT !.pc = "flush", !.status = status] \in PdfRecords
            /\ Accounted([r EXCEPT !.pc = "flush", !.status = status])
    BY <1>1, <2>1, WalkInOrder
  <2>3. QED BY <2>1, <2>2
<1>8. ASSUME Walks(x)
      PROVE  \E q \in PdfRecords : Accounted(q) /\ Now(x, q)
  <2> DEFINE q == [r EXCEPT !.items = @ - 1, !.retained = @ + 1, !.chunk = @ + 1]
  <2>1. r.pc = "walk" /\ r.items > 0
    BY <1>8 DEF Walks
  <2>2. \/ Now(x, Failed(q, "failed")) \/ Now(x, [q EXCEPT !.pc = "emit"]) \/ Now(x, q)
    BY <1>8 DEF Walks
  <2>3. /\ q \in PdfRecords /\ Accounted(q) /\ q.pc = "walk"
        /\ [q EXCEPT !.pc = "emit"] \in PdfRecords /\ Accounted([q EXCEPT !.pc = "emit"])
    <3> HIDE DEF r
    <3>1. QED BY <1>1, <2>1, WalkInOrder
  <2> HIDE DEF q
  <2>4. Failed(q, "failed") \in PdfRecords /\ Accounted(Failed(q, "failed"))
    BY <2>3, FailedInOrder
  <2>5. QED BY <2>2, <2>3, <2>4
<1>9. ASSUME Emitted(x)
      PROVE  \E q \in PdfRecords : Accounted(q) /\ Now(x, q)
  <2> DEFINE q == [r EXCEPT !.emitted = @ + r.chunk, !.chunk = 0]
  <2>1. /\ r.pc \in {"emit", "flush"}
        /\ \/ r.pc = "emit" /\ Now(x, [q EXCEPT !.pc = "walk"])
           \/ r.pc = "flush" /\ Now(x, Reported(q, r.status))
           \/ Now(x, Failed(r, "failed"))
    BY <1>9 DEF Emitted
  <2>2. /\ r.pc = "emit" => [q EXCEPT !.pc = "walk"] \in PdfRecords
                            /\ Accounted([q EXCEPT !.pc = "walk"])
        /\ r.pc = "flush" => Reported(q, r.status) \in PdfRecords
                             /\ Accounted(Reported(q, r.status))
    <3> HIDE DEF r
    <3>1. QED BY <1>1, <2>1, EmissionInOrder
  <2> HIDE DEF q, r
  <2>3. Failed(r, "failed") \in PdfRecords /\ Accounted(Failed(r, "failed"))
    BY <1>1, <2>1, FailedInOrder
  <2>4. QED BY <2>1, <2>2, <2>3
<1>10. ASSUME RenderSettles(x)
       PROVE  \E q \in PdfRecords : Accounted(q) /\ Now(x, q)
  <2>1. PICK outcome \in {"done", "failed"} : Now(x, [r EXCEPT !.render = outcome])
    BY <1>10 DEF RenderSettles, Now
  <2>2. [r EXCEPT !.render = outcome] \in PdfRecords
    BY <1>1 DEF PdfRecords
  <2>3. Accounted([r EXCEPT !.render = outcome])
    BY <1>1 DEF PdfRecords, Accounted
  <2>4. QED BY <2>1, <2>2, <2>3
<1>11. ASSUME RenderAnswers(x)
       PROVE  \E q \in PdfRecords : Accounted(q) /\ Now(x, q)
  <2>1. /\ r.pc = "render" /\ r.render # "running"
        /\ \E status \in {"completed", "failed", "timeout"} : Now(x, Released(r, status))
    BY <1>11 DEF RenderAnswers
  <2> HIDE DEF r
  <2>2. \A status \in {"completed", "failed", "timeout"} :
            Released(r, status) \in PdfRecords /\ Accounted(Released(r, status))
    BY <1>1, <2>1, ReleasedInOrder
  <2>3. QED BY <2>1, <2>2
<1>12. ASSUME RenderTimesOut(x)
       PROVE  \E q \in PdfRecords : Accounted(q) /\ Now(x, q)
  <2>1. r.pc = "render" /\ Now(x, Cancelled(Released(r, "timeout")))
    BY <1>12 DEF RenderTimesOut
  <2> HIDE DEF r
  <2>2. /\ Cancelled(Released(r, "timeout")) \in PdfRecords
        /\ Accounted(Cancelled(Released(r, "timeout")))
    BY <1>1, <2>1, ReleasedInOrder
  <2>3. QED BY <2>1, <2>2
<1>13. ASSUME AbortExtraction(x)
       PROVE  \E q \in PdfRecords : Accounted(q) /\ Now(x, q)
  <2> DEFINE a == [r EXCEPT !.aborted = TRUE]
  <2>1. a \in PdfRecords /\ Accounted(a) /\ a.pc = r.pc
    <3> HIDE DEF r
    <3>1. a \in PdfRecords /\ a.pc = r.pc
        BY <1>1 DEF PdfRecords
    <3>2. QED BY <1>1, <3>1 DEF PdfRecords, Accounted
  <2>2. \/ a.pc = "render" /\ Now(x, Cancelled(Released(a, "cancelled")))
        \/ Now(x, a)
    BY <1>13 DEF AbortExtraction
  <2> HIDE DEF a
  <2>3. a.pc = "render" =>
            /\ Cancelled(Released(a, "cancelled")) \in PdfRecords
            /\ Accounted(Cancelled(Released(a, "cancelled")))
    BY <2>1, ReleasedInOrder
  <2>4. QED BY <2>1, <2>2, <2>3
<1>14. QED BY <1>3, <1>4, <1>5, <1>6, <1>7, <1>8, <1>9, <1>10, <1>11, <1>12, <1>13

\* Closing the document cancels its running renders.
LEMMA CloseInOrder ==
    ASSUME PdfInv, Close
    PROVE  PdfInv'
<1> DEFINE C(r) == IF r.render = "running" THEN [r EXCEPT !.render = "cancelled"] ELSE r
<1>1. ASSUME NEW r \in PdfRecords, Accounted(r)
      PROVE  C(r) \in PdfRecords /\ Accounted(C(r))
    BY <1>1 DEF PdfRecords, Accounted
<1>2. extractions' = [x \in Extractions |-> C(extractions[x])]
    BY DEF Close
<1> HIDE DEF C
<1>3. \A x \in Extractions :
        C(extractions[x]) \in PdfRecords /\ Accounted(C(extractions[x]))
    BY <1>1 DEF PdfInv
<1>4. pdfTask' = "destroyed"
    BY DEF Close
<1>5. /\ extractions' \in [Extractions -> PdfRecords]
      /\ \A x \in Extractions : Accounted(extractions'[x])
    BY <1>2, <1>3
<1>6. "destroyed" # "alive"
    OBVIOUS
<1>7. QED BY <1>4, <1>5, <1>6 DEF PdfInv, Accounted

LEMMA PdfInductive ==
    ASSUME PdfInv, PdfReaderNext
    PROVE  PdfInv'
<1>1. CASE Loaded
    BY <1>1 DEF Loaded, PdfInv
<1>2. CASE Destroyed
    BY <1>2 DEF Destroyed, PdfInv
<1>3. CASE Close
    BY <1>3, CloseInOrder
<1>4. QED BY <1>1, <1>2, <1>3, ExtractionSteps DEF PdfReaderNext

LEMMA PdfBegins == PdfReaderInit => PdfInv
<1>1. Idle \in PdfRecords /\ Accounted(Idle)
    BY DEF Idle, PdfRecords, Accounted
<1>2. QED BY <1>1 DEF PdfReaderInit, PdfInv

(***************************************************************************)
(* The model's bytes.  Requests to the store are told apart by who made     *)
(* them: a preparation, or remove() (0).                                    *)
(***************************************************************************)
PreparationStates == {"get", "fetch", "del", "body", "set", "undo", "ended"}

Preparations == [pc : PreparationStates, epoch : Nat, aborted : BOOLEAN]

Requests == [kind : {"get", "del", "set"}, by : Nat]

\* Somebody still removes the data.
Removes(s) == \E i \in DOMAIN s : s[i].by = 0

\* p has asked after every removal, so it will not be surprised by one.
AsksLast(s, p) == \A i, j \in DOMAIN s : s[i].by = p /\ s[j].by = 0 => j < i

\* A removal follows whatever p has asked for.
Outlived(s, p) ==
    \A i \in DOMAIN s : s[i].by = p => \E j \in DOMAIN s : i < j /\ s[j].by = 0

ModelTypes ==
    /\ preparations \in Seq(Preparations) /\ store \in Seq(Requests)
    /\ cache \in Bytes \cup {"none"} /\ memory \in {"none", "good"}
    /\ epoch \in Nat /\ removedAt \in SUBSET Nat

Numbered ==
    /\ \A p \in DOMAIN preparations : preparations[p].epoch <= epoch
    /\ \A i \in DOMAIN store : store[i].by <= Len(preparations)
    /\ \A n \in removedAt : n <= Len(preparations)

\* Only the newest preparation can be alive.
NewestServes ==
    \A p \in DOMAIN preparations : ~preparations[p].aborted => p = Len(preparations)

\* One that is alive and under way works for a memory that is empty, and, from
\* the moment it has read the slot, undisturbed by any removal.
ServesAlone ==
    \A p \in DOMAIN preparations : Alive(p) =>
        /\ preparations[p].pc # "ended" => memory = "none"
        /\ preparations[p].pc \in {"fetch", "body", "del", "set"} => ~Removes(store)
        /\ preparations[p].pc = "get" => AsksLast(store, p)
        /\ preparations[p].pc # "undo"

RemovingForgets == Removes(store) => memory = "none"

\* When nobody has prepared since the last removal, whatever could still put
\* bytes into the slot is followed by that removal.
RemovalPrevails ==
    Len(preparations) \in removedAt =>
        /\ memory = "none"
        /\ ~Removes(store) => cache = "none"
        /\ \A p \in DOMAIN preparations :
            /\ preparations[p].epoch # epoch
            /\ preparations[p].pc = "set" => Outlived(store, p)

ModelInv ==
    /\ ModelTypes /\ Numbered /\ NewestServes /\ ServesAlone
    /\ RemovingForgets /\ ReadyHasBytes /\ RemovalPrevails

USE ModelAssumption

\* The store answers: what was asked before and after is kept.
LEMMA TailOfRequests ==
    ASSUME NEW s \in Seq(Requests), s # <<>>
    PROVE  /\ Head(s) \in Requests /\ Head(s) = s[1] /\ 1 \in DOMAIN s
           /\ Tail(s) \in Seq(Requests)
           /\ \A i \in DOMAIN Tail(s) : i + 1 \in DOMAIN s /\ Tail(s)[i] = s[i + 1]
           /\ \A i \in DOMAIN s : i = 1 \/ (i - 1 \in DOMAIN Tail(s) /\ Tail(s)[i - 1] = s[i])
<1>1. /\ Tail(s) \in Seq(Requests) /\ Len(Tail(s)) = Len(s) - 1
      /\ \A i \in 1..Len(Tail(s)) : Tail(s)[i] = s[i + 1]
      /\ Head(s) \in Requests
    BY HeadTailProperties
<1>2. /\ DOMAIN s = 1..Len(s) /\ DOMAIN Tail(s) = 1..Len(Tail(s))
      /\ Len(s) \in Nat \ {0}
    BY <1>1, LenProperties, EmptySeq
<1>3. Head(s) = s[1] /\ 1 \in DOMAIN s
    BY <1>2
<1>4. ASSUME NEW i \in DOMAIN Tail(s)
      PROVE  i + 1 \in DOMAIN s /\ Tail(s)[i] = s[i + 1]
    BY <1>1, <1>2, <1>4
<1>5. ASSUME NEW i \in DOMAIN s, i # 1
      PROVE  i - 1 \in DOMAIN Tail(s) /\ Tail(s)[i - 1] = s[i]
  <2>1. i - 1 \in 1..Len(Tail(s)) /\ (i - 1) + 1 = i
    BY <1>1, <1>2, <1>5
  <2>2. QED BY <1>1, <1>2, <2>1
<1>6. QED BY <1>1, <1>3, <1>4, <1>5

LEMMA RequestAnswered ==
    ASSUME NEW s \in Seq(Requests), s # <<>>
    PROVE  /\ Tail(s) \in Seq(Requests)
           /\ Removes(Tail(s)) => Removes(s)
           /\ s[1].by # 0 => (Removes(s) => Removes(Tail(s)))
           /\ \A p : AsksLast(s, p) => AsksLast(Tail(s), p)
           /\ \A p : Outlived(s, p) => Outlived(Tail(s), p)
           /\ \A p : AsksLast(s, p) /\ s[1].by = p => ~Removes(s)
           /\ \A n : (\A i \in DOMAIN s : s[i].by <= n)
                        => \A i \in DOMAIN Tail(s) : Tail(s)[i].by <= n
<1> DEFINE t == Tail(s)
<1>1. /\ Head(s) \in Requests /\ Head(s) = s[1] /\ 1 \in DOMAIN s
      /\ t \in Seq(Requests)
      /\ \A i \in DOMAIN t : i + 1 \in DOMAIN s /\ t[i] = s[i + 1]
      /\ \A i \in DOMAIN s : i = 1 \/ (i - 1 \in DOMAIN t /\ t[i - 1] = s[i])
    BY TailOfRequests
<1>2. /\ \A i \in DOMAIN s : i \in Int /\ i >= 1
      /\ \A i \in DOMAIN t : i \in Int /\ i >= 1
    BY <1>1, LenProperties
<1> HIDE DEF t
<1>3. Removes(t) => Removes(s)
    BY <1>1 DEF Removes
<1>4. s[1].by # 0 => (Removes(s) => Removes(t))
    BY <1>1 DEF Removes
<1>5. ASSUME NEW p, AsksLast(s, p)
      PROVE  AsksLast(t, p) /\ (s[1].by = p => ~Removes(s))
  <2>1. AsksLast(t, p)
    <3> SUFFICES ASSUME NEW i \in DOMAIN t, NEW j \in DOMAIN t, t[i].by = p, t[j].by = 0
                 PROVE  j < i
        BY DEF AsksLast
    <3>1. j + 1 < i + 1
        BY <1>1, <1>5 DEF AsksLast
    <3>2. QED BY <1>2, <3>1
  <2>2. s[1].by = p => ~Removes(s)
    BY <1>1, <1>2, <1>5 DEF AsksLast, Removes
  <2>3. QED BY <2>1, <2>2
<1>6. ASSUME NEW p, Outlived(s, p)
      PROVE  Outlived(t, p)
  <2> SUFFICES ASSUME NEW i \in DOMAIN t, t[i].by = p
               PROVE  \E j \in DOMAIN t : i < j /\ t[j].by = 0
    BY DEF Outlived
  <2>1. PICK k \in DOMAIN s : i + 1 < k /\ s[k].by = 0
    BY <1>1, <1>6 DEF Outlived
  <2>2. k # 1 /\ k - 1 \in DOMAIN t /\ t[k - 1] = s[k] /\ i < k - 1
    BY <1>1, <1>2, <2>1
  <2>3. QED BY <2>1, <2>2
<1>7. ASSUME NEW n, \A i \in DOMAIN s : s[i].by <= n
      PROVE  \A i \in DOMAIN t : t[i].by <= n
    BY <1>1, <1>7
<1>8. QED BY <1>1, <1>3, <1>4, <1>5, <1>6, <1>7 DEF t

\* Somebody asks the store.
LEMMA RequestMade ==
    ASSUME NEW s \in Seq(Requests), NEW r \in Requests
    PROVE  /\ Append(s, r) \in Seq(Requests)
           /\ r.by # 0 => (Removes(Append(s, r)) <=> Removes(s))
           /\ r.by = 0 => Removes(Append(s, r)) /\ \A p \in Nat \ {0} : Outlived(Append(s, r), p)
           /\ r.by # 0 => \A p : AsksLast(s, p) => AsksLast(Append(s, r), p)
           /\ \A p : Outlived(s, p) /\ p # r.by => Outlived(Append(s, r), p)
           /\ \A n \in Nat : (\A i \in DOMAIN s : s[i].by <= n) /\ r.by <= n
                        => \A i \in DOMAIN Append(s, r) : Append(s, r)[i].by <= n
<1> DEFINE t == Append(s, r)
           n == Len(s)
<1>1. /\ t \in Seq(Requests) /\ n \in Nat
      /\ DOMAIN s = 1..n /\ DOMAIN t = 1..(n + 1)
      /\ \A i \in 1..n : t[i] = s[i]
      /\ t[n + 1] = r
    BY AppendProperties, LenProperties
<1> HIDE DEF t, n
<1>2. \A i \in DOMAIN t : i \in Int /\ ((i \in DOMAIN s /\ t[i] = s[i]) \/ (i = n + 1 /\ t[i] = r))
    BY <1>1
<1>3. \A i \in DOMAIN s : i \in DOMAIN t /\ t[i] = s[i] /\ i < n + 1
    BY <1>1
<1>4. n + 1 \in DOMAIN t
    BY <1>1
<1>5. r.by # 0 => (Removes(t) <=> Removes(s))
    BY <1>2, <1>3 DEF Removes
<1>6. ASSUME r.by = 0
      PROVE  Removes(t) /\ \A p \in Nat \ {0} : Outlived(t, p)
    BY <1>1, <1>2, <1>3, <1>4, <1>6 DEF Removes, Outlived
<1>7. ASSUME r.by # 0, NEW p, AsksLast(s, p)
      PROVE  AsksLast(t, p)
    BY <1>2, <1>3, <1>7 DEF AsksLast
<1>8. ASSUME NEW p, Outlived(s, p), p # r.by
      PROVE  Outlived(t, p)
  <2> SUFFICES ASSUME NEW i \in DOMAIN t, t[i].by = p
               PROVE  \E j \in DOMAIN t : i < j /\ t[j].by = 0
    BY DEF Outlived
  <2>1. i \in DOMAIN s /\ s[i].by = p
    BY <1>2, <1>8
  <2>2. QED BY <1>3, <1>8, <2>1 DEF Outlived
<1>9. ASSUME NEW m \in Nat, \A i \in DOMAIN s : s[i].by <= m, r.by <= m
      PROVE  \A i \in DOMAIN t : t[i].by <= m
    BY <1>2, <1>9
<1>10. QED BY <1>1, <1>5, <1>6, <1>7, <1>8, <1>9 DEF t

\* The store is asked again by whom it has just answered.
LEMMA RequestRenewed ==
    ASSUME NEW s \in Seq(Requests), s # <<>>, s[1].by # 0, NEW r \in Requests, r.by = s[1].by,
           NEW n \in Nat, \A i \in DOMAIN s : s[i].by <= n
    PROVE  /\ Append(Tail(s), r) \in Seq(Requests)
           /\ Removes(Append(Tail(s), r)) <=> Removes(s)
           /\ \A p : AsksLast(s, p) => AsksLast(Append(Tail(s), r), p)
           /\ \A p : Outlived(s, p) /\ p # s[1].by => Outlived(Append(Tail(s), r), p)
           /\ \A i \in DOMAIN Append(Tail(s), r) : Append(Tail(s), r)[i].by <= n
<1> DEFINE t == Tail(s)
<1>1. /\ t \in Seq(Requests)
      /\ Removes(t) <=> Removes(s)
      /\ \A p : AsksLast(s, p) => AsksLast(t, p)
      /\ \A p : Outlived(s, p) => Outlived(t, p)
      /\ \A i \in DOMAIN t : t[i].by <= n
    BY RequestAnswered
<1>2. r.by <= n /\ r.by # 0
  <2>1. 1 \in DOMAIN s
    BY TailOfRequests
  <2>2. QED BY <2>1
<1> HIDE DEF t
<1>3. QED BY <1>1, <1>2, RequestMade DEF t

\* One preparation moves on.
LEMMA OneMoves ==
    ASSUME ModelTypes, NEW p \in DOMAIN preparations, NEW pc \in PreparationStates,
           At(p, pc), epoch' = epoch
    PROVE  /\ preparations' \in Seq(Preparations) /\ Len(preparations') = Len(preparations)
           /\ DOMAIN preparations' = DOMAIN preparations
           /\ preparations'[p].pc = pc
           /\ \A q \in DOMAIN preparations :
                /\ preparations'[q].epoch = preparations[q].epoch
                /\ preparations'[q].aborted = preparations[q].aborted
                /\ Alive(q)' <=> Alive(q)
                /\ q # p => preparations'[q].pc = preparations[q].pc
<1>1. /\ preparations \in Seq(Preparations) /\ DOMAIN preparations = 1..Len(preparations)
      /\ preparations[p] \in Preparations
    BY LenProperties, ElementOfSeq DEF ModelTypes
<1> DEFINE r == [preparations[p] EXCEPT !.pc = pc]
<1>2. /\ r \in Preparations /\ r.pc = pc /\ r.epoch = preparations[p].epoch
      /\ r.aborted = preparations[p].aborted
    BY <1>1 DEF Preparations
<1>3. preparations' = [preparations EXCEPT ![p] = r]
    BY DEF At
<1> HIDE DEF r
<1>4. /\ preparations' \in Seq(Preparations) /\ Len(preparations') = Len(preparations)
      /\ \A j \in 1..Len(preparations) : preparations'[j] = IF j = p THEN r ELSE preparations[j]
    BY <1>1, <1>2, <1>3, ExceptSeq
<1>5. DOMAIN preparations' = DOMAIN preparations
    BY <1>1, <1>4, LenProperties
<1>6. ASSUME NEW q \in DOMAIN preparations
      PROVE  /\ preparations'[q].epoch = preparations[q].epoch
             /\ preparations'[q].aborted = preparations[q].aborted
             /\ q # p => preparations'[q].pc = preparations[q].pc
    BY <1>1, <1>2, <1>4
<1>7. ASSUME NEW q \in DOMAIN preparations
      PROVE  Alive(q)' <=> Alive(q)
    BY <1>6 DEF Alive
<1>8. QED BY <1>1, <1>2, <1>4, <1>5, <1>6, <1>7

\* The store answers a preparation, which goes on, or asks again.
LEMMA PreparationAnswered ==
    ASSUME ModelInv, store # <<>>, NEW p \in Nat, p = Head(store).by, p # 0,
           store' = Tail(store) \/ store' = Append(Tail(store), [kind |-> "del", by |-> p])
    PROVE  /\ p \in DOMAIN preparations /\ store' \in Seq(Requests)
           /\ Removes(store') <=> Removes(store)
           /\ \A q : AsksLast(store, q) => AsksLast(store', q)
           /\ \A q : Outlived(store, q) /\ q # p => Outlived(store', q)
           /\ \A i \in DOMAIN store' : store'[i].by <= Len(preparations)
           /\ Alive(p) /\ preparations[p].pc = "get" => ~Removes(store)
<1>1. store \in Seq(Requests) /\ preparations \in Seq(Preparations)
    BY DEF ModelInv, ModelTypes
<1>2. /\ Head(store) = store[1] /\ 1 \in DOMAIN store
      /\ \A i \in DOMAIN store : store[i].by <= Len(preparations)
    BY <1>1, TailOfRequests DEF ModelInv, Numbered
<1>3. Len(preparations) \in Nat /\ DOMAIN preparations = 1..Len(preparations)
    BY <1>1, LenProperties
<1>4. p \in DOMAIN preparations
    BY <1>2, <1>3
<1>5. Alive(p) /\ preparations[p].pc = "get" => ~Removes(store)
    BY <1>1, <1>2, <1>4, RequestAnswered DEF ModelInv, ServesAlone
<1>6. CASE store' = Tail(store)
    BY <1>1, <1>2, <1>4, <1>5, <1>6, RequestAnswered
<1>7. CASE store' = Append(Tail(store), [kind |-> "del", by |-> p])
  <2> DEFINE r == [kind |-> "del", by |-> p]
  <2>1. r \in Requests /\ r.by = store[1].by
    BY <1>2 DEF Requests
  <2> HIDE DEF r
  <2>2. store' = Append(Tail(store), r)
    BY <1>7 DEF r
  <2>3. QED BY <1>1, <1>2, <1>3, <1>4, <1>5, <2>1, <2>2, RequestRenewed
<1>8. QED BY <1>6, <1>7

\* What a preparation may do when it goes on: the shared state stays sound.
LEMMA PreparationMoves ==
    ASSUME ModelInv, NEW p \in DOMAIN preparations, NEW pc \in PreparationStates,
           At(p, pc), epoch' = epoch, removedAt' = removedAt,
           store' \in Seq(Requests),
           Removes(store') <=> Removes(store),
           \A q : AsksLast(store, q) => AsksLast(store', q),
           \A q : Outlived(store, q) /\ q # p => Outlived(store', q),
           \A i \in DOMAIN store' : store'[i].by <= Len(preparations),
           cache' \in Bytes \cup {"none"}, memory' \in {"none", "good"},
           \* a dead one changes nothing, but deletes what is in the slot or
           \* a last write that a removal follows
           ~Alive(p) => /\ memory' = memory /\ modelState' = modelState
                        /\ pc \in {"ended", "undo"}
                        /\ \/ cache' \in {cache, "none"}
                           \/ preparations[p].pc = "set" /\ (Outlived(store, p) => Removes(store)),
           \* a living one brings bytes to the memory, or stays under way
           Alive(p) => /\ pc # "get" /\ pc # "undo" /\ ~Removes(store)
                       /\ pc # "ended" => memory' = "none"
                       /\ modelState' \in {"ready_memory", "ready_cached"} <=> memory' = "good"
    PROVE  ModelInv'
<1>1. /\ preparations' \in Seq(Preparations) /\ Len(preparations') = Len(preparations)
      /\ DOMAIN preparations' = DOMAIN preparations
      /\ preparations'[p].pc = pc
      /\ \A q \in DOMAIN preparations :
            /\ preparations'[q].epoch = preparations[q].epoch
            /\ preparations'[q].aborted = preparations[q].aborted
            /\ Alive(q)' <=> Alive(q)
            /\ q # p => preparations'[q].pc = preparations[q].pc
    BY OneMoves DEF ModelInv
<1>2. Len(preparations) \in Nat /\ DOMAIN preparations = 1..Len(preparations)
    BY LenProperties DEF ModelInv, ModelTypes
<1>3. ModelTypes'
    BY <1>1 DEF ModelInv, ModelTypes
<1>4. Numbered'
    BY <1>1 DEF ModelInv, Numbered
<1>5. NewestServes'
    BY <1>1 DEF ModelInv, NewestServes
<1>6. \A q \in DOMAIN preparations : Alive(q) => q = Len(preparations)
    BY DEF ModelInv, NewestServes, Alive
<1>7. ServesAlone'
  <2> SUFFICES ASSUME NEW q \in DOMAIN preparations, Alive(q)
               PROVE  /\ preparations'[q].pc # "ended" => memory' = "none"
                      /\ preparations'[q].pc \in {"fetch", "body", "del", "set"} => ~Removes(store')
                      /\ preparations'[q].pc = "get" => AsksLast(store', q)
                      /\ preparations'[q].pc # "undo"
    BY <1>1 DEF ServesAlone
  <2>1. CASE q = p
    BY <1>1, <2>1
  <2>2. CASE q # p
    <3>1. ~Alive(p)
        BY <1>6, <2>2
    <3>2. memory' = memory /\ preparations'[q].pc = preparations[q].pc
        BY <1>1, <2>2, <3>1
    <3>3. QED BY <3>2 DEF ModelInv, ServesAlone
  <2>3. QED BY <2>1, <2>2
<1>8. RemovingForgets'
    BY DEF ModelInv, RemovingForgets
<1>9. ReadyHasBytes'
  <2>1. Removing = Removes(store) /\ Removing' = Removes(store')
    BY DEF Removing, Removes
  <2>2. CASE Alive(p)
    BY <2>1, <2>2 DEF ReadyHasBytes
  <2>3. CASE ~Alive(p)
    BY <2>1, <2>3 DEF ModelInv, ReadyHasBytes
  <2>4. QED BY <2>2, <2>3
<1>10. RemovalPrevails'
  <2> SUFFICES ASSUME Len(preparations) \in removedAt
               PROVE  /\ memory' = "none"
                      /\ ~Removes(store') => cache' = "none"
                      /\ \A q \in DOMAIN preparations :
                            /\ preparations'[q].epoch # epoch
                            /\ preparations'[q].pc = "set" => Outlived(store', q)
    BY <1>1 DEF RemovalPrevails
  <2>1. /\ ~Removes(store) => cache = "none"
        /\ \A q \in DOMAIN preparations :
            /\ preparations[q].epoch # epoch
            /\ preparations[q].pc = "set" => Outlived(store, q)
    BY DEF ModelInv, RemovalPrevails
  <2>2. ~Alive(p)
    BY <2>1 DEF Alive
  <2>3. memory' = "none"
    BY <2>2 DEF ModelInv, RemovalPrevails
  <2>4. ~Removes(store') => cache' = "none"
    BY <2>1, <2>2
  <2>5. ASSUME NEW q \in DOMAIN preparations
        PROVE  /\ preparations'[q].epoch # epoch
               /\ preparations'[q].pc = "set" => Outlived(store', q)
    BY <1>1, <2>1, <2>2, <2>5
  <2>6. QED BY <2>3, <2>4, <2>5
<1>11. QED BY <1>3, <1>4, <1>5, <1>7, <1>8, <1>9, <1>10 DEF ModelInv

\* prepare() is called: the older ones are aborted.
LEMMA PrepareKeeps ==
    ASSUME ModelInv, Prepare
    PROVE  ModelInv'
<1> DEFINE n == Len(preparations)
           Begun(pc) ==
               [q \in 1..(n + 1) |-> IF q = n + 1
                    THEN [pc |-> pc, epoch |-> epoch, aborted |-> FALSE]
                    ELSE [preparations[q] EXCEPT !.aborted = TRUE]]
<1>1. /\ n \in Nat /\ DOMAIN preparations = 1..n /\ epoch \in Nat
      /\ \A q \in 1..n : preparations[q] \in Preparations
      /\ store \in Seq(Requests)
    BY LenProperties, ElementOfSeq DEF ModelInv, ModelTypes
<1>2. ASSUME NEW pc \in {"get", "ended"}, preparations' = Begun(pc)
      PROVE  /\ preparations' \in Seq(Preparations) /\ Len(preparations') = n + 1
             /\ DOMAIN preparations' = 1..(n + 1)
             /\ preparations'[n + 1] = [pc |-> pc, epoch |-> epoch, aborted |-> FALSE]
             /\ \A q \in 1..n : /\ preparations'[q].aborted
                                /\ preparations'[q].epoch = preparations[q].epoch
  <2>1. \A q \in 1..(n + 1) : Begun(pc)[q] \in Preparations
    <3>1. [pc |-> pc, epoch |-> epoch, aborted |-> FALSE] \in Preparations
        BY <1>1 DEF Preparations, PreparationStates
    <3>2. ASSUME NEW q \in 1..n
          PROVE  [preparations[q] EXCEPT !.aborted = TRUE] \in Preparations
        BY <1>1 DEF Preparations
    <3>3. QED BY <1>1, <3>1, <3>2
  <2>2. Begun(pc) \in Seq(Preparations) /\ Len(Begun(pc)) = n + 1
    <3>1. Begun(pc) \in [1..(n + 1) -> Preparations]
        <4>1. DOMAIN Begun(pc) = 1..(n + 1)
              /\ Begun(pc) = [q \in 1..(n + 1) |-> Begun(pc)[q]]
            OBVIOUS
        <4> HIDE DEF Begun
        <4>2. QED BY <2>1, <4>1
    <3>2. n + 1 \in Nat
        BY <1>1
    <3> HIDE DEF Begun, n
    <3>3. Begun(pc) \in Seq(Preparations)
        BY <3>1, <3>2, SeqDef
    <3>4. DOMAIN Begun(pc) = 1..(n + 1) /\ DOMAIN Begun(pc) = 1..Len(Begun(pc))
          /\ Len(Begun(pc)) \in Nat
        BY <3>1, <3>3, LenProperties
    <3>5. QED BY <3>2, <3>3, <3>4
  <2>3. ASSUME NEW q \in 1..n
        PROVE  Begun(pc)[q].aborted /\ Begun(pc)[q].epoch = preparations[q].epoch
    BY <1>1 DEF Preparations
  <2>4. Begun(pc)[n + 1] = [pc |-> pc, epoch |-> epoch, aborted |-> FALSE]
    BY <1>1
  <2> HIDE DEF Begun
  <2>5. QED BY <1>2, <2>2, <2>3, <2>4, LenProperties
<1>3. /\ cache' = cache /\ memory' = memory /\ epoch' = epoch /\ removedAt' = removedAt
      /\ \/ memory # "none" /\ preparations' = Begun("ended") /\ modelState' = "ready_memory"
            /\ store' = store
         \/ memory = "none" /\ preparations' = Begun("get") /\ modelState' = modelState
            /\ store' = Append(store, [kind |-> "get", by |-> n + 1])
    BY DEF Prepare, Ask
<1> HIDE DEF Begun
<1>4. PICK pc \in {"get", "ended"} : preparations' = Begun(pc)
    BY <1>3
<1>5. /\ preparations' \in Seq(Preparations) /\ Len(preparations') = n + 1
      /\ DOMAIN preparations' = 1..(n + 1)
      /\ preparations'[n + 1] = [pc |-> pc, epoch |-> epoch, aborted |-> FALSE]
      /\ \A q \in 1..n : /\ preparations'[q].aborted
                         /\ preparations'[q].epoch = preparations[q].epoch
    BY <1>2, <1>4
<1>6. /\ \A i \in DOMAIN store : store[i].by <= n /\ store[i].by \in Nat
      /\ \A m \in removedAt : m <= n /\ m \in Nat
      /\ \A q \in 1..n : preparations[q].epoch <= epoch
  <2>1. \A i \in DOMAIN store : store[i] \in Requests
    BY <1>1, LenProperties, ElementOfSeq
  <2>2. QED BY <1>1, <2>1 DEF ModelInv, ModelTypes, Numbered, Requests
<1>7. /\ store' \in Seq(Requests)
      /\ Removes(store') <=> Removes(store)
      /\ \A i \in DOMAIN store' : store'[i].by <= n + 1
      /\ store' = store \/ AsksLast(store', n + 1)
  <2>1. CASE store' = store
    BY <1>1, <1>6, <2>1
  <2>2. CASE store' = Append(store, [kind |-> "get", by |-> n + 1])
    <3> DEFINE r == [kind |-> "get", by |-> n + 1]
               m == n + 1
    <3>1. r \in Requests /\ r.by = m /\ m # 0 /\ m \in Nat
        BY <1>1 DEF Requests
    <3>2. AsksLast(store, m)
        BY <1>1, <1>6 DEF AsksLast
    <3>3. \A i \in DOMAIN store : store[i].by <= m
        BY <1>1, <1>6
    <3> HIDE DEF r, m
    <3>4. store' = Append(store, r)
        BY <2>2 DEF r, m
    <3>5. store' \in Seq(Requests) /\ AsksLast(store', m)
        BY <1>1, <3>1, <3>2, <3>4, RequestMade
    <3>6. Removes(store') <=> Removes(store)
        BY <1>1, <3>1, <3>4, RequestMade
    <3>7. r.by <= m
        BY <3>1
    <3>8. \A i \in DOMAIN store' : store'[i].by <= m
        BY <1>1, <3>1, <3>3, <3>4, <3>7, RequestMade
    <3>9. QED BY <3>5, <3>6, <3>8 DEF m
  <2>3. QED BY <1>3, <2>1, <2>2
<1>8. ModelTypes'
    BY <1>3, <1>5, <1>7 DEF ModelInv, ModelTypes
<1>9. Numbered'
  <2>1. \A q \in 1..(n + 1) : preparations'[q].epoch <= epoch
    BY <1>1, <1>5, <1>6
  <2>2. QED BY <1>1, <1>3, <1>5, <1>6, <1>7, <2>1 DEF Numbered
<1>10. \A q \in 1..(n + 1) : ~preparations'[q].aborted => q = n + 1
    BY <1>1, <1>5
<1>11. NewestServes'
    BY <1>5, <1>10 DEF NewestServes
<1>12. ServesAlone'
  <2> SUFFICES ASSUME NEW q \in DOMAIN preparations', Alive(q)'
               PROVE  /\ preparations'[q].pc # "ended" => memory' = "none"
                      /\ preparations'[q].pc \in {"fetch", "body", "del", "set"} => ~Removes(store')
                      /\ preparations'[q].pc = "get" => AsksLast(store', q)
                      /\ preparations'[q].pc # "undo"
    BY DEF ServesAlone
  <2>1. q = n + 1
    BY <1>5, <1>10 DEF Alive
  <2>2. preparations'[q].pc = pc
    BY <1>5, <2>1
  <2>3. CASE pc = "ended"
    BY <2>2, <2>3
  <2>4. CASE pc = "get"
    <3>1. memory = "none" /\ store' = Append(store, [kind |-> "get", by |-> n + 1])
        <4>1. preparations'[n + 1].pc = "get"
            BY <1>5, <2>4
        <4>2. preparations' # Begun("ended")
            BY <1>2, <4>1
        <4>3. QED BY <1>3, <4>2
    <3>2. store' # store
        <4>1. [kind |-> "get", by |-> n + 1] \in Requests
            BY <1>1 DEF Requests
        <4>2. Len(store') = Len(store) + 1 /\ Len(store) \in Nat
            BY <1>1, <3>1, <4>1, AppendProperties, LenProperties
        <4>3. QED BY <4>2
    <3>3. QED BY <1>3, <1>7, <2>1, <2>2, <2>4, <3>1, <3>2
  <2>5. QED BY <2>3, <2>4
<1>13. RemovingForgets'
    BY <1>3, <1>7 DEF ModelInv, RemovingForgets
<1>14. ReadyHasBytes'
  <2>1. Removing = Removes(store) /\ Removing' = Removes(store')
    BY DEF Removing, Removes
  <2>2. memory \in {"none", "good"}
    BY DEF ModelInv, ModelTypes
  <2>3. QED BY <1>3, <1>7, <2>1, <2>2 DEF ModelInv, ReadyHasBytes
<1>15. RemovalPrevails'
  <2>1. n + 1 \notin removedAt
    BY <1>1, <1>6
  <2>2. QED BY <1>3, <1>5, <2>1 DEF RemovalPrevails
<1>16. QED BY <1>8, <1>9, <1>11, <1>12, <1>13, <1>14, <1>15 DEF ModelInv

\* remove() is called: nobody under way is alive any more.
LEMMA RemoveKeeps ==
    ASSUME ModelInv, Remove
    PROVE  ModelInv'
<1> DEFINE n == Len(preparations)
           r == [kind |-> "del", by |-> 0]
<1>1. /\ n \in Nat /\ DOMAIN preparations = 1..n /\ epoch \in Nat
      /\ store \in Seq(Requests)
      /\ \A q \in DOMAIN preparations : preparations[q].epoch \in Nat
  <2>1. \A q \in 1..Len(preparations) : preparations[q] \in Preparations
    BY ElementOfSeq DEF ModelInv, ModelTypes
  <2>2. QED BY <2>1, LenProperties DEF ModelInv, ModelTypes, Preparations
<1>2. /\ preparations' = preparations /\ cache' = cache /\ modelState' = modelState
      /\ epoch' = epoch + 1 /\ memory' = "none" /\ removedAt' = {n}
      /\ store' = Append(store, r)
    BY DEF Remove, Ask
<1>3. r \in Requests /\ r.by = 0
    BY DEF Requests
<1>4. \A i \in DOMAIN store : store[i].by <= n
    BY DEF ModelInv, Numbered
<1>5. \A q \in DOMAIN preparations : preparations[q].epoch <= epoch
    BY DEF ModelInv, Numbered
<1> HIDE DEF r, n
<1>6. /\ store' \in Seq(Requests) /\ Removes(store')
      /\ \A q \in Nat \ {0} : Outlived(store', q)
    BY <1>1, <1>2, <1>3, RequestMade
<1>7. r.by <= n
    BY <1>1, <1>3
<1>8. \A i \in DOMAIN store' : store'[i].by <= n
    BY <1>1, <1>2, <1>3, <1>4, <1>7, RequestMade
<1>9. \A q \in DOMAIN preparations : preparations[q].epoch # epoch + 1
    BY <1>1, <1>5
<1>10. ModelTypes'
    BY <1>1, <1>2, <1>6 DEF ModelInv, ModelTypes
<1>11. Numbered'
    BY <1>1, <1>2, <1>5, <1>8 DEF Numbered, n
<1>12. NewestServes'
    BY <1>2 DEF ModelInv, NewestServes
<1>13. ServesAlone'
    BY <1>2, <1>9 DEF ServesAlone, Alive
<1>14. RemovingForgets'
    BY <1>2 DEF RemovingForgets
<1>15. ReadyHasBytes'
    BY <1>6 DEF ReadyHasBytes, Removing, Removes
<1>16. RemovalPrevails'
    BY <1>1, <1>2, <1>6, <1>9 DEF RemovalPrevails
<1>17. QED BY <1>10, <1>11, <1>12, <1>13, <1>14, <1>15, <1>16 DEF ModelInv

\* The store has deleted the slot for remove(), or could not.
LEMMA RemovalAnswered ==
    ASSUME ModelInv, store # <<>>, Head(store).by = 0, store' = Tail(store),
           modelState' = "not_prepared", UNCHANGED <<preparations, memory, epoch>>,
           \/ cache' = "none" /\ removedAt' = removedAt
           \/ removedAt' = {} /\ cache' = cache
    PROVE  ModelInv'
<1>1. store \in Seq(Requests)
    BY DEF ModelInv, ModelTypes
<1>2. Head(store) = store[1] /\ 1 \in DOMAIN store
    BY <1>1, TailOfRequests
<1>3. /\ store' \in Seq(Requests)
      /\ Removes(store') => Removes(store)
      /\ \A q : AsksLast(store, q) => AsksLast(store', q)
      /\ \A q : Outlived(store, q) => Outlived(store', q)
      /\ \A m : (\A i \in DOMAIN store : store[i].by <= m)
                    => \A i \in DOMAIN store' : store'[i].by <= m
    BY <1>1, RequestAnswered
<1>4. Removes(store)
    BY <1>2 DEF Removes
<1>5. memory = "none"
    BY <1>4 DEF ModelInv, RemovingForgets
<1>6. ModelTypes'
    BY <1>3 DEF ModelInv, ModelTypes
<1>7. Numbered'
    BY <1>3 DEF ModelInv, Numbered
<1>8. NewestServes'
    BY DEF ModelInv, NewestServes
<1>9. ServesAlone'
    BY <1>3, <1>5 DEF ModelInv, ServesAlone, Alive
<1>10. RemovingForgets' /\ ReadyHasBytes'
    BY <1>5 DEF RemovingForgets, ReadyHasBytes
<1>11. RemovalPrevails'
    BY <1>3, <1>5 DEF ModelInv, RemovalPrevails
<1>12. QED BY <1>6, <1>7, <1>8, <1>9, <1>10, <1>11 DEF ModelInv

\* The operation of a preparation is over.
LEMMA AbortKeeps ==
    ASSUME ModelInv, NEW p \in DOMAIN preparations, AbortPreparation(p)
    PROVE  ModelInv'
<1>1. /\ preparations \in Seq(Preparations) /\ DOMAIN preparations = 1..Len(preparations)
      /\ preparations[p] \in Preparations
    BY LenProperties, ElementOfSeq DEF ModelInv, ModelTypes
<1> DEFINE r == [preparations[p] EXCEPT !.aborted = TRUE]
<1>2. /\ r \in Preparations /\ r.pc = preparations[p].pc /\ r.epoch = preparations[p].epoch
      /\ r.aborted
    BY <1>1 DEF Preparations
<1>3. preparations' = [preparations EXCEPT ![p] = r]
    BY DEF AbortPreparation
<1> HIDE DEF r
<1>4. /\ preparations' \in Seq(Preparations) /\ Len(preparations') = Len(preparations)
      /\ \A j \in 1..Len(preparations) : preparations'[j] = IF j = p THEN r ELSE preparations[j]
    BY <1>1, <1>2, <1>3, ExceptSeq
<1>5. /\ DOMAIN preparations' = DOMAIN preparations
      /\ \A q \in DOMAIN preparations :
            /\ preparations'[q].pc = preparations[q].pc
            /\ preparations'[q].epoch = preparations[q].epoch
            /\ ~preparations'[q].aborted => ~preparations[q].aborted
    BY <1>1, <1>2, <1>4, LenProperties
<1>6. UNCHANGED <<store, cache, memory, modelState, epoch, removedAt>>
    BY DEF AbortPreparation
<1>7. \A q \in DOMAIN preparations : Alive(q)' => Alive(q)
    BY <1>5, <1>6 DEF Alive
<1>8. ModelTypes' /\ Numbered' /\ NewestServes'
    BY <1>4, <1>5, <1>6 DEF ModelInv, ModelTypes, Numbered, NewestServes
<1>9. ServesAlone'
    BY <1>5, <1>6, <1>7 DEF ModelInv, ServesAlone
<1>10. RemovingForgets' /\ ReadyHasBytes' /\ RemovalPrevails'
    BY <1>4, <1>5, <1>6 DEF ModelInv, RemovingForgets, ReadyHasBytes, Removing, RemovalPrevails
<1>11. QED BY <1>8, <1>9, <1>10 DEF ModelInv

\* A preparation goes on without an answer of the store.
LEMMA FetchKeeps ==
    ASSUME ModelInv, NEW p \in DOMAIN preparations, Fetched(p)
    PROVE  ModelInv'
<1>1. /\ preparations[p].pc = "fetch" /\ store' = store /\ epoch' = epoch
      /\ removedAt' = removedAt
      /\ store \in Seq(Requests) /\ cache \in Bytes \cup {"none"} /\ memory \in {"none", "good"}
      /\ \A i \in DOMAIN store : store[i].by <= Len(preparations)
    BY DEF Fetched, ModelInv, ModelTypes, Numbered
<1>2. Alive(p) => memory = "none" /\ ~Removes(store)
    BY <1>1 DEF ModelInv, ServesAlone
<1>3. PICK pc \in {"ended", "body"} : At(p, pc) /\ (~Alive(p) => pc = "ended")
    BY DEF Fetched, Dies
<1>4. cache' = cache /\ memory' = memory
    BY DEF Fetched, Dies
<1>5. /\ ~Alive(p) => modelState' = modelState
      /\ Alive(p) => modelState' \notin {"ready_memory", "ready_cached"}
    BY DEF Fetched, Dies
<1>6. pc \in PreparationStates
    BY DEF PreparationStates
<1>7. QED BY <1>1, <1>2, <1>3, <1>4, <1>5, <1>6, PreparationMoves

LEMMA BodyKeeps ==
    ASSUME ModelInv, NEW p \in DOMAIN preparations, BodyRead(p)
    PROVE  ModelInv'
<1>1. /\ preparations[p].pc = "body" /\ epoch' = epoch /\ removedAt' = removedAt
      /\ store \in Seq(Requests) /\ cache \in Bytes \cup {"none"} /\ memory \in {"none", "good"}
      /\ \A i \in DOMAIN store : store[i].by <= Len(preparations)
      /\ Len(preparations) \in Nat /\ DOMAIN preparations = 1..Len(preparations)
    BY LenProperties DEF BodyRead, ModelInv, ModelTypes, Numbered
<1>2. Alive(p) => memory = "none" /\ ~Removes(store)
    BY <1>1 DEF ModelInv, ServesAlone
<1>3. /\ cache' = cache /\ memory' = memory
      /\ \/ At(p, "ended") /\ store' = store /\ modelState' = modelState
         \/ At(p, "ended") /\ store' = store /\ modelState' = "failed_integrity" /\ Alive(p)
         \/ /\ At(p, "set") /\ store' = Append(store, [kind |-> "set", by |-> p])
            /\ modelState' = modelState /\ Alive(p)
    BY DEF BodyRead, Dies, Ask
<1>4. modelState' = modelState \/ (modelState' = "failed_integrity" /\ Alive(p))
    BY <1>3
<1>5. Alive(p) => modelState' \notin {"ready_memory", "ready_cached"}
    BY <1>2, <1>4 DEF ModelInv, ReadyHasBytes, Removing, Removes
<1>6. {"ended", "set"} \subseteq PreparationStates
    BY DEF PreparationStates
<1>7. CASE store' = store /\ At(p, "ended")
  <2> DEFINE pc == "ended"
  <2>1. pc \in PreparationStates /\ pc = "ended" /\ At(p, pc)
    BY <1>6, <1>7
  <2> HIDE DEF pc
  <2>2. QED BY <1>1, <1>2, <1>3, <1>4, <1>5, <1>7, <2>1, PreparationMoves
<1>8. CASE /\ At(p, "set") /\ store' = Append(store, [kind |-> "set", by |-> p])
           /\ Alive(p)
  <2> DEFINE r == [kind |-> "set", by |-> p]
             pc == "set"
  <2>1. r \in Requests /\ r.by = p /\ p # 0
    BY <1>1 DEF Requests
  <2>2. pc \in PreparationStates /\ pc = "set" /\ At(p, pc) /\ store' = Append(store, r)
    BY <1>6, <1>8
  <2> HIDE DEF r, pc
  <2>3. /\ store' \in Seq(Requests)
        /\ Removes(store') <=> Removes(store)
        /\ \A q : AsksLast(store, q) => AsksLast(store', q)
        /\ \A q : Outlived(store, q) /\ q # p => Outlived(store', q)
    BY <1>1, <2>1, <2>2, RequestMade
  <2>4. r.by <= Len(preparations)
    BY <1>1, <2>1
  <2>5. \A i \in DOMAIN store' : store'[i].by <= Len(preparations)
    BY <1>1, <2>1, <2>2, <2>4, RequestMade
  <2>6. QED BY <1>1, <1>2, <1>3, <1>5, <1>8, <2>2, <2>3, <2>5, PreparationMoves
<1>9. QED BY <1>3, <1>7, <1>8

\* The store answers a preparation.
LEMMA AnswerKeeps ==
    ASSUME ModelInv, store # <<>>, NEW p \in Nat, p = Head(store).by, p # 0,
           epoch' = epoch, removedAt' = removedAt,
           \/ preparations[p].pc = "get" /\ Got(p)
           \/ preparations[p].pc = "del" /\ Deleted(p)
           \/ preparations[p].pc = "set" /\ Committed(p)
           \/ preparations[p].pc = "undo" /\ Undone(p)
           \/ StoreFails(p)
    PROVE  ModelInv'
<1>1. store' = Tail(store) \/ store' = Append(Tail(store), [kind |-> "del", by |-> p])
    BY DEF Got, Deleted, Committed, Undone, StoreFails
<1>2. /\ p \in DOMAIN preparations /\ store' \in Seq(Requests)
      /\ Removes(store') <=> Removes(store)
      /\ \A q : AsksLast(store, q) => AsksLast(store', q)
      /\ \A q : Outlived(store, q) /\ q # p => Outlived(store', q)
      /\ \A i \in DOMAIN store' : store'[i].by <= Len(preparations)
      /\ Alive(p) /\ preparations[p].pc = "get" => ~Removes(store)
    BY <1>1, PreparationAnswered
<1>3. /\ cache \in Bytes \cup {"none"} /\ memory \in {"none", "good"}
    BY DEF ModelInv, ModelTypes
<1>4. Alive(p) => /\ preparations[p].pc # "undo"
                  /\ preparations[p].pc # "ended" => memory = "none"
                  /\ preparations[p].pc \in {"del", "set"} => ~Removes(store)
    BY <1>2 DEF ModelInv, ServesAlone
<1>5. Outlived(store, p) => Removes(store)
  <2>1. Head(store) = store[1] /\ 1 \in DOMAIN store
    BY TailOfRequests DEF ModelInv, ModelTypes
  <2>2. QED BY <2>1 DEF Outlived, Removes
<1>6. PICK pc \in {"ended", "del", "fetch", "undo"} :
        /\ At(p, pc)
        /\ ~Alive(p) => pc \in {"ended", "undo"}
        /\ Alive(p) => pc # "undo"
        /\ Alive(p) /\ pc = "ended" => memory' = "good"
        /\ Alive(p) /\ pc # "ended" => memory' = memory
  <2>1. CASE preparations[p].pc = "get" /\ Got(p)
    BY <2>1 DEF Got, Dies, Downloads, Alive
  <2>2. CASE preparations[p].pc = "del" /\ Deleted(p)
    BY <2>2 DEF Deleted, Downloads
  <2>3. CASE preparations[p].pc = "set" /\ Committed(p)
    BY <2>3 DEF Committed
  <2>4. CASE preparations[p].pc = "undo" /\ Undone(p)
    BY <1>4, <2>4 DEF Undone
  <2>5. CASE StoreFails(p)
    BY <2>5 DEF StoreFails, Dies, Downloads
  <2>6. QED BY <2>1, <2>2, <2>3, <2>4, <2>5
<1>7. Alive(p) => preparations[p].pc \in {"get", "del", "set"}
    BY <1>4 DEF StoreFails
<1>8. /\ cache' \in Bytes \cup {"none"} /\ memory' \in {"none", "good"}
      /\ ~Alive(p) => /\ memory' = memory /\ modelState' = modelState
                      /\ cache' \in {cache, "none"} \/ preparations[p].pc = "set"
      /\ Alive(p) => (modelState' \in {"ready_memory", "ready_cached"} <=> memory' = "good")
  <2>1. CASE preparations[p].pc = "get" /\ Got(p)
    <3>1. Alive(p) => modelState \notin {"ready_memory", "ready_cached"}
        BY <1>2, <1>4, <2>1 DEF ModelInv, ReadyHasBytes, Removing, Removes
    <3>2. CASE ~Alive(p)
        BY <1>3, <2>1, <3>2 DEF Got, Dies
    <3>3. CASE Alive(p)
        BY <1>3, <1>4, <2>1, <3>1, <3>3 DEF Got, Downloads, Bytes
    <3>4. QED BY <3>2, <3>3
  <2>2. CASE preparations[p].pc = "del" /\ Deleted(p)
    BY <1>3, <1>4, <2>2 DEF Deleted, Downloads
  <2>3. CASE preparations[p].pc = "set" /\ Committed(p)
    BY <1>3, <1>4, <2>3 DEF Committed, Bytes
  <2>4. CASE preparations[p].pc = "undo" /\ Undone(p)
    BY <1>3, <1>4, <2>4 DEF Undone
  <2>5. CASE StoreFails(p)
    BY <1>3, <1>4, <2>5 DEF StoreFails, Dies, Downloads
  <2>6. QED BY <2>1, <2>2, <2>3, <2>4, <2>5
<1>9. pc \in PreparationStates
    BY DEF PreparationStates
<1>10. Alive(p) => ~Removes(store)
    BY <1>2, <1>4, <1>7
<1>11. Alive(p) /\ pc # "ended" => memory' = "none"
    BY <1>4, <1>6, <1>7
<1>12. QED BY <1>2, <1>5, <1>6, <1>8, <1>9, <1>10, <1>11, PreparationMoves

LEMMA ModelInductive ==
    ASSUME ModelInv, ModelAssetsNext
    PROVE  ModelInv'
<1>1. CASE Prepare
    BY <1>1, PrepareKeeps
<1>2. CASE Remove
    BY <1>2, RemoveKeeps
<1>3. CASE StoreAnswers
  <2> DEFINE p == Head(store).by
  <2>1. store # <<>> /\ epoch' = epoch
    BY <1>3 DEF StoreAnswers
  <2>2. p \in Nat
    <3>1. Head(store) \in Requests
        BY <2>1, HeadTailProperties DEF ModelInv, ModelTypes
    <3>2. QED BY <3>1 DEF Requests
  <2>3. CASE p # 0
    BY <1>3, <2>1, <2>2, <2>3, AnswerKeeps DEF StoreAnswers
  <2>4. CASE p = 0
    BY <1>3, <2>1, <2>4, RemovalAnswered DEF StoreAnswers
  <2>5. QED BY <2>3, <2>4
<1>4. QED BY <1>1, <1>2, <1>3, FetchKeeps, BodyKeeps, AbortKeeps DEF ModelAssetsNext

LEMMA ModelBegins == ModelAssetsInit => ModelInv
<1> SUFFICES ASSUME ModelAssetsInit PROVE ModelInv
    OBVIOUS
<1>1. /\ preparations = <<>> /\ store = <<>> /\ cache \in Bytes \cup {"none"}
      /\ memory = "none" /\ modelState = "not_prepared" /\ epoch = 0 /\ removedAt = {}
    BY DEF ModelAssetsInit
<1>2. /\ preparations \in Seq(Preparations) /\ store \in Seq(Requests)
      /\ DOMAIN preparations = {} /\ DOMAIN store = {}
    BY <1>1, EmptySeq
<1>3. QED
    BY <1>1, <1>2 DEF ModelInv, ModelTypes, Numbered, NewestServes, ServesAlone,
        RemovingForgets, ReadyHasBytes, Removing, RemovalPrevails, Removes

(***************************************************************************)
(* The OCR reader.                                                         *)
(***************************************************************************)
Endings == {"completed", "failed", "cancelled", "timeout", "unsupported"}

Operations ==
    [kind : {"prepare", "open", "extract"}, handle : Nat,
     pc : {"model", "raster", "crop", "init", "join", "recognize", "terminating", "ended"},
     lease : Nat, on : Nat, attempt : Nat, aborted : BOOLEAN, cancelled : BOOLEAN,
     late : BOOLEAN, answer : Nat, next : Endings \cup {"none", "retry"},
     outcome : Endings \cup {"none", "opened"}]

WorkerLeases ==
    [aborted : BOOLEAN, phase : {"loading", "made", "failed", "kept", "dropped"}]

\* Each kind of operation has its awaits, and no answer but its own.
Fits(o, r) ==
    /\ r.answer \in {0, o}
    /\ r.pc \in {"raster", "crop", "recognize", "terminating"} => r.kind = "extract"
    /\ r.pc = "model" => r.kind # "extract"
    /\ r.pc \in {"init", "join"} => r.kind # "prepare"
    /\ r.outcome = "opened" => r.pc = "ended"

\* An open() that has installed its handle.
Installed(r) == r.kind = "open" /\ (r.pc \in {"init", "join"} \/ r.outcome = "opened")

\* No later open() has got as far as that.
NoneLater(o) == \A p \in DOMAIN ops : p > o /\ ops[p].kind = "open" => ops[p].pc = "model"

OperationsFit ==
    /\ opSeq \in Nat /\ DOMAIN ops \subseteq 1..opSeq
    /\ ops \in [DOMAIN ops -> Operations]
    /\ \A o \in DOMAIN ops : Fits(o, ops[o])

LeasesFit ==
    /\ IsFiniteSet(DOMAIN leases) /\ leases \in [DOMAIN leases -> WorkerLeases]
    /\ lease \in Nat
    /\ \A r \in requests : r.id[1] = r.op
    /\ WorkersAreOwned

HandleFits ==
    /\ handle \in Nat /\ closed \in BOOLEAN
    /\ \A o \in DOMAIN ops : Installed(ops[o]) /\ ~closed /\ NoneLater(o) => handle = o

OcrInv == OperationsFit /\ LeasesFit /\ HandleFits

USE OcrAssumption

\* Giving up a lease, whoever has it.
LEMMA DestroyKeeps ==
    ASSUME LeasesFit, NEW l \in Nat, DestroyLease(l), closed' => closed \/ l = lease
    PROVE  LeasesFit'
<1>1. CASE l = 0
    BY <1>1 DEF DestroyLease, LeasesFit, WorkersAreOwned
<1>2. CASE l # 0
  <2> DEFINE retired == [leases[l] EXCEPT !.aborted = TRUE,
                            !.phase = IF @ = "kept" THEN "dropped" ELSE @]
  <2>1. /\ leases' = [leases EXCEPT ![l] = retired]
        /\ lease' = IF lease = l THEN 0 ELSE lease
        /\ requests' \subseteq requests
    <3>1. /\ leases' = Retired(leases, l)
          /\ lease' = IF lease = l THEN 0 ELSE lease
          /\ requests' = {r \in requests : r.lease # l}
        BY <1>2 DEF DestroyLease
    <3>2. Retired(leases, l) = [leases EXCEPT ![l] = retired]
        BY DEF Retired
    <3> HIDE DEF retired
    <3>3. requests' \subseteq requests
        BY <3>1
    <3>4. QED BY <3>1, <3>2, <3>3
  <2>2. ASSUME l \in DOMAIN leases
        PROVE  retired \in WorkerLeases /\ retired.aborted /\ retired.phase # "kept"
    <3>1. leases[l] \in WorkerLeases
        BY <2>2 DEF LeasesFit
    <3> DEFINE phase == IF leases[l].phase = "kept" THEN "dropped" ELSE leases[l].phase
    <3>2. phase \in {"loading", "made", "failed", "dropped"} /\ phase # "kept"
        BY <3>1 DEF WorkerLeases
    <3>3. retired = [leases[l] EXCEPT !.aborted = TRUE, !.phase = phase]
        OBVIOUS
    <3> HIDE DEF phase, retired
    <3>4. QED BY <3>1, <3>2, <3>3 DEF WorkerLeases
  <2> HIDE DEF retired
  <2>3. DOMAIN leases' = DOMAIN leases /\ leases' \in [DOMAIN leases -> WorkerLeases]
    BY <2>1, <2>2 DEF LeasesFit
  <2>4. ASSUME NEW k \in DOMAIN leases,
               (leases'[k].phase = "loading" /\ ~leases'[k].aborted) \/ leases'[k].phase = "kept"
        PROVE  lease' = k
    <3>1. k # l
        BY <2>1, <2>2, <2>4 DEF LeasesFit
    <3>2. leases'[k] = leases[k]
        BY <2>1, <3>1 DEF LeasesFit
    <3>3. QED BY <2>1, <2>4, <3>1, <3>2 DEF LeasesFit, WorkersAreOwned
  <2>5. QED BY <2>1, <2>3, <2>4 DEF LeasesFit, WorkersAreOwned
<1>3. QED BY <1>1, <1>2

LEMMA AbandonKeeps ==
    ASSUME LeasesFit, NEW l \in Nat, Abandon(l), closed' = closed
    PROVE  LeasesFit'
<1>1. CASE DestroyLease(l)
    BY <1>1, DestroyKeeps
<1>2. CASE UNCHANGED <<leases, lease, requests>>
    BY <1>2 DEF LeasesFit, WorkersAreOwned
<1>3. QED BY <1>1, <1>2 DEF Abandon

\* One operation moves; only an open() moves the handle, and then by itself.
LEMMA OperationMoves ==
    ASSUME OcrInv, NEW o \in DOMAIN ops, NEW r \in Operations, Fits(o, r),
           r.kind = ops[o].kind, r.pc = "model" => ops[o].pc = "model",
           ops' = [ops EXCEPT ![o] = r], opSeq' = opSeq, closed' = closed, LeasesFit',
           \/ handle' = handle /\ (Installed(r) => Installed(ops[o]))
           \/ handle' = 0 /\ handle = o /\ ~Installed(r)
           \/ handle' = o /\ opSeq = o /\ r.kind = "open" /\ r.pc # "model"
    PROVE  OcrInv'
<1>1. /\ DOMAIN ops' = DOMAIN ops /\ ops' \in [DOMAIN ops -> Operations]
      /\ ops'[o] = r /\ \A q \in DOMAIN ops : q # o => ops'[q] = ops[q]
    BY DEF OcrInv, OperationsFit
<1>2. OperationsFit'
    BY <1>1 DEF OcrInv, OperationsFit
<1>3. DOMAIN ops \subseteq Nat /\ \A q \in DOMAIN ops : q <= opSeq
    BY DEF OcrInv, OperationsFit
<1>4. handle' \in Nat /\ closed' \in BOOLEAN
    BY <1>3 DEF OcrInv, HandleFits
<1>5. ASSUME NEW q \in DOMAIN ops, NoneLater(q)'
      PROVE  /\ NoneLater(q)
             /\ q < o /\ r.kind = "open" => r.pc = "model"
  <2>1. /\ \A p \in DOMAIN ops : p > q /\ ops'[p].kind = "open" => ops'[p].pc = "model"
    BY <1>1, <1>5 DEF NoneLater
  <2>2. q < o /\ r.kind = "open" => r.pc = "model"
    BY <1>1, <1>3, <2>1
  <2>3. NoneLater(q)
    BY <1>1, <1>3, <2>1, <2>2 DEF NoneLater
  <2>4. QED BY <2>2, <2>3
<1>6. ASSUME NEW q \in DOMAIN ops, Installed(ops'[q]), ~closed, NoneLater(q)'
      PROVE  handle' = q
  <2>1. Installed(ops[q]) => handle = q
    BY <1>5, <1>6 DEF OcrInv, HandleFits
  <2>2. CASE q = o
    BY <1>1, <1>6, <2>1, <2>2
  <2>3. CASE q # o
    <3>1. handle = q
        BY <1>1, <1>6, <2>1, <2>3
    <3>2. ~(handle' = o /\ opSeq = o /\ r.kind = "open" /\ r.pc # "model")
        BY <1>3, <1>5, <1>6, <2>3
    <3>3. QED BY <2>3, <3>1, <3>2
  <2>4. QED BY <2>2, <2>3
<1>7. HandleFits'
    BY <1>1, <1>4, <1>6 DEF HandleFits
<1>8. QED BY <1>2, <1>7 DEF OcrInv

\* What an operation leaves when it has ended.
LEMMA EndedFits ==
    ASSUME OcrInv, NEW o \in DOMAIN ops, NEW outcome \in Endings \cup {"none", "opened"}
    PROVE  /\ Ended(o, outcome) \in Operations /\ Fits(o, Ended(o, outcome))
           /\ Ended(o, outcome).kind = ops[o].kind /\ Ended(o, outcome).pc = "ended"
           /\ Ended(o, outcome).outcome = outcome
<1>1. ops[o].kind \in {"prepare", "open", "extract"}
    BY DEF OcrInv, OperationsFit, Operations
<1> DEFINE q == Scope(ops[o].kind, 0, "ended")
           r == Ended(o, outcome)
<1>2. /\ q \in Operations /\ q.kind = ops[o].kind /\ q.pc = "ended" /\ q.answer = 0
    BY <1>1 DEF Scope, Operations
<1>3. r = [q EXCEPT !.outcome = outcome]
    BY DEF Ended
<1> HIDE DEF q, r
<1>4. r \in Operations
    BY <1>2, <1>3, Zenon DEF Operations
<1>5. r.kind = q.kind /\ r.pc = q.pc /\ r.answer = q.answer /\ r.outcome = outcome
    BY <1>2, <1>3 DEF Operations
<1>6. Fits(o, r) /\ r.kind = ops[o].kind /\ r.pc = "ended" /\ r.outcome = outcome
    BY <1>2, <1>5 DEF Fits
<1>7. QED BY <1>4, <1>6 DEF r

\* An operation goes on to another await of its kind.
LEMMA AwaitFits ==
    ASSUME OcrInv, NEW o \in DOMAIN ops,
           NEW pc \in {"raster", "crop", "init", "join", "recognize", "terminating"},
           pc \in {"init", "join"} => ops[o].kind # "prepare",
           pc \notin {"init", "join"} => ops[o].kind = "extract",
           ops[o].pc # "ended",
           NEW r \in Operations, r.pc = pc, r.kind = ops[o].kind, r.outcome = ops[o].outcome,
           r.answer \in {0, ops[o].answer}
    PROVE  Fits(o, r) /\ (Installed(r) => r.kind = "open" /\ pc \in {"init", "join"})
<1>1. Fits(o, ops[o])
    BY DEF OcrInv, OperationsFit
<1>2. QED BY <1>1 DEF Fits, Installed

\* The catch of open(), prepareModel() and extract().
LEMMA FailureKeeps ==
    ASSUME OcrInv, NEW o \in DOMAIN ops, ops[o].pc # "ended", NEW reason, Fails(o, reason),
           opSeq' = opSeq, closed' = closed
    PROVE  OcrInv'
<1>1. /\ ops[o] \in Operations /\ Fits(o, ops[o]) /\ o \in Nat /\ o # 0
      /\ ops \in [DOMAIN ops -> Operations]
    BY DEF OcrInv, OperationsFit
<1>2. LeasesFit /\ lease \in Nat
    BY DEF OcrInv, LeasesFit
<1>3. ASSUME FailOpen(o)
      PROVE  OcrInv'
  <2> DEFINE failed == "failed"
             r == Ended(o, failed)
  <2>1. failed \in Endings \cup {"opened"} /\ failed # "opened"
    BY DEF Endings
  <2>2. ops[o].lease \in Nat /\ Abandon(ops[o].lease)
    BY <1>1, <1>3 DEF FailOpen, Operations
  <2>3. LeasesFit'
    BY <1>2, <2>2, AbandonKeeps
  <2>4. ops' = [ops EXCEPT ![o] = r]
    BY <1>3 DEF FailOpen, Ends
  <2>5. (handle' = 0 /\ handle = o) \/ handle' = handle
    BY <1>3 DEF FailOpen
  <2> HIDE DEF failed
  <2>6. /\ r \in Operations /\ Fits(o, r) /\ r.kind = ops[o].kind /\ r.pc = "ended"
        /\ r.outcome # "opened"
    BY <2>1, EndedFits
  <2> HIDE DEF r
  <2>7. ~Installed(r)
    BY <2>6 DEF Installed
  <2>8. QED BY <2>3, <2>4, <2>5, <2>6, <2>7, OperationMoves
<1>4. ASSUME FailExtract(o, reason)
      PROVE  OcrInv'
  <2>1. ops[o].kind = "extract" /\ handle' = handle
    BY <1>4 DEF FailExtract
  <2> DEFINE status == StatusOf(reason)
  <2>2. status \in Endings
    BY DEF StatusOf, Endings
  <2> HIDE DEF status
  <2>3. \/ /\ DestroyLease(lease)
           /\ \E next \in {"retry", status} :
                ops' = [ops EXCEPT ![o] = [@ EXCEPT !.pc = "terminating", !.on = 0,
                                                    !.lease = 0, !.next = next]]
        \/ /\ Abandon(0) \/ Abandon(ops[o].lease)
           /\ ops' = [ops EXCEPT ![o] = Ended(o, status)]
    BY <1>4 DEF FailExtract, Ends, status
  <2>4. CASE /\ Abandon(0) \/ Abandon(ops[o].lease)
             /\ ops' = [ops EXCEPT ![o] = Ended(o, status)]
    <3> DEFINE r == Ended(o, status)
    <3>1. LeasesFit'
        <4> DEFINE none == 0
        <4>1. none \in Nat /\ ops[o].lease \in Nat
            BY <1>1 DEF Operations
        <4>2. Abandon(none) \/ Abandon(ops[o].lease)
            BY <2>4
        <4> HIDE DEF none
        <4>3. QED BY <1>2, <4>1, <4>2, AbandonKeeps
    <3>2. /\ r \in Operations /\ Fits(o, r) /\ r.kind = ops[o].kind /\ r.pc = "ended"
          /\ r.outcome = status
        BY <2>2, EndedFits
    <3> HIDE DEF r
    <3>3. ~Installed(r)
        BY <2>1, <3>2 DEF Installed
    <3>4. ops' = [ops EXCEPT ![o] = r]
        BY <2>4 DEF r
    <3>5. QED BY <2>1, <3>1, <3>2, <3>3, <3>4, OperationMoves
  <2>5. CASE /\ DestroyLease(lease)
             /\ \E next \in {"retry", status} :
                  ops' = [ops EXCEPT ![o] = [@ EXCEPT !.pc = "terminating", !.on = 0,
                                                      !.lease = 0, !.next = next]]
    <3>1. PICK next \in {"retry", status} :
                ops' = [ops EXCEPT ![o] = [ops[o] EXCEPT !.pc = "terminating", !.on = 0,
                                                         !.lease = 0, !.next = next]]
        BY <2>5
    <3> DEFINE pc == "terminating"
               none == 0
               r == [ops[o] EXCEPT !.pc = pc, !.on = none, !.lease = none, !.next = next]
    <3>2. /\ next \in Endings \cup {"none", "retry"} /\ none \in Nat
          /\ pc \in {"model", "raster", "crop", "init", "join", "recognize", "terminating", "ended"}
          /\ pc \in {"raster", "crop", "init", "join", "recognize", "terminating"}
          /\ pc \notin {"init", "join", "model"}
        BY <2>2
    <3>3. ops' = [ops EXCEPT ![o] = r]
        BY <3>1
    <3> HIDE DEF pc, none
    <3>4. r \in Operations
        BY <1>1, <3>2, Zenon DEF Operations
    <3>5. /\ r.pc = pc /\ r.kind = ops[o].kind /\ r.outcome = ops[o].outcome
          /\ r.answer = ops[o].answer
        BY <1>1 DEF Operations
    <3> HIDE DEF r
    <3>6. Fits(o, r) /\ ~Installed(r)
        BY <2>1, <3>2, <3>4, <3>5, AwaitFits
    <3>7. LeasesFit'
        BY <1>2, <2>5, DestroyKeeps
    <3>8. QED BY <2>1, <3>2, <3>3, <3>4, <3>5, <3>6, <3>7, OperationMoves
  <2>6. QED BY <2>3, <2>4, <2>5
<1>5. QED BY <1>3, <1>4 DEF Fails

\* The worker of l serves o: open() is done, extract() has it recognise.
LEMMA ServiceKeeps ==
    ASSUME OcrInv, NEW o \in DOMAIN ops, NEW l \in Nat, WithWorker(o, l),
           ops[o].kind # "prepare", ops[o].pc # "ended",
           ops[o].kind # "open" => ops[o].kind = "extract",
           leases' = leases, lease' = lease, opSeq' = opSeq, closed' = closed,
           ops[o].kind = "open" => \/ handle' = o /\ opSeq = o
                                   \/ handle' = handle /\ Installed(ops[o]),
           ops[o].kind # "open" => handle' = handle
    PROVE  OcrInv'
<1>1. /\ ops[o] \in Operations /\ Fits(o, ops[o])
    BY DEF OcrInv, OperationsFit
<1>2. CASE ops[o].kind = "open"
  <2> DEFINE opened == "opened"
             r == Ended(o, opened)
  <2>1. opened \in Endings \cup {"opened"} /\ opened = "opened"
    OBVIOUS
  <2>2. ops' = [ops EXCEPT ![o] = r] /\ requests' = requests
    BY <1>2 DEF WithWorker, Ends
  <2> HIDE DEF opened
  <2>3. /\ r \in Operations /\ Fits(o, r) /\ r.kind = ops[o].kind /\ r.pc = "ended"
    BY <2>1, EndedFits
  <2> HIDE DEF r
  <2>4. LeasesFit'
    BY <2>2 DEF OcrInv, LeasesFit, WorkersAreOwned
  <2>5. QED BY <1>2, <2>2, <2>3, <2>4, OperationMoves
<1>3. CASE ops[o].kind = "extract"
  <2> DEFINE pc == "recognize"
             none == 0
             r == [ops[o] EXCEPT !.pc = pc, !.on = l, !.answer = none]
  <2>1. ops' = [ops EXCEPT ![o] = r] /\ requests' = Asked(o, l)
    BY <1>3 DEF WithWorker, Recognizing
  <2>2. /\ none \in Nat /\ none = 0
        /\ pc \in {"model", "raster", "crop", "init", "join", "recognize", "terminating", "ended"}
        /\ pc \in {"raster", "crop", "init", "join", "recognize", "terminating"}
        /\ pc \notin {"init", "join", "model"}
    OBVIOUS
  <2> HIDE DEF pc, none
  <2>3. r \in Operations
    BY <1>1, <2>2, Zenon DEF Operations
  <2>4. r.pc = pc /\ r.kind = ops[o].kind /\ r.outcome = ops[o].outcome /\ r.answer = 0
    BY <1>1, <2>2 DEF Operations
  <2> HIDE DEF r
  <2>5. r.pc # "model"
    BY <2>2, <2>4
  <2>6. Fits(o, r) /\ ~Installed(r)
    BY <1>1, <1>3, <2>2, <2>4 DEF Fits, Installed
  <2>7. LeasesFit'
    <3>1. \A q \in requests' : q.id[1] = q.op
        BY <2>1 DEF Asked, JobId, OcrInv, LeasesFit
    <3>2. QED BY <3>1 DEF OcrInv, LeasesFit, WorkersAreOwned
  <2>8. QED BY <1>3, <2>1, <2>3, <2>4, <2>5, <2>6, <2>7, OperationMoves
<1>4. QED BY <1>2, <1>3

\* ensureWorker reuses the worker, joins its init or starts one in an empty slot.
LEMMA EnsureKeeps ==
    ASSUME OcrInv, NEW o \in DOMAIN ops, EnsureWorker(o), ~closed, opSeq = o,
           ops[o].pc \in {"model", "crop"}, ops[o].kind # "prepare",
           opSeq' = opSeq, closed' = closed,
           handle' = IF ops[o].kind = "open" THEN o ELSE handle
    PROVE  OcrInv'
<1>1. /\ ops[o] \in Operations /\ Fits(o, ops[o]) /\ ops \in [DOMAIN ops -> Operations]
      /\ ops[o].kind \in {"open", "extract"}
    BY DEF OcrInv, OperationsFit, Operations
<1>2. LeasesFit /\ lease \in Nat /\ Cardinality(DOMAIN leases) \in Nat
    BY FS_CardinalityType DEF OcrInv, LeasesFit
<1>3. CASE HasWorker(lease) /\ WithWorker(o, lease) /\ UNCHANGED <<leases, lease>>
    BY <1>1, <1>2, <1>3, ServiceKeeps
<1>4. ASSUME NEW pc \in {"init", "join"}, NEW a \in Nat, NEW l \in Nat, LeasesFit',
             ops' = [ops EXCEPT ![o] = [ops[o] EXCEPT !.pc = pc, !.lease = a, !.on = l]]
      PROVE  OcrInv'
  <2> DEFINE r == [ops[o] EXCEPT !.pc = pc, !.lease = a, !.on = l]
  <2>1. pc \in {"model", "raster", "crop", "init", "join", "recognize", "terminating", "ended"}
    BY <1>4
  <2>2. r \in Operations
    BY <1>1, <1>4, <2>1, Zenon DEF Operations
  <2>3. /\ r.pc = pc /\ r.kind = ops[o].kind /\ r.outcome = ops[o].outcome
        /\ r.answer = ops[o].answer
    BY <1>1 DEF Operations
  <2> HIDE DEF r
  <2>4. Fits(o, r) /\ (Installed(r) => r.kind = "open") /\ r.pc # "model"
    BY <1>1, <1>4, <2>3 DEF Fits, Installed
  <2>5. ops' = [ops EXCEPT ![o] = r]
    BY <1>4 DEF r
  <2>6. \/ handle' = handle /\ (Installed(r) => Installed(ops[o]))
        \/ handle' = o /\ opSeq = o /\ r.kind = "open" /\ r.pc # "model"
    BY <2>3, <2>4
  <2>7. QED BY <1>4, <2>2, <2>3, <2>4, <2>5, <2>6, OperationMoves
<1>5. CASE /\ ops' = [ops EXCEPT ![o] = [@ EXCEPT !.pc = "join", !.on = lease]]
           /\ UNCHANGED <<leases, lease, requests>>
  <2> DEFINE a == ops[o].lease
             pc == "join"
  <2>1. a \in Nat /\ pc \in {"init", "join"}
    BY <1>1 DEF Operations
  <2>2. LeasesFit'
    BY <1>2, <1>5 DEF LeasesFit, WorkersAreOwned
  <2>3. [ops[o] EXCEPT !.pc = pc, !.on = lease]
            = [ops[o] EXCEPT !.pc = pc, !.lease = a, !.on = lease]
    BY <1>1 DEF Operations
  <2>4. ops' = [ops EXCEPT ![o] = [ops[o] EXCEPT !.pc = pc, !.lease = a, !.on = lease]]
    BY <1>5, <2>3
  <2> HIDE DEF a, pc
  <2>5. QED BY <1>2, <1>4, <2>1, <2>2, <2>4
<1>6. CASE /\ lease \notin {l \in DOMAIN leases : leases[l].phase \in {"kept", "loading"}}
           /\ lease' = Cardinality(DOMAIN leases) + 1
           /\ leases' = [l \in DOMAIN leases \cup {lease'} |->
                            IF l = lease' THEN [aborted |-> FALSE, phase |-> "loading"]
                            ELSE leases[l]]
           /\ ops' = [ops EXCEPT ![o] =
                        [@ EXCEPT !.pc = "init", !.lease = lease', !.on = lease']]
           /\ requests' = requests
  <2>1. PICK n \in Nat : n = lease'
    BY <1>2, <1>6
  <2> DEFINE pc == "init"
             new == [aborted |-> FALSE, phase |-> "loading"]
  <2>2. pc \in {"init", "join"} /\ new \in WorkerLeases
    BY DEF WorkerLeases
  <2>3. /\ DOMAIN leases' = DOMAIN leases \cup {n}
        /\ leases' = [l \in DOMAIN leases \cup {n} |-> IF l = n THEN new ELSE leases[l]]
    BY <1>6, <2>1
  <2>4. ops' = [ops EXCEPT ![o] = [ops[o] EXCEPT !.pc = pc, !.lease = n, !.on = n]]
    BY <1>6, <2>1
  <2> HIDE DEF pc, new
  <2>5. leases' \in [DOMAIN leases' -> WorkerLeases]
    BY <1>2, <2>2, <2>3 DEF LeasesFit
  <2>6. IsFiniteSet(DOMAIN leases')
    BY <1>2, <2>3, FS_AddElement DEF LeasesFit
  <2>7. WorkersAreOwned'
    <3> SUFFICES ASSUME NEW k \in DOMAIN leases',
                        \/ leases'[k].phase = "loading" /\ ~leases'[k].aborted
                        \/ leases'[k].phase = "kept"
                 PROVE  lease' = k
        BY DEF WorkersAreOwned
    <3>1. k = n \/ (k \in DOMAIN leases /\ leases'[k] = leases[k])
        BY <2>3
    <3>2. k \in DOMAIN leases /\ leases'[k] = leases[k] => lease = k
        BY <1>2 DEF LeasesFit, WorkersAreOwned
    <3>3. k \in DOMAIN leases /\ leases'[k] = leases[k] => FALSE
        BY <1>6, <3>2
    <3>4. QED BY <2>1, <3>1, <3>3
  <2>8. LeasesFit'
    BY <1>2, <1>6, <2>1, <2>5, <2>6, <2>7 DEF LeasesFit
  <2>9. QED BY <1>4, <2>1, <2>2, <2>4, <2>8
<1>7. QED BY <1>3, <1>5, <1>6 DEF EnsureWorker

\* Every older operation is told to stop; none moves by that.
LEMMA TerminatedFits ==
    ASSUME OcrInv, NEW o \in DOMAIN ops
    PROVE  /\ Terminated(ops)[o] \in Operations /\ Fits(o, Terminated(ops)[o])
           /\ Terminated(ops)[o].kind = ops[o].kind /\ Terminated(ops)[o].pc = ops[o].pc
           /\ Terminated(ops)[o].outcome = ops[o].outcome
<1>1. ops[o] \in Operations /\ Fits(o, ops[o])
    BY DEF OcrInv, OperationsFit
<1>2. Terminated(ops)[o] \in {ops[o], [ops[o] EXCEPT !.aborted = TRUE]}
    BY DEF Terminated
<1>3. [ops[o] EXCEPT !.aborted = TRUE] \in Operations
    BY <1>1 DEF Operations
<1>4. /\ [ops[o] EXCEPT !.aborted = TRUE].kind = ops[o].kind
      /\ [ops[o] EXCEPT !.aborted = TRUE].pc = ops[o].pc
      /\ [ops[o] EXCEPT !.aborted = TRUE].outcome = ops[o].outcome
      /\ [ops[o] EXCEPT !.aborted = TRUE].answer = ops[o].answer
    BY <1>1 DEF Operations
<1>5. Fits(o, [ops[o] EXCEPT !.aborted = TRUE])
    BY <1>1, <1>4 DEF Fits
<1>6. QED BY <1>1, <1>2, <1>3, <1>4, <1>5

\* A new operation supersedes every older one and takes nothing of theirs.
LEMMA BeginningKeeps ==
    ASSUME OcrInv, NEW kind \in {"prepare", "open", "extract"}, NEW h \in Nat,
           NEW pc \in {"model", "raster"}, pc = "raster" <=> kind = "extract",
           BeginScope(kind, h, pc),
           UNCHANGED <<handle, closed, leases, lease, requests, runPixels>>
    PROVE  OcrInv'
<1> DEFINE n == opSeq + 1
           new == Scope(kind, h, pc)
<1>1. /\ opSeq \in Nat /\ DOMAIN ops \subseteq 1..opSeq
      /\ opSeq' = n
      /\ ops' = [o \in DOMAIN ops \cup {n} |-> IF o = n THEN new ELSE Terminated(ops)[o]]
    BY DEF OcrInv, OperationsFit, BeginScope
<1>2. n \in Nat /\ n \notin DOMAIN ops /\ n # 0
    BY <1>1
<1>3. /\ new \in Operations /\ new.pc = pc /\ new.kind = kind /\ new.outcome = "none"
      /\ new.answer = 0
    BY DEF Scope, Operations
<1> HIDE DEF new
<1>4. Fits(n, new) /\ ~Installed(new)
    BY <1>3 DEF Fits, Installed
<1>5. /\ DOMAIN ops' = DOMAIN ops \cup {n} /\ ops'[n] = new
      /\ \A o \in DOMAIN ops : ops'[o] = Terminated(ops)[o]
    BY <1>1, <1>2
<1>6. \A o \in DOMAIN ops :
        /\ ops'[o] \in Operations /\ Fits(o, ops'[o]) /\ ops'[o].kind = ops[o].kind
        /\ ops'[o].pc = ops[o].pc /\ ops'[o].outcome = ops[o].outcome
    BY <1>5, TerminatedFits
<1>7. OperationsFit'
  <2>1. ops' = [o \in DOMAIN ops' |-> ops'[o]]
    BY <1>1, <1>5
  <2>2. \A o \in DOMAIN ops' : ops'[o] \in Operations /\ Fits(o, ops'[o])
    BY <1>3, <1>4, <1>5, <1>6
  <2>3. DOMAIN ops' \subseteq 1..opSeq'
    BY <1>1, <1>5
  <2>4. QED BY <1>1, <1>2, <2>1, <2>2, <2>3 DEF OperationsFit
<1>8. LeasesFit'
    BY DEF OcrInv, LeasesFit, WorkersAreOwned
<1>9. ASSUME NEW o \in DOMAIN ops', Installed(ops'[o]), ~closed, NoneLater(o)'
      PROVE  handle' = o
  <2>1. o \in DOMAIN ops
    BY <1>4, <1>5, <1>9
  <2>2. Installed(ops[o])
    BY <1>6, <1>9, <2>1 DEF Installed
  <2>3. NoneLater(o)
    BY <1>5, <1>6, <1>9 DEF NoneLater
  <2>4. QED BY <1>9, <2>1, <2>2, <2>3 DEF OcrInv, HandleFits
<1>10. HandleFits'
    BY <1>9 DEF OcrInv, HandleFits
<1>11. QED BY <1>7, <1>8, <1>10 DEF OcrInv

LEMMA ReaderBegins ==
    ASSUME OcrInv, PrepareModel \/ OpenReader \/ Extract
    PROVE  OcrInv'
<1> DEFINE prepare == "prepare"  open == "open"  extract == "extract"
           model == "model"  raster == "raster"  none == 0
<1>1. /\ prepare \in {"prepare", "open", "extract"} /\ open \in {"prepare", "open", "extract"}
      /\ extract \in {"prepare", "open", "extract"}
      /\ model \in {"model", "raster"} /\ raster \in {"model", "raster"} /\ none \in Nat
      /\ model = "raster" <=> prepare = "extract"
      /\ model = "raster" <=> open = "extract"
      /\ raster = "raster" <=> extract = "extract"
    OBVIOUS
<1>2. handle \in Nat
    BY DEF OcrInv, HandleFits
<1>3. /\ \/ BeginScope(prepare, none, model) \/ BeginScope(open, none, model)
         \/ BeginScope(extract, handle, raster)
      /\ UNCHANGED <<handle, closed, leases, lease, requests, runPixels>>
    BY DEF PrepareModel, OpenReader, Extract
<1> HIDE DEF prepare, open, extract, model, raster, none
<1>4. QED BY <1>1, <1>2, <1>3, BeginningKeeps

LEMMA CloseKeeps ==
    ASSUME OcrInv, CloseReader
    PROVE  OcrInv'
<1>1. /\ closed' = TRUE /\ opSeq' = opSeq + 1 /\ handle' = 0 /\ ops' = Terminated(ops)
      /\ DestroyLease(lease) /\ ~closed
    BY DEF CloseReader
<1>2. /\ DOMAIN ops' = DOMAIN ops /\ ops' = [o \in DOMAIN ops |-> Terminated(ops)[o]]
    BY <1>1 DEF Terminated
<1>3. \A o \in DOMAIN ops : ops'[o] \in Operations /\ Fits(o, ops'[o])
    BY <1>1, TerminatedFits
<1>4. OperationsFit'
  <2>1. opSeq' \in Nat /\ DOMAIN ops' \subseteq 1..opSeq'
    BY <1>1, <1>2 DEF OcrInv, OperationsFit
  <2>2. ops' \in [DOMAIN ops' -> Operations]
    BY <1>1, <1>2, <1>3
  <2>3. QED BY <1>2, <1>3, <2>1, <2>2 DEF OperationsFit
<1>5. LeasesFit'
  <2>1. lease \in Nat
    BY DEF OcrInv, LeasesFit
  <2>2. QED BY <1>1, <2>1, DestroyKeeps DEF OcrInv
<1>6. HandleFits'
    BY <1>1 DEF HandleFits
<1>7. QED BY <1>4, <1>5, <1>6 DEF OcrInv

\* The engine: an init settles, its hook installs the worker, an answer comes.
LEMMA LeaseMoves ==
    ASSUME OcrInv, NEW l \in DOMAIN leases,
           NEW phase \in {"loading", "made", "failed", "kept", "dropped"},
           leases' = [leases EXCEPT ![l].phase = phase], phase # "loading",
           phase = "kept" => lease = l,
           UNCHANGED <<ops, opSeq, handle, closed, lease, requests, runPixels>>
    PROVE  OcrInv'
<1> DEFINE r == [leases[l] EXCEPT !.phase = phase]
<1>1. leases \in [DOMAIN leases -> WorkerLeases] /\ leases[l] \in WorkerLeases
    BY DEF OcrInv, LeasesFit
<1>2. r \in WorkerLeases /\ r.phase = phase
    BY <1>1 DEF WorkerLeases
<1>3. leases' = [leases EXCEPT ![l] = r]
    OBVIOUS
<1> HIDE DEF r
<1>4. /\ DOMAIN leases' = DOMAIN leases /\ leases' \in [DOMAIN leases -> WorkerLeases]
      /\ leases'[l] = r /\ \A k \in DOMAIN leases : k # l => leases'[k] = leases[k]
    BY <1>1, <1>2, <1>3
<1>5. ASSUME NEW k \in DOMAIN leases,
             (leases'[k].phase = "loading" /\ ~leases'[k].aborted) \/ leases'[k].phase = "kept"
      PROVE  lease = k
  <2>1. CASE k = l
    BY <1>2, <1>4, <1>5, <2>1
  <2>2. CASE k # l
    BY <1>4, <1>5, <2>2 DEF OcrInv, LeasesFit, WorkersAreOwned
  <2>3. QED BY <2>1, <2>2
<1>6. LeasesFit'
    BY <1>4, <1>5 DEF OcrInv, LeasesFit, WorkersAreOwned
<1>7. OperationsFit'
    BY DEF OcrInv, OperationsFit
<1>8. HandleFits'
    BY DEF OcrInv, HandleFits, NoneLater
<1>9. QED BY <1>6, <1>7, <1>8 DEF OcrInv

LEMMA EngineKeeps ==
    ASSUME OcrInv, NEW l \in DOMAIN leases, EngineSettles(l) \/ SettleHook(l)
    PROVE  OcrInv'
<1>1. CASE EngineSettles(l)
  <2>1. PICK phase \in {"made", "failed"} : leases' = [leases EXCEPT ![l].phase = phase]
    BY <1>1 DEF EngineSettles
  <2>2. QED BY <1>1, <2>1, LeaseMoves DEF EngineSettles
<1>2. CASE SettleHook(l)
  <2> DEFINE phase == IF ~leases[l].aborted /\ lease = l THEN "kept" ELSE "dropped"
  <2>1. /\ leases' = [leases EXCEPT ![l].phase = phase]
        /\ phase \in {"kept", "dropped"} /\ (phase = "kept" => lease = l)
    BY <1>2 DEF SettleHook
  <2> HIDE DEF phase
  <2>2. QED BY <1>2, <2>1, LeaseMoves DEF SettleHook
<1>3. QED BY <1>1, <1>2

\* The key of a job tells whose it is, so an answer reaches nobody else.
LEMMA AnswersReachOwners ==
    ASSUME OcrInv, EngineAnswers
    PROVE  OcrInv'
<1>1. PICK r \in requests :
        /\ requests' = requests \ {r}
        /\ ops' = [o \in DOMAIN ops |->
                    IF ops[o].pc = "recognize" /\ ops[o].on = r.lease /\ JobId(o) = r.id
                    THEN [ops[o] EXCEPT !.answer = r.op] ELSE ops[o]]
        /\ UNCHANGED <<opSeq, handle, closed, leases, lease, runPixels>>
    BY DEF EngineAnswers
<1>2. r.id[1] = r.op
    BY DEF OcrInv, LeasesFit
<1>3. ASSUME NEW o \in DOMAIN ops
      PROVE  /\ ops'[o] \in Operations /\ Fits(o, ops'[o]) /\ ops'[o].kind = ops[o].kind
             /\ ops'[o].pc = ops[o].pc /\ ops'[o].outcome = ops[o].outcome
  <2>1. ops[o] \in Operations /\ Fits(o, ops[o]) /\ o \in Nat
    BY DEF OcrInv, OperationsFit
  <2>2. JobId(o) = r.id => r.op = o
    BY <1>2 DEF JobId
  <2>3. ops'[o] \in {ops[o], [ops[o] EXCEPT !.answer = o]}
    BY <1>1, <2>2
  <2> DEFINE q == [ops[o] EXCEPT !.answer = o]
  <2>4. /\ q \in Operations /\ q.kind = ops[o].kind /\ q.pc = ops[o].pc
        /\ q.outcome = ops[o].outcome /\ q.answer = o
    BY <2>1 DEF Operations
  <2> HIDE DEF q
  <2>5. Fits(o, q)
    BY <2>1, <2>4 DEF Fits
  <2>6. QED BY <2>1, <2>3, <2>4, <2>5 DEF q
<1>4. DOMAIN ops' = DOMAIN ops /\ ops' \in [DOMAIN ops -> Operations]
  <2>1. DOMAIN ops' = DOMAIN ops /\ ops' = [o \in DOMAIN ops |-> ops'[o]]
    BY <1>1
  <2>2. QED BY <1>3, <2>1
<1>5. OperationsFit'
    BY <1>1, <1>3, <1>4 DEF OcrInv, OperationsFit
<1>6. LeasesFit'
    BY <1>1 DEF OcrInv, LeasesFit, WorkersAreOwned
<1>7. HandleFits'
  <2> SUFFICES ASSUME NEW o \in DOMAIN ops, Installed(ops'[o]), ~closed, NoneLater(o)'
               PROVE  handle = o
    BY <1>1, <1>4 DEF HandleFits, OcrInv
  <2>1. Installed(ops[o]) /\ NoneLater(o)
    BY <1>3, <1>4 DEF Installed, NoneLater
  <2>2. QED BY <2>1 DEF OcrInv, HandleFits
<1>8. QED BY <1>5, <1>6, <1>7 DEF OcrInv

\* Nothing but one field of one operation changes.
LEMMA NoteKeeps ==
    ASSUME OcrInv, NEW o \in DOMAIN ops, NEW r \in Operations,
           ops' = [ops EXCEPT ![o] = r],
           UNCHANGED <<opSeq, handle, closed, leases, lease, requests>>,
           r.kind = ops[o].kind, r.outcome = ops[o].outcome, r.answer = ops[o].answer,
           \/ r.pc = ops[o].pc
           \/ ops[o].kind = "extract" /\ ops[o].pc # "ended"
              /\ r.pc \in {"raster", "crop"}
    PROVE  OcrInv'
<1>1. Fits(o, ops[o])
    BY DEF OcrInv, OperationsFit
<1>2. Fits(o, r) /\ (Installed(r) => Installed(ops[o])) /\ (r.pc = "model" => ops[o].pc = "model")
    BY <1>1 DEF Fits, Installed
<1>3. LeasesFit'
    BY DEF OcrInv, LeasesFit, WorkersAreOwned
<1>4. QED BY <1>2, <1>3, OperationMoves

\* The caller's signal and the clock.
LEMMA SignalsKeep ==
    ASSUME OcrInv, NEW o \in Live, CallerCancels(o) \/ DeadlinePasses(o)
    PROVE  OcrInv'
<1>1. o \in DOMAIN ops /\ ops[o] \in Operations
    BY DEF Live, OcrInv, OperationsFit
<1>2. CASE CallerCancels(o)
  <2> DEFINE r == [ops[o] EXCEPT !.cancelled = TRUE]
  <2>1. /\ r \in Operations /\ r.kind = ops[o].kind /\ r.outcome = ops[o].outcome
        /\ r.answer = ops[o].answer /\ r.pc = ops[o].pc
    BY <1>1 DEF Operations
  <2>2. ops' = [ops EXCEPT ![o] = r]
    BY <1>2 DEF CallerCancels
  <2> HIDE DEF r
  <2>3. QED BY <1>1, <1>2, <2>1, <2>2, NoteKeeps DEF CallerCancels
<1>3. CASE DeadlinePasses(o)
  <2> DEFINE r == [ops[o] EXCEPT !.late = TRUE]
  <2>1. /\ r \in Operations /\ r.kind = ops[o].kind /\ r.outcome = ops[o].outcome
        /\ r.answer = ops[o].answer /\ r.pc = ops[o].pc
    BY <1>1 DEF Operations
  <2>2. ops' = [ops EXCEPT ![o] = r]
    BY <1>3 DEF DeadlinePasses
  <2> HIDE DEF r
  <2>3. QED BY <1>1, <1>3, <2>1, <2>2, NoteKeeps DEF DeadlinePasses
<1>4. QED BY <1>2, <1>3

\* An operation ends otherwise than by failing: it holds nothing it has to give back.
LEMMA EndingKeeps ==
    ASSUME OcrInv, NEW o \in DOMAIN ops, NEW outcome \in Endings \cup {"none", "opened"},
           Ends(o, outcome), outcome = "opened" => ops[o].kind # "open",
           UNCHANGED <<opSeq, handle, closed, leases, lease, requests>>
    PROVE  OcrInv'
<1> DEFINE r == Ended(o, outcome)
<1>1. /\ r \in Operations /\ Fits(o, r) /\ r.kind = ops[o].kind /\ r.pc = "ended"
      /\ r.outcome = outcome
    BY EndedFits
<1>2. ops' = [ops EXCEPT ![o] = r]
    BY DEF Ends
<1> HIDE DEF r
<1>3. ~Installed(r)
    BY <1>1 DEF Installed
<1>4. LeasesFit'
    BY DEF OcrInv, LeasesFit, WorkersAreOwned
<1>5. QED BY <1>1, <1>2, <1>3, <1>4, OperationMoves

\* guard() lets an operation go on: it is the newest one of an open reader.
LEMMA GuardTells ==
    ASSUME NEW o, Guard(o) = "none"
    PROVE  ~closed /\ opSeq = o
BY DEF Guard

\* Each continuation of an await.
LEMMA ContinuationsKeep ==
    ASSUME OcrInv, NEW o \in Live, Continues(o)
    PROVE  OcrInv'
<1>1. /\ o \in DOMAIN ops /\ ops[o].pc # "ended" /\ ops[o] \in Operations /\ Fits(o, ops[o])
      /\ ops[o].kind \in {"prepare", "open", "extract"} /\ ops[o].on \in Nat
    BY DEF Live, OcrInv, OperationsFit, Operations
<1>2. opSeq' = opSeq /\ closed' = closed
    BY DEF Continues, ModelPrepared, RasterReady, Cropped, WorkerReady, Recognized, Cleared
<1>3. ASSUME NEW reason, Fails(o, reason)
      PROVE  OcrInv'
    BY <1>1, <1>2, <1>3, FailureKeeps
<1>4. CASE ModelPrepared(o)
  <2>1. ops[o].pc = "model"
    BY <1>4 DEF ModelPrepared
  <2>2. CASE Guard(o) = "none" /\ ops[o].kind = "open" /\ handle' = o /\ EnsureWorker(o)
    BY <1>1, <1>2, <2>1, <2>2, GuardTells, EnsureKeeps
  <2>3. CASE /\ ops[o].kind = "prepare" /\ Ends(o, "opened")
             /\ UNCHANGED <<handle, leases, lease, requests, runPixels>>
    <3> DEFINE opened == "opened"
    <3>1. opened \in Endings \cup {"opened"} /\ Ends(o, opened)
        BY <2>3
    <3> HIDE DEF opened
    <3>2. QED BY <1>1, <1>2, <2>3, <3>1, EndingKeeps
  <2>4. CASE Rejected(o, {"missing_model"})
    BY <1>3, <2>4 DEF Rejected
  <2>5. QED BY <1>4, <2>2, <2>3, <2>4 DEF ModelPrepared
<1>5. CASE RasterReady(o)
  <2>1. CASE /\ ops' = [ops EXCEPT ![o].pc = "crop"]
             /\ UNCHANGED <<handle, leases, lease, requests>>
    <3> DEFINE r == [ops[o] EXCEPT !.pc = "crop"]
    <3>1. /\ r \in Operations /\ r.kind = ops[o].kind /\ r.outcome = ops[o].outcome
          /\ r.answer = ops[o].answer /\ r.pc = "crop"
        BY <1>1 DEF Operations
    <3>2. ops[o].kind = "extract"
        BY <1>1, <1>5 DEF RasterReady, Fits
    <3>3. ops' = [ops EXCEPT ![o] = r]
        BY <2>1
    <3> HIDE DEF r
    <3>4. QED BY <1>1, <1>2, <2>1, <3>1, <3>2, <3>3, NoteKeeps
  <2>2. QED BY <1>3, <1>5, <2>1 DEF RasterReady, Rejected
<1>6. CASE Cropped(o)
  <2>1. CASE Guard(o) = "none" /\ EnsureWorker(o) /\ handle' = handle
    <3>1. ops[o].pc = "crop" /\ ops[o].kind = "extract"
        BY <1>1, <1>6 DEF Cropped, Fits
    <3>2. QED BY <1>1, <1>2, <2>1, <3>1, GuardTells, EnsureKeeps
  <2>2. QED BY <1>3, <1>6, <2>1 DEF Cropped, Rejected
<1>7. CASE WorkerReady(o)
  <2>1. CASE WithWorker(o, ops[o].on) /\ UNCHANGED <<handle, leases, lease>>
    <3>1. ops[o].pc \in {"init", "join"}
        BY <1>7 DEF WorkerReady
    <3>2. ops[o].kind # "prepare"
        BY <1>1, <3>1 DEF Fits
    <3>3. ops[o].kind = "open" => Installed(ops[o])
        BY <3>1 DEF Installed
    <3>4. QED BY <1>1, <1>2, <2>1, <3>2, <3>3, ServiceKeeps
  <2>2. QED BY <1>3, <1>7, <2>1 DEF WorkerReady
<1>8. CASE Recognized(o)
  <2>1. CASE /\ Ends(o, "completed")
             /\ UNCHANGED <<handle, leases, lease, requests, runPixels>>
    <3> DEFINE completed == "completed"
    <3>1. completed \in Endings \cup {"opened"} /\ completed # "opened" /\ Ends(o, completed)
        BY <2>1 DEF Endings
    <3> HIDE DEF completed
    <3>2. QED BY <1>1, <1>2, <2>1, <3>1, EndingKeeps
  <2>2. QED BY <1>3, <1>8, <2>1 DEF Recognized
<1>9. CASE Cleared(o)
  <2>1. ops[o].kind = "extract"
    BY <1>1, <1>9 DEF Cleared, Fits
  <2>2. CASE /\ ops[o].next # "retry" /\ Ends(o, ops[o].next)
             /\ UNCHANGED <<handle, leases, lease, requests, runPixels>>
    <3>1. ops[o].next \in Endings \cup {"none", "opened"}
        BY <1>1, <2>2 DEF Operations
    <3>2. QED BY <1>1, <1>2, <2>1, <2>2, <3>1, EndingKeeps
  <2>3. CASE /\ ops' = [ops EXCEPT ![o].pc = "raster", ![o].next = "none", ![o].attempt = @ + 1]
             /\ UNCHANGED <<handle, leases, lease, requests, runPixels>>
    <3> DEFINE pc == "raster"
               none == "none"
               n == ops[o].attempt + 1
               r == [ops[o] EXCEPT !.pc = pc, !.next = none, !.attempt = n]
    <3>1. ops' = [ops EXCEPT ![o] = r]
        BY <1>1, <2>3 DEF OcrInv, OperationsFit
    <3>2. /\ n \in Nat /\ none \in Endings \cup {"none", "retry"}
          /\ pc \in {"model", "raster", "crop", "init", "join", "recognize", "terminating", "ended"}
          /\ pc \in {"raster", "crop"}
        BY <1>1 DEF Operations
    <3> HIDE DEF pc, none, n
    <3>3. r \in Operations
        BY <1>1, <3>2, Zenon DEF Operations
    <3>4. /\ r.kind = ops[o].kind /\ r.outcome = ops[o].outcome /\ r.answer = ops[o].answer
          /\ r.pc = pc
        BY <1>1 DEF Operations
    <3> HIDE DEF r
    <3>5. QED BY <1>1, <1>2, <2>1, <2>3, <3>1, <3>2, <3>3, <3>4, NoteKeeps
  <2>4. QED BY <1>3, <1>9, <2>2, <2>3 DEF Cleared
<1>10. QED BY <1>4, <1>5, <1>6, <1>7, <1>8, <1>9 DEF Continues

LEMMA OcrInductive ==
    ASSUME OcrInv, OcrReaderNext
    PROVE  OcrInv'
BY ReaderBegins, CloseKeeps, EngineKeeps, AnswersReachOwners, ContinuationsKeep, SignalsKeep
   DEF OcrReaderNext

LEMMA OcrBegins == OcrReaderInit => OcrInv
<1> SUFFICES ASSUME OcrReaderInit PROVE OcrInv
    OBVIOUS
<1>1. /\ DOMAIN ops = {} /\ DOMAIN leases = {} /\ opSeq = 0 /\ handle = 0 /\ closed = FALSE
      /\ lease = 0 /\ requests = {}
      /\ ops \in [{} -> Operations] /\ leases \in [{} -> WorkerLeases]
    BY DEF OcrReaderInit
<1>2. IsFiniteSet(DOMAIN leases)
    BY <1>1, FS_EmptySet
<1>3. QED BY <1>1, <1>2 DEF OcrInv, OperationsFit, LeasesFit, WorkersAreOwned, HandleFits

(***************************************************************************)
(* Behaviours.                                                             *)
(***************************************************************************)

ReadersInv == OcrInv /\ ModelInv /\ PdfInv

LEMMA ReadersBegin == ReadersInit => ReadersInv
BY OcrBegins, ModelBegins, PdfBegins DEF ReadersInit, ReadersInv

LEMMA ReadersKeep == ReadersInv /\ [ReadersNext]_readersVars => ReadersInv'
<1> SUFFICES ASSUME ReadersInv, [ReadersNext]_readersVars PROVE ReadersInv'
    OBVIOUS
<1>1. UNCHANGED pdfReaderVars => PdfInv'
    BY DEF ReadersInv, pdfReaderVars, PdfInv
<1>2. UNCHANGED modelAssetVars => ModelInv'
    BY DEF ReadersInv, modelAssetVars, ModelInv, ModelTypes, Numbered, NewestServes, ServesAlone,
        Alive, RemovingForgets, ReadyHasBytes, Removing, RemovalPrevails
<1>3. UNCHANGED ocrReaderVars => OcrInv'
    BY DEF ReadersInv, ocrReaderVars, OcrInv, OperationsFit, LeasesFit, WorkersAreOwned, HandleFits,
        NoneLater
<1>4. QED
    BY <1>1, <1>2, <1>3, PdfInductive, ModelInductive, OcrInductive
       DEF ReadersInv, ReadersNext, OcrStep, readersVars

\* Whatever happens to the reader's parts, each keeps its account.
THEOREM ReadersInvariance == ReadersSpec => []ReadersInv
BY ReadersBegin, ReadersKeep, PTL DEF ReadersSpec

\* However operations of the OCR reader supersede each other, fail, are retried
\* or closed, its worker, its handle and their answers stay whose they are
\* (readers-tesseract, reader.ts).
THEOREM OperationsStayApart == ReadersSpec => []OperationsKeepApart
<1>1. ReadersInv => OperationsKeepApart
  <2> SUFFICES ASSUME ReadersInv PROVE OperationsKeepApart
    OBVIOUS
  <2>1. WorkersAreOwned
    BY DEF ReadersInv, OcrInv, LeasesFit
  <2>2. HandleStays
    BY DEF ReadersInv, OcrInv, HandleFits, HandleStays, Installed, NoneLater
  <2>3. AnswerIsOwn
    BY DEF ReadersInv, OcrInv, OperationsFit, Fits, AnswerIsOwn, Live
  <2>4. QED BY <2>1, <2>2, <2>3 DEF OperationsKeepApart, LeasesAreOwned
<1>2. QED BY <1>1, ReadersInvariance, PTL

\* However a text walk is interrupted and a document is closed under a render,
\* what a completed or cancelled extraction reports is what it emitted, any
\* other reports nothing, it holds nothing when it has ended, and only a
\* document without pages leaves its task (readers-pdfjs, text.ts, render.ts,
\* document.ts).
THEOREM ExtractionsAccounted == ReadersSpec => []ExtractionIsAccounted
<1>1. ReadersInv => ExtractionIsAccounted
    BY DEF ReadersInv, PdfInv, Accounted, ExtractionIsAccounted, ReportedIsEmitted, PdfLeavesNothing
<1>2. QED BY <1>1, ReadersInvariance, PTL

\* Removed model data stays removed and the state shown is true, at whatever
\* await a removal meets a download (readers-tesseract, model-cache.ts).
THEOREM ModelStateHolds == ReadersSpec => []ModelStateIsTrue
<1>1. ReadersInv => ModelStateIsTrue
    BY DEF ReadersInv, ModelInv, ModelStateIsTrue, ModelStaysRemoved, ReadyHasBytes,
        RemovalPrevails, Removing, Removes
<1>2. QED BY <1>1, ReadersInvariance, PTL
=============================================================================
