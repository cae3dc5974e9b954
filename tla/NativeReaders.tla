---------------------------- MODULE NativeReaders ----------------------------
(***************************************************************************)
(* The native readers (native/inkflip/readers): pdfium.py walks the         *)
(* characters of a page and joins those of one glyph box, tesseract.py      *)
(* crops a raster and walks the rows the engine printed, pypdf.py takes the *)
(* text of a page as one occurrence. Occurrences are emitted in chunks, and *)
(* a check ends with the count and the ids of those it emitted.             *)
(*                                                                         *)
(* A page is a sequence of items: a glyph with its box, a space, a line     *)
(* break; a word, a row that is no word, a malformed row. "fault" is an     *)
(* engine error at that place. Occurrences keep where they come from.       *)
(***************************************************************************)
EXTENDS Integers, Sequences, FiniteSets

CONSTANTS ReadingRequests,     \* the checks that may be asked, each with its page
          MaxChars, MaxWords,  \* MAX_CHARS_PER_PAGE, MAX_WORD_OCCURRENCES
          OccurrenceChunk,     \* MAX_OCCURRENCES_PER_CHUNK, 256
          CharChunk,           \* CHAR_CHUNK, between two looks at the cancellation
          PaddingMin, MaxPixels, \* CONTEXT_PADDING_MIN_PX, MAX_RASTER_PIXELS
          NoEnding

ASSUME ReadersAssumption ==
    {MaxChars, MaxWords, OccurrenceChunk, CharChunk, MaxPixels} \subseteq Nat \ {0} /\ PaddingMin \in Nat

KindsOf(reader) ==
    CASE reader = "pdfium" -> {"glyph", "space", "break", "fault"}
      [] reader = "tesseract" -> {"word", "other", "fault"}
      [] reader = "pypdf" -> {"glyph", "fault"}

EndStatuses == {"completed", "failed", "cancelled", "unsupported", "timeout"}

\* A check that has not ended has no terminal record.
ASSUME RequestsAreReadings ==
    /\ NoEnding \notin [status : EndStatuses, produced : Nat, retained : Seq(Nat)]
    /\ \A r \in ReadingRequests :
          /\ r.reader \in {"pdfium", "pypdf", "tesseract"}
          /\ r.items \in Seq([kind : KindsOf(r.reader), box : Nat])
          /\ r.reader = "tesseract" =>
                /\ r.region \in [x0 : Nat, y0 : Nat, x1 : Nat, y1 : Nat]
                /\ r.raster \in [w : Nat, h : Nat] /\ r.resize \in Nat

VARIABLES reading,  \* the check and its page
          cursor,   \* items looked at
          walk,     \* the open run, the pending chunk, what was emitted and counted
          crop,     \* the padded rectangle and the size it was resized to
          stop,     \* cancellation was asked
          ending    \* the terminal record

readerVars == <<reading, cursor, walk, crop, stop, ending>>

NoRun == [from |-> 0, length |-> 0, box |-> 0]
NoCrop == [x0 |-> 0, y0 |-> 0, x1 |-> 0, y1 |-> 0, w |-> 0, h |-> 0]

EmptyWalk == [run |-> NoRun, ordinal |-> 0, chunk |-> <<>>, emitted |-> <<>>, retained |-> <<>>, produced |-> 0]

IdsOf(occurrences) == [i \in DOMAIN occurrences |-> occurrences[i].ordinal]

ReadersInit ==
    /\ reading \in ReadingRequests
    /\ cursor = 0 /\ walk = EmptyWalk /\ crop = NoCrop /\ stop = FALSE /\ ending = NoEnding

----------------------------------------------------------------------------
(***************************************************************************)
(* Occurrences.                                                            *)
(***************************************************************************)
EmitChunk(w) ==
    [w EXCEPT !.emitted = @ \o w.chunk, !.retained = @ \o IdsOf(w.chunk),
              !.produced = @ + Len(w.chunk), !.chunk = <<>>]

Keep(w, from, length) ==
    LET o == [ordinal |-> w.ordinal, from |-> from, length |-> length]
        added == [w EXCEPT !.ordinal = @ + 1, !.chunk = Append(@, o)]
    IN  IF Len(added.chunk) >= OccurrenceChunk THEN EmitChunk(added) ELSE added

FlushRun(w) ==
    IF w.run.length = 0 THEN w
    ELSE [Keep(w, w.run.from, w.run.length) EXCEPT !.run = NoRun]

Extend(w, at, box) ==
    [w EXCEPT !.run = [from |-> IF @.length = 0 THEN at ELSE @.from,
                       length |-> @.length + 1, box |-> box]]

EndReading(status, w) ==
    /\ walk' = w
    /\ ending' = [status |-> status, produced |-> w.produced, retained |-> w.retained]

Reading(reader) == ending = NoEnding /\ reading.reader = reader

----------------------------------------------------------------------------
(***************************************************************************)
(* What the readers refuse before they look at the page.                   *)
(***************************************************************************)
Refusal(r) ==
    IF r.closed \/ (r.reader = "pypdf" /\ r.encrypted) THEN "failed"
    ELSE IF r.capability # (IF r.reader = "tesseract" THEN "ocr" ELSE "native_text") THEN "unsupported"
    ELSE IF r.reader = "tesseract" /\ stop THEN "cancelled"
    ELSE IF \/ r.reader = "tesseract" /\ ~r.binary
            \/ r.regionId
            \/ r.reader # "tesseract" /\ ~r.inRange THEN "unsupported"
    ELSE IF r.reader = "pdfium" /\ Len(r.items) > MaxChars THEN "failed"
    ELSE "none"

Refuse ==
    /\ ending = NoEnding /\ cursor = 0 /\ crop = NoCrop
    /\ Refusal(reading) # "none"
    /\ EndReading(Refusal(reading), walk)
    /\ UNCHANGED <<reading, cursor, crop, stop>>

Admitted == Refusal(reading) = "none"

\* Whoever supervises a reading may ask it to stop; the reader looks now and then.
AskToStop ==
    /\ ending = NoEnding /\ ~stop
    /\ stop' = TRUE
    /\ UNCHANGED <<reading, cursor, walk, crop, ending>>

----------------------------------------------------------------------------
(***************************************************************************)
(* PDFium: one character at a time.                                        *)
(***************************************************************************)
LooksAtStop == cursor % CharChunk = 0

\* Cancelled, the pending chunk goes with the run it holds.
PdfiumStopsShort ==
    /\ Reading("pdfium") /\ Admitted
    /\ cursor < Len(reading.items) /\ LooksAtStop /\ stop
    /\ EndReading("cancelled", walk)
    /\ UNCHANGED <<reading, cursor, crop, stop>>

\* Cancelled, the pending chunk is emitted and the open run is not.
PdfiumStops ==
    /\ Reading("pdfium") /\ Admitted
    /\ cursor < Len(reading.items) /\ LooksAtStop /\ stop
    /\ EndReading("cancelled", EmitChunk(walk))
    /\ UNCHANGED <<reading, cursor, crop, stop>>

\* Every character counts, the spaces of another box too.
WalkedOn(w, at, item) ==
    CASE item.kind = "break" -> FlushRun(w)
      [] item.kind = "space" -> FlushRun(IF w.run.length = 0 THEN w ELSE Extend(w, at, w.run.box))
      [] item.kind = "glyph" ->
            Extend(IF w.run.length > 0 /\ w.run.box # item.box THEN FlushRun(w) ELSE w, at, item.box)

PdfiumCharacter ==
    /\ Reading("pdfium") /\ Admitted
    /\ cursor < Len(reading.items) /\ ~(LooksAtStop /\ stop)
    /\ cursor' = cursor + 1
    /\ LET item == reading.items[cursor + 1]
       IN  IF item.kind = "fault"
           THEN EndReading("failed", walk)
           ELSE walk' = WalkedOn(walk, cursor + 1, item) /\ UNCHANGED ending
    /\ UNCHANGED <<reading, crop, stop>>

PdfiumEnds ==
    /\ Reading("pdfium") /\ Admitted
    /\ cursor = Len(reading.items)
    /\ EndReading("completed", EmitChunk(FlushRun(walk)))
    /\ UNCHANGED <<reading, cursor, crop, stop>>

----------------------------------------------------------------------------
(***************************************************************************)
(* pypdf: the page is one occurrence, or none when anything fails.          *)
(***************************************************************************)
PypdfPage ==
    /\ Reading("pypdf") /\ Admitted
    /\ IF stop THEN EndReading("cancelled", walk)
       ELSE IF (\E i \in DOMAIN reading.items : reading.items[i].kind = "fault") \/ Len(reading.items) > MaxChars
       THEN EndReading("failed", walk)
       ELSE EndReading("completed", EmitChunk([walk EXCEPT !.chunk = <<[ordinal |-> 0, from |-> 1, length |-> Len(reading.items)]>>]))
    /\ UNCHANGED <<reading, cursor, crop, stop>>

----------------------------------------------------------------------------
(***************************************************************************)
(* Tesseract: plan the crop, run the engine, walk its rows.                *)
(***************************************************************************)
Larger(a, b) == IF a > b THEN a ELSE b
Smaller(a, b) == IF a < b THEN a ELSE b

\* A region inside the raster, and a tenth of its height around it.
ValidRegion(r) ==
    /\ r.region.x0 < r.region.x1 /\ r.region.x1 <= r.raster.w
    /\ r.region.y0 < r.region.y1 /\ r.region.y1 <= r.raster.h

Padded(r) ==
    LET pad == Larger(PaddingMin, (r.region.y1 - r.region.y0 + 9) \div 10)
    IN  [x0 |-> Larger(0, r.region.x0 - pad), y0 |-> Larger(0, r.region.y0 - pad),
         x1 |-> Smaller(r.raster.w, r.region.x1 + pad), y1 |-> Smaller(r.raster.h, r.region.y1 + pad)]

\* Half to even, as round() does; the factor is a number of halves.
Half(n) == IF n % 2 = 0 THEN n \div 2 ELSE IF (n \div 2) % 2 = 0 THEN n \div 2 ELSE n \div 2 + 1
Resized(size, halves) == Larger(1, Half(size * halves))

\* The model is found and read, the raster decodes and its resize fits the budget.
PlanCrop ==
    /\ Reading("tesseract") /\ Admitted /\ crop = NoCrop
    /\ LET p == Padded(reading)
           planned == [x0 |-> p.x0, y0 |-> p.y0, x1 |-> p.x1, y1 |-> p.y1,
                       w |-> Resized(p.x1 - p.x0, reading.resize),
                       h |-> Resized(p.y1 - p.y0, reading.resize)]
       IN  IF ~ValidRegion(reading) \/ ~reading.model \/ ~reading.decodes \/ planned.w * planned.h > MaxPixels
           THEN EndReading("failed", walk) /\ UNCHANGED crop
           ELSE crop' = planned /\ UNCHANGED <<walk, ending>>
    /\ UNCHANGED <<reading, cursor, stop>>

\* The engine: killed at its deadline, not runnable, or ended with an error.
EngineFails ==
    /\ Reading("tesseract") /\ crop # NoCrop /\ cursor = 0
    /\ \E status \in {"timeout", "unsupported", "failed"} : EndReading(status, walk)
    /\ UNCHANGED <<reading, cursor, crop, stop>>

\* A budget that lets one word more through.
WordsAreSpentLate(w) == w.ordinal > MaxWords

WordsAreSpent(w) == w.ordinal >= MaxWords

\* A word row looks at the cancellation, which drops the chunk, then at the budget.
TesseractRow ==
    /\ Reading("tesseract") /\ crop # NoCrop
    /\ cursor < Len(reading.items)
    /\ cursor' = cursor + 1
    /\ LET kind == reading.items[cursor + 1].kind
       IN  CASE kind = "other" -> UNCHANGED <<walk, ending>>
             [] kind = "fault" -> EndReading("failed", EmitChunk(walk))
             [] kind = "word" ->
                   IF stop THEN EndReading("cancelled", walk)
                   ELSE IF WordsAreSpent(walk) THEN EndReading("failed", EmitChunk(walk))
                   ELSE walk' = Keep(walk, cursor + 1, 1) /\ UNCHANGED ending
    /\ UNCHANGED <<reading, crop, stop>>

TesseractEnds ==
    /\ Reading("tesseract") /\ crop # NoCrop
    /\ cursor = Len(reading.items)
    /\ EndReading("completed", EmitChunk(walk))
    /\ UNCHANGED <<reading, cursor, crop, stop>>

\* crop_to_raster with the factor that was asked for.
ToRasterAsked(x, from, source, target) == [num |-> 2 * x + from * reading.resize, den |-> reading.resize]

\* crop_to_raster, with the factor of the resize that was performed; a fraction.
ToRaster(x, from, source, target) == [num |-> x * source + from * target, den |-> target]

ReadersNext ==
    \/ Refuse \/ AskToStop
    \/ PdfiumStops \/ PdfiumCharacter \/ PdfiumEnds
    \/ PypdfPage
    \/ PlanCrop \/ EngineFails \/ TesseractRow \/ TesseractEnds

ReadersSpec == ReadersInit /\ [][ReadersNext]_readerVars

----------------------------------------------------------------------------
(***************************************************************************)
(* What a page consists of: a glyph's characters with the space behind      *)
(* them, the words of a raster before the first malformed row, the page.    *)
(***************************************************************************)
IsGlyph(items, i) == i \in DOMAIN items /\ items[i].kind = "glyph"

Joined(items, i) == IsGlyph(items, i) /\ IsGlyph(items, i - 1) /\ items[i].box = items[i - 1].box

GlyphAt(items, i) ==
    LET stretch == {n \in 1..(Len(items) + 1 - i) : \A j \in (i + 1)..(i + n - 1) : Joined(items, j)}
        n == CHOOSE m \in stretch : \A k \in stretch : k <= m
        spaced == i + n \in DOMAIN items /\ items[i + n].kind = "space"
    IN  [from |-> i, length |-> IF spaced THEN n + 1 ELSE n]

StartsOf(r) ==
    CASE r.reader = "pdfium" -> {i \in DOMAIN r.items : IsGlyph(r.items, i) /\ ~Joined(r.items, i)}
      [] r.reader = "tesseract" ->
            {i \in DOMAIN r.items : r.items[i].kind = "word" /\ \A j \in 1..i : r.items[j].kind # "fault"}
      [] r.reader = "pypdf" -> {1}

Rank(S, i) == Cardinality({j \in S : j < i})

Wanted(r) ==
    {LET piece == CASE r.reader = "pdfium" -> GlyphAt(r.items, i)
                    [] r.reader = "tesseract" -> [from |-> i, length |-> 1]
                    [] r.reader = "pypdf" -> [from |-> 1, length |-> Len(r.items)]
     IN  [ordinal |-> Rank(StartsOf(r), i), from |-> piece.from, length |-> piece.length] :
        i \in StartsOf(r)}

Emitted == {walk.emitted[i] : i \in DOMAIN walk.emitted}

(***************************************************************************)
(* READER_ADAPTER_CONTRACT.md, pdfium.py, tesseract.py: however a check     *)
(* ends, what it says it retained is what it emitted, in the order of the   *)
(* page, whole pieces of it and no other; completed, it is all of the page; *)
(* cancelled, all that PDFium's reader had closed; at the word budget or a  *)
(* malformed row, every word before it.                                    *)
(***************************************************************************)
EmissionIsAccounted ==
    ending # NoEnding =>
        /\ ending.retained = IdsOf(walk.emitted) /\ ending.produced = Len(walk.emitted)
        /\ ending.retained = [i \in 1..Len(walk.emitted) |-> i - 1]
        /\ Emitted \subseteq Wanted(reading)
        /\ ending.status = "completed" => Emitted = Wanted(reading)
        /\ reading.reader = "pdfium" /\ ending.status = "cancelled" =>
              \A o \in Wanted(reading) : o.from + o.length <= cursor => o \in Emitted
        /\ reading.reader = "tesseract" => Len(walk.emitted) <= MaxWords
        /\ reading.reader = "tesseract" /\ ending.status = "failed" /\ cursor > 0 =>
              \A o \in Wanted(reading) : o.from < cursor => o \in Emitted

(***************************************************************************)
(* tesseract.py "the recorded inverse must describe the resize actually     *)
(* performed": the region lies in the crop and the crop in the raster, and  *)
(* every pixel of what the engine saw maps back into the crop.              *)
(***************************************************************************)
MapsInto(from, to, size) ==
    \A x \in 0..size :
        LET p == ToRaster(x, from, to - from, size) IN from * p.den <= p.num /\ p.num <= to * p.den

CropHoldsWords ==
    crop # NoCrop =>
        /\ 0 <= crop.x0 /\ crop.x0 <= reading.region.x0 /\ reading.region.x1 <= crop.x1 /\ crop.x1 <= reading.raster.w
        /\ 0 <= crop.y0 /\ crop.y0 <= reading.region.y0 /\ reading.region.y1 <= crop.y1 /\ crop.y1 <= reading.raster.h
        /\ MapsInto(crop.x0, crop.x1, crop.w) /\ MapsInto(crop.y0, crop.y1, crop.h)

ReadersKeepAll == EmissionIsAccounted /\ CropHoldsWords
=============================================================================
