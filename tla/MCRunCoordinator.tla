------------------------- MODULE MCRunCoordinator -------------------------
(***************************************************************************)
(* Values for model-checking RunCoordinator.  Checks on page 0 of each     *)
(* kind, and a second render check on page 1.                              *)
(***************************************************************************)
EXTENDS RunCoordinator

CONSTANTS txt, rnd, ocr, aln, rnd2, o1, o2

CheckSeq == <<txt, rnd, rnd2, ocr, aln>>

MCCapability ==
    [c \in Checks |->
        CASE c = txt -> "native_text"
          [] c \in {rnd, rnd2} -> "render"
          [] c = ocr -> "ocr"
          [] c = aln -> "alignment"]

MCPageOf == [c \in Checks |-> IF c = rnd2 THEN 1 ELSE 0]

MCPlanIndex == [c \in Checks |-> CHOOSE i \in 1..Len(CheckSeq) : CheckSeq[i] = c]

WholePlan == {Checks}
TextOrBoth == {{txt}, {txt, aln}}

NoChunks == {}
SingleChunks == {<<o1>>}

\* One byte of text per occurrence.
Lengths == [occs \in Chunks |-> Len(occs)]

\* A caller's own map with a cycle: startRun must refuse it.
CyclicMap == {[c \in {ocr, aln} |-> IF c = ocr THEN {aln} ELSE {ocr}]}
=============================================================================
