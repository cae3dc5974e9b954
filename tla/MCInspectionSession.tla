------------------------ MODULE MCInspectionSession ------------------------
(***************************************************************************)
(* Values for model-checking InspectionSession: one page, with and without *)
(* OCR.                                                                    *)
(***************************************************************************)
EXTENDS InspectionSession

CONSTANTS txt, rnd, ocr, aln, o1

CheckSeq == <<txt, rnd, ocr, aln>>

MCCapability ==
    [c \in Checks |->
        CASE c = txt -> "native_text"
          [] c = rnd -> "render"
          [] c = ocr -> "ocr"
          [] c = aln -> "alignment"]

MCPageOf == [c \in Checks |-> 0]

MCPlanIndex == [c \in Checks |-> CHOOSE i \in 1..Len(CheckSeq) : CheckSeq[i] = c]

WithoutOcr == {txt, aln}
WithOcr == {txt, rnd, ocr, aln}
BothPlans == {WithoutOcr, WithOcr}

MCResources == 1..MaxGeneration
SingleChunks == {<<o1>>}
Lengths == [occs \in Chunks |-> Len(occs)]
=============================================================================
