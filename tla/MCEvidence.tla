----------------------------- MODULE MCEvidence -----------------------------
(***************************************************************************)
(* Two instances of RunCoordinator, of which a behaviour explores one: a   *)
(* text check that streams chunks and is run again, and renders that       *)
(* compete with an OCR check for one render slot and one raster.           *)
(***************************************************************************)
EXTENDS MCRunCoordinator

VARIABLE part   \* the instance this behaviour explores

Texts == {txt, aln}
Renders == {rnd, rnd2, ocr}
AllPlans == TextOrBoth \cup {Renders}
RenderPlans == {Renders}

CapabilityOfTexts == [c \in Texts |-> Capability[c]]
PageOfTexts == [c \in Texts |-> PageOf[c]]
IndexOfTexts == [c \in Texts |-> PlanIndex[c]]
CapabilityOfRenders == [c \in Renders |-> Capability[c]]
PageOfRenders == [c \in Renders |-> PageOf[c]]
IndexOfRenders == [c \in Renders |-> PlanIndex[c]]
Crashes == {"worker_crash"}
Corruptions == {"corrupt"}
NoSlot == {"none"}
NoBytes == [c \in {} |-> 0]

Reading == INSTANCE RunCoordinator WITH
    Checks <- Texts, Capability <- CapabilityOfTexts, PageOf <- PageOfTexts,
    PlanIndex <- IndexOfTexts, Plans <- TextOrBoth, Slots <- NoSlot, Reasons <- Crashes

Rendering == INSTANCE RunCoordinator WITH
    Checks <- Renders, Capability <- CapabilityOfRenders, PageOf <- PageOfRenders,
    PlanIndex <- IndexOfRenders, Plans <- RenderPlans, Chunks <- NoChunks,
    ChunkBytes <- NoBytes, Reasons <- Corruptions, MaxGeneration <- 1

PartInit == Init /\ part \in {"reading", "rendering"}

PartNext ==
    /\ \/ part = "reading" /\ Reading!Next
       \/ part = "rendering" /\ Rendering!Next
    /\ UNCHANGED part

PartSpec == PartInit /\ [][PartNext]_<<vars, part>>
=============================================================================
