----------------------------- MODULE MCReaders -----------------------------
(***************************************************************************)
(* The readers' parts side by side: the OCR reader, its model's bytes and   *)
(* the PDF.js adapter share nothing, so a behaviour explores one of them.   *)
(***************************************************************************)
EXTENDS OcrReader, ModelAssets, PdfReader

VARIABLE part   \* the part this behaviour explores

readersVars == <<part, ocrReaderVars, modelAssetVars, pdfReaderVars>>

ReadersInit ==
    /\ part \in {"ocr", "model", "pdf"}
    /\ OcrReaderInit /\ ModelAssetsInit /\ PdfReaderInit
    /\ part # "model" => cache = "none"

OcrStep(action) ==
    /\ part = "ocr" /\ action
    /\ UNCHANGED <<part, modelAssetVars, pdfReaderVars>>

ReadersNext ==
    \/ OcrStep(OcrReaderNext)
    \/ /\ part = "model" /\ ModelAssetsNext
       /\ UNCHANGED <<part, ocrReaderVars, pdfReaderVars>>
    \/ /\ part = "pdf" /\ PdfReaderNext
       /\ UNCHANGED <<part, ocrReaderVars, modelAssetVars>>

\* No fairness of the engine, the raster source or the model: timers fire, and
\* what they reject continues.
ReadersSpec ==
    /\ ReadersInit /\ [][ReadersNext]_readersVars
    /\ WF_readersVars(OcrStep(Unblocks)) /\ WF_readersVars(OcrStep(Expires))
=============================================================================
