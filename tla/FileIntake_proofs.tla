------------------------- MODULE FileIntake_proofs -------------------------
(***************************************************************************)
(* For every set of files and any number of user actions: what the         *)
(* workspace shows is held and matches its bytes, no offer strands the     *)
(* lifecycle, and both controllers together implement RunLifecycle.        *)
(*                                                                         *)
(* The argument is about who may act between two awaits of whom.  While a  *)
(* file is offered no document is shown (NothingShownYet); an open import  *)
(* and a shown document exclude each other and each pins the state of the  *)
(* coordinator (OneSource); so a continuation that finds the state it left *)
(* finds everything else it left (OfferHolds).                             *)
(***************************************************************************)
EXTENDS FileIntake, TLAPS

(***************************************************************************)
(* The inductive invariant.                                                *)
(***************************************************************************)
Early == {"idle", "validating_file", "loading_metadata"}

\* No document before selection.
NoDocumentYet == co.state \in Early => co.doc = None

\* What the coordinator owns was handed over under this or an earlier generation.
OwnedSoFar == \A o \in co.owned : o.gen <= co.gen

\* An offer in flight has its file, and its document handle by the last await.
OfferHolds ==
    /\ open.at # "off" => open.file \in Pdfs
    /\ co.state = "loading_metadata" /\ open.at = "pages" =>
            IsOpen(handle) /\ handle.sha = open.file

\* While a file is offered, or none is open, no document is shown, nor anything
\* else unless an import overtook the offer.
NothingShownYet ==
    open.at # "off" \/ co.state = "idle" =>
        /\ doc = None
        /\ ~superseded =>
                report = None /\ current = None /\ retained = None /\ ~attached

\* A run is one of the document shown; an open import is the report shown, and
\* nobody moves the coordinator on while it is; the two exclude each other.
OneSource ==
    /\ co.state \in {"running", "complete"} => doc # None
    /\ doc # None => current = None /\ (attached => superseded)
    /\ current # None =>
        /\ co.state = "selecting"
        /\ report # None /\ report.from = "import" /\ report.of = current.of
    /\ report # None /\ report.from = "import" =>
        report.of \in Reports /\ report.sha = RecordedDoc[report.of]

IntakeInv ==
    /\ NobodyStranded /\ ShownIsSound
    /\ NoDocumentYet /\ OwnedSoFar
    /\ OfferHolds /\ NothingShownYet /\ OneSource

\* A step of the lifecycle, or none.
LifeStep == [L!Advance \/ L!Hold \/ L!Work \/ L!Retire]_(L!lifeVars)

(***************************************************************************)
(* The coordinator's calls.                                                *)
(***************************************************************************)
LEMMA ClearCall ==
    ASSUME NEW c \in Coordinators, NEW state \in {"idle", "validating_file"}
    PROVE  /\ Cleared(c, state) \in Coordinators
           /\ Cleared(c, state).state = state /\ Cleared(c, state).gen = c.gen + 1
           /\ Cleared(c, state).doc = None /\ Cleared(c, state).owned = {}
BY DEF Cleared, Coordinators, Shas

LEMMA LoadCall ==
    ASSUME NEW c \in Coordinators, NEW sha \in Pdfs
    PROVE  /\ Loaded(c, sha) \in Coordinators
           /\ Loaded(c, sha).state = "selecting" /\ Loaded(c, sha).gen = c.gen
           /\ Loaded(c, sha).doc = sha /\ Loaded(c, sha).owned = c.owned
BY DEF Loaded, Coordinators, Shas

LEMMA OwnCall ==
    ASSUME NEW c \in Coordinators, NEW kind \in {"handle", "report", "bytes"}, NEW sha \in Pdfs
    PROVE  /\ Owning(c, kind, sha) \in Coordinators
           /\ Owning(c, kind, sha).state = c.state /\ Owning(c, kind, sha).gen = c.gen
           /\ Owning(c, kind, sha).doc = c.doc
           /\ Owning(c, kind, sha).owned =
                c.owned \cup {[kind |-> kind, sha |-> sha, gen |-> c.gen]}
<1> DEFINE o == [kind |-> kind, sha |-> sha, gen |-> c.gen]
           all == c.owned \cup {o}
<1>1. o \in Owned /\ c.owned \in SUBSET Owned
    BY DEF Owned, Coordinators
<1>2. Owning(c, kind, sha) = [c EXCEPT !.owned = all]
    BY DEF Owning, Coordinators
<1>3. all \in SUBSET Owned
    BY <1>1
<1> HIDE DEF o, all
<1>4. /\ Owning(c, kind, sha) \in Coordinators
      /\ Owning(c, kind, sha).state = c.state /\ Owning(c, kind, sha).gen = c.gen
      /\ Owning(c, kind, sha).doc = c.doc /\ Owning(c, kind, sha).owned = all
    BY <1>2, <1>3 DEF Coordinators
<1> QED BY <1>4 DEF o, all

LEMMA MoveCall ==
    ASSUME NEW c \in Coordinators,
           NEW state \in {"validating_file", "loading_metadata", "selecting", "complete"}
    PROVE  /\ [c EXCEPT !.state = state] \in Coordinators
           /\ [c EXCEPT !.state = state].state = state
           /\ [c EXCEPT !.state = state].gen = c.gen
           /\ [c EXCEPT !.state = state].doc = c.doc
           /\ [c EXCEPT !.state = state].owned = c.owned
BY DEF Coordinators

LEMMA RunCall ==
    ASSUME NEW c \in Coordinators
    PROVE  /\ [c EXCEPT !.state = "running", !.gen = c.gen + 1] \in Coordinators
           /\ [c EXCEPT !.state = "running", !.gen = c.gen + 1].state = "running"
           /\ [c EXCEPT !.state = "running", !.gen = c.gen + 1].gen = c.gen + 1
           /\ [c EXCEPT !.state = "running", !.gen = c.gen + 1].doc = c.doc
           /\ [c EXCEPT !.state = "running", !.gen = c.gen + 1].owned = c.owned
<1> DEFINE n == c.gen + 1
<1>1. n \in Nat
    BY DEF Coordinators
<1> HIDE DEF n
<1>2. /\ [c EXCEPT !.state = "running", !.gen = n] \in Coordinators
      /\ [c EXCEPT !.state = "running", !.gen = n].state = "running"
      /\ [c EXCEPT !.state = "running", !.gen = n].gen = n
      /\ [c EXCEPT !.state = "running", !.gen = n].doc = c.doc
      /\ [c EXCEPT !.state = "running", !.gen = n].owned = c.owned
    BY <1>1, Zenon DEF Coordinators
<1> QED BY <1>2 DEF n

(***************************************************************************)
(* Steps that only touch source bytes, the viewer or what waits.           *)
(***************************************************************************)
LEMMA QuietKeeps ==
    ASSUME IntakeInv, TypeOK',
           UNCHANGED <<co, open, handle, current, doc, report, attached, superseded>>,
           SourceBelongs', retained' = None \/ retained' = retained \/ Active # None
    PROVE  IntakeInv' /\ LifeStep
<1>1. NobodyStranded' /\ NoDocumentYet' /\ OwnedSoFar' /\ OfferHolds' /\ OneSource'
    BY DEF IntakeInv, NobodyStranded, NoDocumentYet, OwnedSoFar, OfferHolds, OneSource, IsOpen
<1>2. NothingShownYet'
    BY DEF IntakeInv, NothingShownYet, Active
<1>3. ShownIsSound'
    BY DEF IntakeInv, ShownIsSound, ShownIsLive, Live, IsOpen
<1>4. LifeStep
    BY DEF LifeStep, L!lifeVars
<1> QED BY <1>1, <1>2, <1>3, <1>4 DEF IntakeInv

\* Retaining the bytes of the shown document, or forgetting all bytes.
LEMMA RetainKeeps ==
    ASSUME IntakeInv, TypeOK',
           UNCHANGED <<co, open, handle, current, doc, report, attached, superseded>>,
           \/ Active # None /\ Retain(Active)
           \/ (attached => superseded) /\ ForgetSource
           \/ UNCHANGED <<retained, viewer>>
    PROVE  IntakeInv' /\ LifeStep
<1>1. SourceBelongs
    BY DEF IntakeInv, ShownIsSound
<1>2. viewer \in [handle : Shas, opening : Shas]
    BY DEF IntakeInv, NobodyStranded, TypeOK
<1>3. Active' = Active
    BY DEF Active
<1>4. CASE Active # None /\ Retain(Active)
  <2>1. retained' = Active /\ (viewer'.handle # None => viewer'.handle = retained')
      BY <1>2, <1>4 DEF Retain
  <2>2. SourceBelongs'
      BY <1>1, <1>3, <1>4, <2>1 DEF SourceBelongs, Active
  <2> QED BY <1>4, <2>2, QuietKeeps
<1>5. CASE (attached => superseded) /\ ForgetSource
  <2>1. retained' = None /\ viewer'.handle = None
      BY <1>2, <1>5 DEF ForgetSource
  <2>2. SourceBelongs'
      BY <1>5, <2>1 DEF SourceBelongs
  <2> QED BY <2>1, <2>2, QuietKeeps
<1>6. CASE UNCHANGED <<retained, viewer>>
  <2>1. SourceBelongs'
      BY <1>1, <1>3, <1>6 DEF SourceBelongs
  <2> QED BY <1>6, <2>1, QuietKeeps
<1> QED BY <1>4, <1>5, <1>6

LEMMA RetentionEndsKeeps ==
    ASSUME IntakeInv, NEW t \in retentions, RetentionEnds(t)
    PROVE  IntakeInv' /\ LifeStep
<1>1. /\ UNCHANGED <<co, open, handle, current, doc, report, attached, superseded>>
      /\ UNCHANGED <<reading, attaches, verifying, actions>>
      /\ retentions' \subseteq retentions
      /\ t.sha \in Pdfs
    BY DEF RetentionEnds, IntakeInv, NobodyStranded, TypeOK
<1>2. Live \/ superseded
    BY DEF IntakeInv, ShownIsSound, ShownIsLive
<1>3. CASE StillOwned(t) /\ Retain(t.sha)
  <2>1. doc = t.sha /\ doc # None /\ (superseded \/ Active = t.sha)
      BY <1>1, <1>2, <1>3, NoneAssumption DEF StillOwned, Live, Active
  <2>2. TypeOK'
      BY <1>1, <1>3 DEF IntakeInv, NobodyStranded, TypeOK, Retain, Shas
  <2>3. CASE Active = t.sha
      BY <1>1, <1>3, <2>1, <2>2, <2>3, RetainKeeps
  <2>4. CASE superseded
    <3>1. viewer'.handle # None => viewer'.handle = retained'
        BY <1>3 DEF Retain, IntakeInv, NobodyStranded, TypeOK
    <3>2. SourceBelongs'
        BY <1>1, <2>4, <3>1 DEF SourceBelongs
    <3>3. Active # None
        BY <2>1, <1>1, NoneAssumption DEF Active, IntakeInv, NobodyStranded, TypeOK, Shown
    <3> QED BY <1>1, <2>2, <3>2, <3>3, QuietKeeps
  <2> QED BY <2>1, <2>3, <2>4
<1>4. CASE StillOwned(t) /\ ForgetSource
  <2>1. attached => superseded
      BY <1>1, <1>4, NoneAssumption DEF StillOwned, IntakeInv, OneSource
  <2>2. TypeOK'
      BY <1>1, <1>4 DEF IntakeInv, NobodyStranded, TypeOK, ForgetSource, Shas
  <2> QED BY <1>1, <1>4, <2>1, <2>2, RetainKeeps
<1>5. CASE UNCHANGED <<retained, viewer>>
  <2>1. TypeOK'
      BY <1>1, <1>5 DEF IntakeInv, NobodyStranded, TypeOK
  <2> QED BY <1>1, <1>5, <2>1, RetainKeeps
<1> QED BY <1>3, <1>4, <1>5 DEF RetentionEnds

LEMMA VerifiedKeeps ==
    ASSUME IntakeInv, NEW t \in verifying, Verified(t)
    PROVE  IntakeInv' /\ LifeStep
<1>1. /\ UNCHANGED <<co, open, handle, current, doc, report, attached, superseded>>
      /\ UNCHANGED <<reading, attaches, retentions, actions>>
      /\ verifying' \subseteq verifying
      /\ t.sha \in Pdfs
    BY DEF Verified, IntakeInv, NobodyStranded, TypeOK
<1>2. CASE Active = t.sha /\ Retain(t.sha)
  <2>1. TypeOK'
      BY <1>1, <1>2 DEF IntakeInv, NobodyStranded, TypeOK, Retain, Shas
  <2> QED BY <1>1, <1>2, <2>1, RetainKeeps, NoneAssumption
<1>3. CASE UNCHANGED <<retained, viewer>>
  <2>1. TypeOK'
      BY <1>1, <1>3 DEF IntakeInv, NobodyStranded, TypeOK
  <2> QED BY <1>1, <1>3, <2>1, RetainKeeps
<1> QED BY <1>2, <1>3 DEF Verified

\* Reading a report, binding an attach, asking for a hash: nothing shown moves.
LEMMA WaitingKeeps ==
    ASSUME IntakeInv,
           \/ \E p \in Pdfs : AttachSource(p)
           \/ \E r \in Reports : OfferReport(r)
           \/ ImportRefused \/ Verify
    PROVE  IntakeInv' /\ LifeStep
<1>1. UNCHANGED <<co, open, handle, current, sessionVars, superseded, retentions>>
    BY DEF AttachSource, OfferReport, ImportRefused, Verify, taskVars
<1>2. /\ reading' \in Reports \cup {None} /\ actions' \in Nat
      /\ attaches' \subseteq [current : Imports, gen : Nat, file : Pdfs]
      /\ verifying' \subseteq [sha : Pdfs, gen : Nat]
  <2>1. TypeOK /\ co.gen \in Nat
      BY DEF IntakeInv, NobodyStranded, TypeOK, Coordinators
  <2>2. CASE \E p \in Pdfs : AttachSource(p)
      BY <2>1, <2>2 DEF AttachSource, TypeOK, UserActs
  <2>3. CASE \E r \in Reports : OfferReport(r)
      BY <2>1, <2>3 DEF OfferReport, TypeOK, UserActs, taskVars
  <2>4. CASE ImportRefused
      BY <2>1, <2>4 DEF ImportRefused, TypeOK, taskVars
  <2>5. CASE Verify
      BY <2>1, <2>5 DEF Verify, TypeOK, UserActs, Active, Shown, Shas
  <2> QED BY <2>2, <2>3, <2>4, <2>5
<1>3. TypeOK'
    BY <1>1, <1>2 DEF IntakeInv, NobodyStranded, TypeOK, sessionVars
<1> QED BY <1>1, <1>3, RetainKeeps DEF sessionVars

LEMMA ViewerKeepsBytes ==
    ASSUME IntakeInv, ViewerOpens \/ ViewerOpened
    PROVE  IntakeInv' /\ LifeStep
<1>1. /\ UNCHANGED <<co, open, handle, current, doc, report, attached, superseded>>
      /\ UNCHANGED <<reading, retained, taskVars, actions>>
    BY DEF ViewerOpens, ViewerOpened
<1>2. viewer \in [handle : Shas, opening : Shas] /\ retained \in Shas
    BY DEF IntakeInv, NobodyStranded, TypeOK
<1>3. /\ viewer' \in [handle : Shas, opening : Shas]
      /\ viewer'.handle = viewer.handle \/ viewer'.handle = retained
  <2>1. CASE ViewerOpens
      BY <1>2, <2>1 DEF ViewerOpens
  <2>2. CASE ViewerOpened
      BY <1>2, <2>2 DEF ViewerOpened, ViewerKeeps, Shas
  <2> QED BY <2>1, <2>2
<1>4. TypeOK'
    BY <1>1, <1>3 DEF IntakeInv, NobodyStranded, TypeOK, taskVars
<1>5. SourceBelongs'
  <2>1. SourceBelongs /\ Active' = Active
      BY <1>1 DEF IntakeInv, ShownIsSound, Active
  <2> QED BY <1>1, <1>3, <2>1 DEF SourceBelongs
<1> QED BY <1>1, <1>4, <1>5, QuietKeeps

(***************************************************************************)
(* An offer and its awaits.                                                *)
(***************************************************************************)
\* Nothing but the offer, the coordinator and the handle moves.
LEMMA Whole ==
    IntakeInv =>
        /\ co \in Coordinators /\ handle \in Handles \cup {None}
        /\ co.gen \in Nat /\ co.owned \subseteq Owned /\ co.doc \in Shas
        /\ co.state \in {"idle", "validating_file", "loading_metadata", "selecting",
                         "running", "complete"}
BY DEF IntakeInv, NobodyStranded, TypeOK, Coordinators

\* The coordinator is cleared and nothing but a superseded import stays shown.
LEMMA ClearedKeeps ==
    ASSUME IntakeInv, TypeOK', NEW state \in {"idle", "validating_file"},
           co' = Cleared(co, state),
           current' = None, doc' = None,
           state = "validating_file" => open'.at = "validate",
           open'.at = "off" \/ open'.file \in Pdfs,
           \/ report' = None /\ attached' = FALSE /\ retained' = None
           \/ superseded' /\ UNCHANGED <<report, attached, retained>>,
           viewer'.handle # None => viewer'.handle = retained'
    PROVE  IntakeInv' /\ LifeStep
<1>1. /\ co'.state = state /\ co'.gen = co.gen + 1 /\ co'.doc = None /\ co'.owned = {}
      /\ co.gen \in Nat
    BY Whole, ClearCall
<1>2. NobodyStranded'
    BY <1>1 DEF NobodyStranded
<1>3. ShownIsSound'
    BY DEF ShownIsSound, ShownIsLive, Live, SourceBelongs, IsOpen
<1>4. NoDocumentYet' /\ OwnedSoFar'
    BY <1>1 DEF NoDocumentYet, OwnedSoFar
<1>5. OfferHolds'
    BY <1>1 DEF OfferHolds
<1>6. NothingShownYet'
    BY <1>1 DEF NothingShownYet
<1>7. OneSource'
    BY <1>1 DEF OneSource, IntakeInv
<1>8. LifeStep
  <2>1. L!Retire
      BY <1>1 DEF L!Retire, L!Rank
  <2> QED BY <2>1 DEF LifeStep
<1> QED BY <1>2, <1>3, <1>4, <1>5, <1>6, <1>7, <1>8 DEF IntakeInv

LEMMA OfferPdfKeeps ==
    ASSUME IntakeInv, NEW p \in Pdfs, OfferPdf(p)
    PROVE  IntakeInv' /\ LifeStep
<1>1. /\ open' = [at |-> "validate", file |-> p] /\ open.at = "off"
      /\ UNCHANGED <<reading, taskVars>> /\ actions' = actions + 1
    BY DEF OfferPdf, UserActs
<1>2. open' \in [at : {"off", "validate", "read", "adapter", "pages"}, file : Shas]
    BY <1>1 DEF Shas
<1>3. CASE co.state = "idle"
  <2>1. /\ co' = [co EXCEPT !.state = "validating_file"]
        /\ UNCHANGED <<handle, current, sessionVars, superseded>>
      BY <1>3 DEF OfferPdf
  <2>2. /\ co' \in Coordinators
        /\ co'.state = "validating_file" /\ co'.gen = co.gen /\ co'.doc = co.doc
        /\ co'.owned = co.owned
      BY <2>1, Whole, MoveCall
  <2>3. TypeOK'
      BY <1>1, <1>2, <2>1, <2>2 DEF IntakeInv, NobodyStranded, TypeOK, taskVars, sessionVars
  <2>4. NobodyStranded'
      BY <1>1, <2>2, <2>3 DEF NobodyStranded
  <2>5. doc = None /\ co.doc = None /\ current = None
      BY <1>3 DEF IntakeInv, NothingShownYet, NoDocumentYet, Early, OneSource
  <2>6. ShownIsSound'
    <3>1. superseded \/ (report = None /\ retained = None /\ ~attached)
        BY <1>3 DEF IntakeInv, NothingShownYet
    <3>2. ShownIsLive'
        BY <2>1, <2>5, <3>1 DEF ShownIsLive, Live, sessionVars
    <3>3. SourceBelongs'
        BY <2>1, <3>1 DEF IntakeInv, ShownIsSound, SourceBelongs, sessionVars
    <3> QED BY <3>2, <3>3 DEF ShownIsSound
  <2>7. NoDocumentYet' /\ OwnedSoFar'
      BY <2>2, <2>5 DEF IntakeInv, NoDocumentYet, OwnedSoFar
  <2>8. OfferHolds'
      BY <1>1, <2>2 DEF OfferHolds
  <2>9. NothingShownYet' /\ OneSource'
      BY <1>3, <2>1, <2>2, <2>5 DEF IntakeInv, NothingShownYet, OneSource, sessionVars
  <2>10. LifeStep
    <3>1. L!Advance
        BY <1>3, <2>2, <2>5 DEF L!Advance, L!Rank
    <3> QED BY <3>1 DEF LifeStep
  <2> QED BY <2>4, <2>6, <2>7, <2>8, <2>9, <2>10 DEF IntakeInv
<1>4. CASE co.state # "idle"
  <2>1. /\ co' = Cleared(co, "validating_file")
        /\ handle' = None /\ current' = None /\ doc' = None
        /\ report' = None /\ attached' = FALSE /\ retained' = None
        /\ superseded' = FALSE
      BY <1>4 DEF OfferPdf, ForgetShown, ForgetSource
  <2>2. viewer' \in [handle : Shas, opening : Shas] /\ viewer'.handle = None
      BY <1>4 DEF OfferPdf, ForgetShown, ForgetSource, IntakeInv, NobodyStranded, TypeOK, Shas
  <2>3. co' \in Coordinators
      BY <2>1, Whole, ClearCall
  <2>4. TypeOK'
    <3>1. /\ attaches' \subseteq [current : Imports, gen : Nat, file : Pdfs]
          /\ retentions' \subseteq [handle : Handles, sha : Pdfs]
          /\ verifying' \subseteq [sha : Pdfs, gen : Nat]
          /\ reading' \in Reports \cup {None} /\ actions' \in Nat
        BY <1>1 DEF IntakeInv, NobodyStranded, TypeOK, taskVars
    <3>2. /\ handle' \in Handles \cup {None} /\ current' \in Imports \cup {None}
          /\ doc' \in Shas /\ retained' \in Shas /\ report' \in Shown \cup {None}
          /\ attached' \in BOOLEAN /\ superseded' \in BOOLEAN
        BY <2>1 DEF Shas
    <3> QED BY <1>2, <2>2, <2>3, <3>1, <3>2 DEF TypeOK
  <2> QED BY <1>1, <2>1, <2>2, <2>4, ClearedKeeps
<1> QED BY <1>3, <1>4

LEMMA OpenFailsKeeps ==
    ASSUME IntakeInv, OpenFails
    PROVE  IntakeInv' /\ LifeStep
<1>1. /\ open.at # "off" /\ open' = NoOpen /\ handle' = None
      /\ co' = Cleared(co, "idle") /\ current' = None
      /\ UNCHANGED <<reading, sessionVars, taskVars, superseded, actions>>
    BY DEF OpenFails, Fail
<1>2. /\ doc = None
      /\ superseded \/ (report = None /\ retained = None /\ ~attached)
    BY <1>1 DEF IntakeInv, NothingShownYet
<1>3. co' \in Coordinators
    BY <1>1, Whole, ClearCall
<1>4. open'.at = "off" /\ open' \in [at : {"off", "validate", "read", "adapter", "pages"}, file : Shas]
    BY <1>1 DEF NoOpen, Shas
<1>5. TypeOK'
    BY <1>1, <1>3, <1>4 DEF IntakeInv, NobodyStranded, TypeOK, taskVars, sessionVars
<1>6. attached \in BOOLEAN /\ (viewer'.handle # None => viewer'.handle = retained')
    BY <1>1 DEF IntakeInv, NobodyStranded, TypeOK, ShownIsSound, SourceBelongs, sessionVars
<1> QED BY <1>1, <1>2, <1>4, <1>5, <1>6, ClearedKeeps DEF sessionVars

\* The steps of an offer that neither show nor drop anything.
LEMMA OfferMoves ==
    ASSUME IntakeInv, TypeOK',
           UNCHANGED <<current, doc, report, attached, retained, viewer, superseded>>,
           open.at # "off", open'.at # "off", open'.file = open.file,
           co'.gen = co.gen, co'.doc = co.doc, co.owned \subseteq co'.owned,
           \A o \in co'.owned : o.gen <= co.gen,
           \/ co'.state = co.state
           \/ co.state = "validating_file" /\ co'.state = "loading_metadata",
           co'.state = "validating_file" => open'.at = "validate",
           co'.state = "loading_metadata" => open'.at \in {"read", "adapter", "pages"},
           co'.state = "loading_metadata" /\ open'.at = "pages" =>
                handle' # None /\ handle' \in co'.owned /\ handle'.sha = open.file
    PROVE  IntakeInv' /\ LifeStep
<1>1. NobodyStranded'
    BY DEF NobodyStranded
<1>2. doc = None
    BY DEF IntakeInv, NothingShownYet
<1>3. ShownIsSound'
  <2>1. ShownIsLive'
      BY <1>2 DEF IntakeInv, ShownIsSound, ShownIsLive, Live
  <2>2. SourceBelongs'
      BY DEF IntakeInv, ShownIsSound, SourceBelongs, Active
  <2> QED BY <2>1, <2>2 DEF ShownIsSound
<1>4. NoDocumentYet' /\ OwnedSoFar'
    BY DEF IntakeInv, NoDocumentYet, OwnedSoFar, Early
<1>5. OfferHolds'
    BY DEF IntakeInv, OfferHolds, IsOpen
<1>6. NothingShownYet' /\ OneSource'
    BY DEF IntakeInv, NothingShownYet, OneSource
<1>7. LifeStep
  <2>1. co.state \in {"idle", "validating_file", "loading_metadata", "selecting"}
      BY <1>2, Whole DEF IntakeInv, OneSource
  <2>2. L!Advance
      BY <2>1 DEF L!Advance, L!Rank
  <2> QED BY <2>2 DEF LifeStep
<1> QED BY <1>1, <1>3, <1>4, <1>5, <1>6, <1>7 DEF IntakeInv

LEMMA AwaitsKeep ==
    ASSUME IntakeInv, Validated \/ BytesHashed \/ Opened
    PROVE  IntakeInv' /\ LifeStep
<1>1. /\ UNCHANGED <<current, reading, sessionVars, taskVars, superseded, actions>>
      /\ open \in [at : {"off", "validate", "read", "adapter", "pages"}, file : Shas]
      /\ open.at # "off" => open.file \in Pdfs
      /\ \A o \in co.owned : o.gen <= co.gen
    BY DEF Validated, BytesHashed, Opened, IntakeInv, NobodyStranded, TypeOK, OfferHolds,
           OwnedSoFar
<1>2. CASE Validated
  <2>1. /\ open.at = "validate" /\ co.state = "validating_file"
        /\ co' = [co EXCEPT !.state = "loading_metadata"]
        /\ open' = [open EXCEPT !.at = "read"] /\ handle' = handle
      BY <1>2 DEF Validated
  <2>2. /\ co' \in Coordinators
        /\ co'.state = "loading_metadata" /\ co'.gen = co.gen /\ co'.doc = co.doc
        /\ co'.owned = co.owned
      BY <2>1, Whole, MoveCall
  <2>3. TypeOK'
      BY <1>1, <2>1, <2>2 DEF IntakeInv, NobodyStranded, TypeOK, taskVars, sessionVars
  <2> QED BY <1>1, <2>1, <2>2, <2>3, OfferMoves DEF sessionVars
<1>3. CASE BytesHashed
  <2>1. /\ open.at = "read" /\ open' = [open EXCEPT !.at = "adapter"]
        /\ UNCHANGED <<co, handle>>
      BY <1>3 DEF BytesHashed
  <2>2. TypeOK'
      BY <1>1, <2>1 DEF IntakeInv, NobodyStranded, TypeOK, taskVars, sessionVars
  <2>3. co.state # "validating_file"
      BY <2>1 DEF IntakeInv, NobodyStranded
  <2> QED BY <1>1, <2>1, <2>2, <2>3, OfferMoves DEF sessionVars
<1>4. CASE Opened
  <2> DEFINE h == [kind |-> "handle", sha |-> open.file, gen |-> co.gen]
  <2>1. /\ open.at = "adapter" /\ open' = [open EXCEPT !.at = "pages"]
        /\ co' = Owning(co, "handle", open.file) /\ handle' = h
      BY <1>4 DEF Opened
  <2>2. /\ co' \in Coordinators
        /\ co'.state = co.state /\ co'.gen = co.gen /\ co'.doc = co.doc
        /\ co'.owned = co.owned \cup {h}
      BY <1>1, <2>1, Whole, OwnCall
  <2>3. h \in Handles /\ h.gen = co.gen /\ h.sha = open.file /\ h # None /\ co.gen \in Nat
      BY <1>1, <2>1, Whole, NoneAssumption DEF Handles
  <2> HIDE DEF h
  <2>4. TypeOK'
      BY <1>1, <2>1, <2>2, <2>3 DEF IntakeInv, NobodyStranded, TypeOK, taskVars, sessionVars
  <2>5. co.state # "validating_file"
      BY <2>1 DEF IntakeInv, NobodyStranded
  <2>6. \A o \in co'.owned : o.gen <= co.gen
      BY <1>1, <2>2, <2>3
  <2> QED BY <1>1, <2>1, <2>2, <2>3, <2>4, <2>5, <2>6, OfferMoves DEF sessionVars
<1> QED BY <1>2, <1>3, <1>4

LEMMA PagesLoadedKeeps ==
    ASSUME IntakeInv, PagesLoaded
    PROVE  IntakeInv' /\ LifeStep
<1>1. /\ open.at = "pages" /\ co.state = "loading_metadata"
      /\ co' = Loaded(co, open.file) /\ open' = NoOpen /\ doc' = open.file
      /\ retentions' = retentions \cup {[handle |-> handle, sha |-> open.file]}
      /\ UNCHANGED <<handle, current, reading, report, attached, retained, viewer,
                     attaches, verifying, superseded, actions>>
    BY DEF PagesLoaded
<1>2. /\ open.file \in Pdfs /\ open.file # None
      /\ handle # None /\ handle \in co.owned /\ handle.sha = open.file
    BY <1>1, NoneAssumption DEF IntakeInv, OfferHolds, IsOpen
<1>3. /\ co' \in Coordinators
      /\ co'.state = "selecting" /\ co'.gen = co.gen /\ co'.doc = open.file
      /\ co'.owned = co.owned
    BY <1>1, <1>2, Whole, LoadCall
<1>4. /\ co.doc = None /\ doc = None /\ current = None
      /\ superseded \/ (report = None /\ retained = None /\ ~attached)
    BY <1>1 DEF IntakeInv, NoDocumentYet, Early, NothingShownYet, OneSource
<1>5. TypeOK'
  <2>1. open' \in [at : {"off", "validate", "read", "adapter", "pages"}, file : Shas]
      BY <1>1 DEF NoOpen, Shas
  <2>2. handle \in Handles
      BY <1>2, Whole
  <2> QED BY <1>1, <1>2, <1>3, <2>1, <2>2 DEF IntakeInv, NobodyStranded, TypeOK, Shas
<1>6. NobodyStranded'
    BY <1>3, <1>5 DEF NobodyStranded
<1>7. ShownIsSound'
  <2>1. ShownIsLive'
      BY <1>1, <1>2, <1>3, <1>4 DEF ShownIsLive, Live, IsOpen
  <2>2. SourceBelongs'
      BY <1>1, <1>4 DEF IntakeInv, ShownIsSound, SourceBelongs
  <2> QED BY <2>1, <2>2 DEF ShownIsSound
<1>8. NoDocumentYet' /\ OwnedSoFar' /\ OfferHolds'
    BY <1>1, <1>3 DEF IntakeInv, NoDocumentYet, OwnedSoFar, OfferHolds, Early, NoOpen
<1>9. NothingShownYet'
    BY <1>1, <1>3 DEF NothingShownYet, NoOpen
<1>10. OneSource'
    BY <1>1, <1>2, <1>3, <1>4 DEF IntakeInv, OneSource
<1>11. LifeStep
  <2>1. L!Advance
      BY <1>1, <1>3, <1>4 DEF L!Advance, L!Rank
  <2> QED BY <2>1 DEF LifeStep
<1> QED BY <1>6, <1>7, <1>8, <1>9, <1>10, <1>11 DEF IntakeInv

(***************************************************************************)
(* Importing a report and attaching its source.                            *)
(***************************************************************************)
\* What the coordinator is once a report is imported.
LEMMA ImportCall ==
    ASSUME IntakeInv, NEW sha \in Pdfs
    PROVE  LET new == Owning(Loaded(Replaced(co), sha), "report", sha) IN
           /\ new \in Coordinators
           /\ new.state = "selecting" /\ new.doc = sha
           /\ \A o \in new.owned : o.gen <= new.gen
           /\ \/ /\ co.state \in {"idle", "validating_file"}
                 /\ new.gen = co.gen /\ co.owned \subseteq new.owned
              \/ new.gen = co.gen + 1 /\ new.owned \cap co.owned = {}
<1> DEFINE c == Replaced(co)
           l == Loaded(c, sha)
           o1 == [kind |-> "report", sha |-> sha, gen |-> c.gen]
           new == Owning(l, "report", sha)
<1>1. \A o \in co.owned : o.gen <= co.gen
    BY DEF IntakeInv, OwnedSoFar
<1>2. /\ c \in Coordinators /\ c.gen \in Nat
      /\ \/ co.state \in {"idle", "validating_file"} /\ c = co
         \/ c.gen = co.gen + 1 /\ c.owned = {}
  <2>1. CASE co.state \in {"idle", "validating_file"}
      BY <2>1, Whole DEF Replaced
  <2>2. CASE co.state \notin {"idle", "validating_file"}
      BY <2>2, Whole, ClearCall DEF Replaced
  <2> QED BY <2>1, <2>2
<1> HIDE DEF c
<1>3. /\ l \in Coordinators /\ l.state = "selecting" /\ l.gen = c.gen /\ l.doc = sha
      /\ l.owned = c.owned
    BY <1>2, LoadCall
<1> HIDE DEF l
<1>4. /\ new \in Coordinators /\ new.state = "selecting" /\ new.gen = c.gen
      /\ new.doc = sha /\ new.owned = c.owned \cup {o1}
    BY <1>3, OwnCall
<1>5. o1.gen = c.gen
    OBVIOUS
<1> HIDE DEF o1, new
<1>6. \A o \in new.owned : o.gen <= new.gen
    BY <1>1, <1>2, <1>4, <1>5, Whole
<1>7. \/ /\ co.state \in {"idle", "validating_file"}
         /\ new.gen = co.gen /\ co.owned \subseteq new.owned
      \/ new.gen = co.gen + 1 /\ new.owned \cap co.owned = {}
  <2>1. CASE c.gen = co.gen + 1 /\ c.owned = {}
    <3>1. o1 \notin co.owned
        BY <1>1, <1>5, <2>1, Whole
    <3> QED BY <1>4, <2>1, <3>1
  <2>2. CASE co.state \in {"idle", "validating_file"} /\ c = co
      BY <1>4, <2>2
  <2> QED BY <1>2, <2>1, <2>2
<1> QED BY <1>4, <1>6, <1>7 DEF new, l, c

LEMMA ImportedKeeps ==
    ASSUME IntakeInv, Imported
    PROVE  IntakeInv' /\ LifeStep
<1> DEFINE sha == RecordedDoc[reading]
<1>1. /\ reading # None /\ reading' = None
      /\ co' = Owning(Loaded(Replaced(co), sha), "report", sha)
      /\ current' = [of |-> reading, gen |-> co'.gen, attached |-> FALSE]
      /\ report' = [from |-> "import", of |-> reading, sha |-> sha]
      /\ doc' = None /\ attached' = FALSE /\ retained' = None
      /\ superseded' = (open.at # "off")
      /\ UNCHANGED <<open, handle, taskVars, actions>>
    BY DEF Imported, ForgetSource
<1>2. reading \in Reports /\ sha \in Pdfs
    BY <1>1, ReportAssumption DEF IntakeInv, NobodyStranded, TypeOK
<1>3. viewer' \in [handle : Shas, opening : Shas] /\ viewer'.handle = None
    BY DEF Imported, ForgetSource, IntakeInv, NobodyStranded, TypeOK, Shas
<1> HIDE DEF sha
<1>4. /\ co' \in Coordinators
      /\ co'.state = "selecting" /\ co'.doc = sha
      /\ \A o \in co'.owned : o.gen <= co'.gen
      /\ \/ /\ co.state \in {"idle", "validating_file"}
            /\ co'.gen = co.gen /\ co.owned \subseteq co'.owned
         \/ co'.gen = co.gen + 1 /\ co'.owned \cap co.owned = {}
    BY <1>1, <1>2, ImportCall
<1>5. /\ current'.of = reading /\ current' \in Imports
      /\ report'.from = "import" /\ report'.of = reading /\ report'.sha = sha
      /\ report' \in Shown /\ report' # None /\ current' # None
  <2>1. co'.gen \in Nat
      BY <1>4 DEF Coordinators
  <2>2. current' \in Imports /\ report' \in Shown
      BY <1>1, <1>2, <2>1 DEF Imports, Shown
  <2> QED BY <1>1, <2>2, NoneAssumption
<1>6. TypeOK'
  <2>1. /\ attaches' \subseteq [current : Imports, gen : Nat, file : Pdfs]
        /\ retentions' \subseteq [handle : Handles, sha : Pdfs]
        /\ verifying' \subseteq [sha : Pdfs, gen : Nat]
        /\ open' \in [at : {"off", "validate", "read", "adapter", "pages"}, file : Shas]
        /\ handle' \in Handles \cup {None} /\ actions' \in Nat
      BY <1>1 DEF IntakeInv, NobodyStranded, TypeOK, taskVars
  <2>2. /\ doc' \in Shas /\ retained' \in Shas /\ attached' \in BOOLEAN
        /\ superseded' \in BOOLEAN /\ reading' \in Reports \cup {None}
      BY <1>1 DEF Shas
  <2> QED BY <1>3, <1>4, <1>5, <2>1, <2>2 DEF TypeOK
<1>7. NobodyStranded'
    BY <1>4, <1>6 DEF NobodyStranded
<1>8. ShownIsSound'
    BY <1>1, <1>3, <1>4, <1>5 DEF ShownIsSound, ShownIsLive, Live, SourceBelongs
<1>9. NoDocumentYet' /\ OwnedSoFar' /\ OfferHolds'
    BY <1>1, <1>4 DEF IntakeInv, NoDocumentYet, OwnedSoFar, OfferHolds, Early
<1>10. NothingShownYet'
    BY <1>1, <1>4 DEF NothingShownYet
<1>11. OneSource'
    BY <1>1, <1>2, <1>4, <1>5 DEF OneSource, sha
<1>12. LifeStep
  <2>1. CASE /\ co.state \in {"idle", "validating_file"}
             /\ co'.gen = co.gen /\ co.owned \subseteq co'.owned
    <3>1. co.doc = None
        BY <2>1 DEF IntakeInv, NoDocumentYet, Early
    <3>2. L!Advance
        BY <1>4, <2>1, <3>1 DEF L!Advance, L!Rank
    <3> QED BY <3>2 DEF LifeStep
  <2>2. CASE co'.gen = co.gen + 1 /\ co'.owned \cap co.owned = {}
    <3>1. L!Retire
        BY <1>4, <2>2, Whole DEF L!Retire, L!Rank
    <3> QED BY <3>1 DEF LifeStep
  <2> QED BY <1>4, <2>1, <2>2
<1> QED BY <1>7, <1>8, <1>9, <1>10, <1>11, <1>12 DEF IntakeInv

LEMMA AttachEndsKeeps ==
    ASSUME IntakeInv, NEW t \in attaches, AttachEnds(t)
    PROVE  IntakeInv' /\ LifeStep
<1>1. /\ attaches' \subseteq attaches
      /\ UNCHANGED <<open, handle, reading, doc, report, retentions, verifying,
                     superseded, actions>>
      /\ t \in [current : Imports, gen : Nat, file : Pdfs]
    BY DEF AttachEnds, IntakeInv, NobodyStranded, TypeOK
<1>2. CASE ~(StillBound(t) /\ t.file = RecordedDoc[t.current.of])
  <2>1. UNCHANGED <<co, current, attached, retained, viewer>>
      BY <1>2 DEF AttachEnds
  <2>2. TypeOK'
      BY <1>1, <2>1 DEF IntakeInv, NobodyStranded, TypeOK
  <2> QED BY <1>1, <2>1, <2>2, RetainKeeps
<1>3. CASE StillBound(t) /\ t.file = RecordedDoc[t.current.of]
  <2> DEFINE o1 == [kind |-> "bytes", sha |-> t.file, gen |-> co.gen]
  <2>1. /\ current = t.current /\ current \in Imports /\ current # None
        /\ co' = Owning(co, "bytes", t.file)
        /\ current' = [current EXCEPT !.attached = TRUE] /\ attached' = TRUE
        /\ report # None /\ report.of = t.current.of => Retain(t.file)
      BY <1>1, <1>3, NoneAssumption DEF AttachEnds, StillBound
  <2>2. /\ co.state = "selecting" /\ doc = None
        /\ report # None /\ report.from = "import" /\ report.of = current.of
        /\ report.sha = t.file
      BY <1>3, <2>1 DEF IntakeInv, OneSource
  <2>3. /\ co' \in Coordinators
        /\ co'.state = "selecting" /\ co'.gen = co.gen /\ co'.doc = co.doc
        /\ co'.owned = co.owned \cup {o1} /\ o1.gen = co.gen
      BY <1>1, <2>1, <2>2, Whole, OwnCall
  <2> HIDE DEF o1
  <2>4. current' \in Imports /\ current'.of = current.of /\ current' # None
    <3>1. current' \in Imports /\ current'.of = current.of
        BY <2>1 DEF Imports
    <3> QED BY <3>1, NoneAssumption
  <2>5. /\ retained' = t.file /\ viewer' \in [handle : Shas, opening : Shas]
        /\ viewer'.handle # None => viewer'.handle = retained'
      BY <2>1, <2>2 DEF Retain, IntakeInv, NobodyStranded, TypeOK, Shas
  <2>6. TypeOK'
    <3>1. /\ retained' \in Shas /\ attached' \in BOOLEAN
        BY <1>1, <2>1, <2>5 DEF Shas
    <3> QED BY <1>1, <2>3, <2>4, <2>5, <3>1 DEF IntakeInv, NobodyStranded, TypeOK
  <2>7. NobodyStranded'
      BY <2>3, <2>6 DEF NobodyStranded
  <2>8. ShownIsSound'
    <3>1. ShownIsLive'
        BY <1>1, <2>2, <2>3, <2>4 DEF IntakeInv, ShownIsSound, ShownIsLive, Live, IsOpen
    <3>2. SourceBelongs'
        BY <1>1, <2>2, <2>5 DEF SourceBelongs, Active
    <3> QED BY <3>1, <3>2 DEF ShownIsSound
  <2>9. NoDocumentYet' /\ OfferHolds'
      BY <1>1, <2>3 DEF NoDocumentYet, OfferHolds, Early, IntakeInv
  <2>10. OwnedSoFar'
      BY <2>3, Whole DEF IntakeInv, OwnedSoFar
  <2>11. NothingShownYet'
    <3>1. open.at = "off" \/ superseded
        BY <2>1 DEF IntakeInv, NothingShownYet
    <3> QED BY <1>1, <2>2, <2>3, <3>1 DEF NothingShownYet
  <2>12. OneSource'
      BY <1>1, <2>2, <2>3, <2>4 DEF IntakeInv, OneSource
  <2>13. LifeStep
    <3>1. L!Advance
        BY <2>2, <2>3 DEF L!Advance, L!Rank
    <3> QED BY <3>1 DEF LifeStep
  <2> QED BY <2>7, <2>8, <2>9, <2>10, <2>11, <2>12, <2>13 DEF IntakeInv
<1> QED BY <1>2, <1>3

(***************************************************************************)
(* Runs and closing.                                                       *)
(***************************************************************************)
LEMMA RunKeeps ==
    ASSUME IntakeInv, RunStarts \/ RunEnds \/ NewRun
    PROVE  IntakeInv' /\ LifeStep
<1>1. /\ UNCHANGED <<open, handle, reading, current, doc, attached, retained,
                     viewer, taskVars, superseded>>
      /\ actions' \in Nat
  <2>1. actions \in Nat
      BY DEF IntakeInv, NobodyStranded, TypeOK
  <2>2. CASE RunStarts
      BY <2>1, <2>2 DEF RunStarts, UserActs, sessionVars, taskVars
  <2>3. CASE RunEnds
      BY <2>1, <2>3 DEF RunEnds
  <2>4. CASE NewRun
      BY <2>1, <2>4 DEF NewRun, UserActs
  <2> QED BY <2>2, <2>3, <2>4
<1>2. doc # None /\ co.state \notin {"idle", "validating_file", "loading_metadata"}
    BY DEF RunStarts, RunEnds, NewRun, IntakeInv, OneSource
<1>3. open.at = "off" /\ current = None /\ doc \in Pdfs
    BY <1>2 DEF IntakeInv, NothingShownYet, OneSource, NobodyStranded, TypeOK, Shas
<1>4. /\ report' \in {report, None, [from |-> "run", of |-> None, sha |-> doc]}
      /\ \/ /\ RunStarts /\ co.state = "selecting"
            /\ co' = [co EXCEPT !.state = "running", !.gen = @ + 1]
         \/ RunEnds /\ co.state = "running" /\ co' = [co EXCEPT !.state = "complete"]
         \/ NewRun /\ co.state = "complete" /\ co' = [co EXCEPT !.state = "selecting"]
  <2>1. CASE RunStarts
      BY <2>1 DEF RunStarts, sessionVars
  <2>2. CASE RunEnds
      BY <2>2 DEF RunEnds
  <2>3. CASE NewRun
      BY <2>3 DEF NewRun
  <2> QED BY <2>1, <2>2, <2>3
<1>5. /\ co' \in Coordinators
      /\ co'.doc = co.doc /\ co'.owned = co.owned
      /\ co'.gen \in {co.gen, co.gen + 1}
      /\ <<co.state, co'.state>> \in
            {<<"selecting", "running">>, <<"running", "complete">>, <<"complete", "selecting">>}
  <2>1. CASE RunStarts
    <3>1. co' = [co EXCEPT !.state = "running", !.gen = co.gen + 1] /\ co.state = "selecting"
        BY <2>1 DEF RunStarts
    <3> QED BY <3>1, Whole, RunCall
  <2>2. CASE RunEnds
      BY <1>4, <2>2, Whole, MoveCall DEF RunEnds
  <2>3. CASE NewRun
      BY <1>4, <2>3, Whole, MoveCall DEF NewRun
  <2> QED BY <1>4, <2>1, <2>2, <2>3
<1>6. co'.state \notin {"idle", "validating_file", "loading_metadata"}
    BY <1>5
<1>7. report' \in Shown \cup {None}
    BY <1>3, <1>4 DEF Shown, IntakeInv, NobodyStranded, TypeOK
<1>8. report' # None =>
        \/ report' = report
        \/ report'.from = "run" /\ report'.sha = doc
    BY <1>4
<1>9. TypeOK'
    BY <1>1, <1>5, <1>7 DEF IntakeInv, NobodyStranded, TypeOK, taskVars
<1>10. NobodyStranded'
    BY <1>6, <1>9 DEF NobodyStranded
<1>11. superseded \/ Live
    BY DEF IntakeInv, ShownIsSound, ShownIsLive
<1>12. ShownIsSound'
  <2>1. ShownIsLive'
      BY <1>1, <1>2, <1>5, <1>8, <1>11 DEF ShownIsLive, Live, IsOpen
  <2>2. superseded \/ Active = doc
      BY <1>2, <1>11 DEF Live, Active
  <2>3. superseded \/ Active' = doc
      BY <1>1, <1>2, <1>8, <1>11 DEF Active, Live
  <2>4. attached => superseded
      BY <1>2 DEF IntakeInv, OneSource
  <2>5. SourceBelongs'
      BY <1>1, <2>2, <2>3, <2>4 DEF IntakeInv, ShownIsSound, SourceBelongs
  <2> QED BY <2>1, <2>5 DEF ShownIsSound
<1>13. NoDocumentYet' /\ OwnedSoFar' /\ OfferHolds'
  <2>1. NoDocumentYet'
      BY <1>6 DEF NoDocumentYet, Early
  <2>2. OwnedSoFar'
    <3>1. co.gen \in Nat /\ \A o \in co.owned : o.gen \in Nat /\ o.gen <= co.gen
        BY Whole DEF Coordinators, Owned, IntakeInv, OwnedSoFar
    <3> QED BY <1>5, <3>1 DEF OwnedSoFar
  <2>3. OfferHolds'
      BY <1>1, <1>3, <1>6 DEF OfferHolds
  <2> QED BY <2>1, <2>2, <2>3
<1>14. NothingShownYet' /\ OneSource'
    BY <1>1, <1>2, <1>3, <1>6, <1>8 DEF IntakeInv, NothingShownYet, OneSource
<1>15. LifeStep
  <2>1. L!Work
      BY <1>5 DEF L!Work, L!RunMoves, L!Ended
  <2> QED BY <2>1 DEF LifeStep
<1> QED BY <1>10, <1>12, <1>13, <1>14, <1>15 DEF IntakeInv

LEMMA CloseKeeps ==
    ASSUME IntakeInv, Close
    PROVE  IntakeInv' /\ LifeStep
<1>1. /\ doc' = None /\ report' = None /\ attached' = FALSE /\ retained' = None
      /\ superseded' = FALSE /\ UNCHANGED <<open, reading, taskVars>> /\ actions' \in Nat
      /\ IF co.state = "idle"
         THEN UNCHANGED <<co, handle, current>>
         ELSE co' = Cleared(co, "idle") /\ handle' = None /\ current' = None
    BY DEF Close, ForgetShown, ForgetSource, UserActs, IntakeInv, NobodyStranded, TypeOK
<1>2. viewer' \in [handle : Shas, opening : Shas] /\ viewer'.handle = None
    BY DEF Close, ForgetShown, ForgetSource, IntakeInv, NobodyStranded, TypeOK, Shas
<1>3. /\ current' = None /\ co' \in Coordinators
      /\ handle' \in Handles \cup {None}
  <2>1. CASE co.state = "idle"
      BY <1>1, <2>1, Whole DEF IntakeInv, OneSource
  <2>2. CASE co.state # "idle"
      BY <1>1, <2>2, Whole, ClearCall
  <2> QED BY <2>1, <2>2
<1>4. TypeOK'
  <2>1. /\ attaches' \subseteq [current : Imports, gen : Nat, file : Pdfs]
        /\ retentions' \subseteq [handle : Handles, sha : Pdfs]
        /\ verifying' \subseteq [sha : Pdfs, gen : Nat]
        /\ open' \in [at : {"off", "validate", "read", "adapter", "pages"}, file : Shas]
        /\ reading' \in Reports \cup {None}
      BY <1>1 DEF IntakeInv, NobodyStranded, TypeOK, taskVars
  <2>2. /\ doc' \in Shas /\ retained' \in Shas /\ attached' \in BOOLEAN
        /\ superseded' \in BOOLEAN /\ report' \in Shown \cup {None}
      BY <1>1 DEF Shas
  <2> QED BY <1>1, <1>2, <1>3, <2>1, <2>2 DEF TypeOK
<1>5. CASE co.state # "idle"
  <2>1. open'.at = "off" \/ open'.file \in Pdfs
      BY <1>1 DEF IntakeInv, OfferHolds
  <2> QED BY <1>1, <1>2, <1>3, <1>4, <1>5, <2>1, ClearedKeeps
<1>6. CASE co.state = "idle"
  <2>1. UNCHANGED <<co, open, handle>>
      BY <1>1, <1>6
  <2>2. NobodyStranded'
      BY <1>4, <1>6, <2>1 DEF IntakeInv, NobodyStranded
  <2>3. ShownIsSound'
      BY <1>1, <1>2 DEF ShownIsSound, ShownIsLive, Live, SourceBelongs
  <2>4. NoDocumentYet' /\ OwnedSoFar' /\ OfferHolds'
      BY <1>6, <2>1 DEF IntakeInv, NoDocumentYet, OwnedSoFar, OfferHolds
  <2>5. NothingShownYet' /\ OneSource'
      BY <1>1, <1>3, <1>6, <2>1 DEF NothingShownYet, OneSource
  <2>6. LifeStep
      BY <2>1 DEF LifeStep, L!lifeVars
  <2> QED BY <2>2, <2>3, <2>4, <2>5, <2>6 DEF IntakeInv
<1> QED BY <1>5, <1>6

(***************************************************************************)
(* Initially, and step by step.                                            *)
(***************************************************************************)
LEMMA IntakeInit == Init => IntakeInv
<1> SUFFICES ASSUME Init PROVE IntakeInv
    OBVIOUS
<1>1. TypeOK
    BY DEF Init, TypeOK, NoOpen, NoViewer, Shas, Coordinators
<1>2. NobodyStranded
    BY <1>1 DEF Init, NobodyStranded
<1>3. ShownIsSound
    BY DEF Init, ShownIsSound, ShownIsLive, Live, SourceBelongs, NoViewer
<1>4. NoDocumentYet /\ OwnedSoFar /\ OfferHolds
    BY DEF Init, NoDocumentYet, OwnedSoFar, OfferHolds, NoOpen
<1>5. NothingShownYet /\ OneSource
    BY DEF Init, NothingShownYet, OneSource
<1> QED BY <1>2, <1>3, <1>4, <1>5 DEF IntakeInv

LEMMA IntakeNext == IntakeInv /\ [Next]_vars => IntakeInv' /\ LifeStep
<1> SUFFICES ASSUME IntakeInv, [Next]_vars PROVE IntakeInv' /\ LifeStep
    OBVIOUS
<1>1. CASE \E p \in Pdfs : OfferPdf(p)
    BY <1>1, OfferPdfKeeps
<1>2. CASE \/ \E p \in Pdfs : AttachSource(p)
           \/ \E r \in Reports : OfferReport(r)
           \/ ImportRefused \/ Verify
    BY <1>2, WaitingKeeps
<1>3. CASE OpenStep
    BY <1>3, AwaitsKeep, PagesLoadedKeeps, OpenFailsKeeps DEF OpenStep
<1>4. CASE \E t \in retentions : RetentionEnds(t)
    BY <1>4, RetentionEndsKeeps
<1>5. CASE Imported
    BY <1>5, ImportedKeeps
<1>6. CASE \E t \in attaches : AttachEnds(t)
    BY <1>6, AttachEndsKeeps
<1>7. CASE \E t \in verifying : Verified(t)
    BY <1>7, VerifiedKeeps
<1>8. CASE RunStarts \/ RunEnds \/ NewRun
    BY <1>8, RunKeeps
<1>9. CASE Close
    BY <1>9, CloseKeeps
<1>10. CASE ViewerOpens \/ ViewerOpened
    BY <1>10, ViewerKeepsBytes
<1>11. CASE UNCHANGED vars
  <2>1. TypeOK'
      BY <1>11 DEF IntakeInv, NobodyStranded, TypeOK, vars, sessionVars, taskVars
  <2> QED BY <1>11, <2>1, RetainKeeps DEF vars, sessionVars
<1> QED BY <1>1, <1>2, <1>3, <1>4, <1>5, <1>6, <1>7, <1>8, <1>9, <1>10, <1>11 DEF Next

\* The invariant holds in every reachable state.
THEOREM IntakeInvariance == Spec => []IntakeInv
<1>1. IntakeInv /\ [Next]_vars => IntakeInv'
    BY IntakeNext
<1> QED BY <1>1, IntakeInit, PTL DEF Spec

(***************************************************************************)
(* Unless an import overtook an open in flight, the document or report on  *)
(* screen is the one the coordinator and its controller hold; the source   *)
(* bytes are those of what is shown, the viewer's handle those of the      *)
(* bytes: whichever reads, hashes and opens of earlier files come back.    *)
(***************************************************************************)
THEOREM ShownStaysSound == Spec => []ShownIsSound
<1>1. IntakeInv => ShownIsSound
    BY DEF IntakeInv
<1> QED BY <1>1, IntakeInvariance, PTL

(***************************************************************************)
(* The types, and: a file lifecycle that waits has an offer in flight to   *)
(* take it on; an idle one without an offer owns nothing.                  *)
(***************************************************************************)
THEOREM OffersStrandNobody == Spec => []NobodyStranded
<1>1. IntakeInv => NobodyStranded
    BY DEF IntakeInv
<1> QED BY <1>1, IntakeInvariance, PTL

(***************************************************************************)
(* Both controllers together, acting across each other's awaits, implement *)
(* RunLifecycle: a document and what its file owns go only with their      *)
(* generation.                                                             *)
(***************************************************************************)
THEOREM IntakeKeepsGenerations == Spec => GenerationFirst
<1>1. Init => L!LifeInit
    BY DEF Init, L!LifeInit
<1>2. IntakeInv /\ [Next]_vars => [L!Advance \/ L!Hold \/ L!Work \/ L!Retire]_(L!lifeVars)
    BY IntakeNext DEF LifeStep
<1> QED BY <1>1, <1>2, IntakeInvariance, PTL DEF Spec, GenerationFirst, L!LifeSpec
=============================================================================
