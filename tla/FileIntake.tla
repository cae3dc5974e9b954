---------------------------- MODULE FileIntake ----------------------------
(***************************************************************************)
(* How files enter the workspace: the open controller (open/controller.ts),*)
(* the import controller (import/controller.ts) and the part of the        *)
(* inspection session (session.ts) that shows a document or a report and   *)
(* keeps verified source bytes, over one coordinator.                      *)
(*                                                                         *)
(* Each controller has a busy flag of its own and none for the other, and  *)
(* code runs to completion between two awaits, so one action is one        *)
(* stretch between awaits.  Whoever resumes acts on the coordinator as it  *)
(* has become.  A refused offer or a rejection only sets an error message  *)
(* and is a stuttering step unless it also clears.                         *)
(***************************************************************************)
EXTENDS Naturals

CONSTANTS
    Pdfs,           \* digests of the PDF files a user may choose
    Reports,        \* the report files
    RecordedDoc,    \* digest of the document each report is about
    None,
    MaxActions      \* bound of the model on user actions

\* What the controllers hold: owned resources, document handles, open imports
\* and shown reports.
Owned == [kind : {"handle", "report", "bytes"}, sha : Pdfs, gen : Nat]
Handles == [kind : {"handle"}, sha : Pdfs, gen : Nat]
Imports == [of : Reports, gen : Nat, attached : BOOLEAN]
Shown == [from : {"import", "run"}, of : Reports \cup {None}, sha : Pdfs]
Shas == Pdfs \cup {None}

ASSUME ReportAssumption == RecordedDoc \in [Reports -> Pdfs]

\* null is no digest, no file and no object.
ASSUME NoneAssumption ==
    /\ None \notin Pdfs \cup Reports
    /\ None \notin Handles /\ None \notin Imports /\ None \notin Shown

VARIABLES
    co,         \* the coordinator: state, gen, doc, owned
    open,       \* the open controller's offer in flight, and where it waits
    handle,     \* OpenController.handle
    reading,    \* the report the import controller is reading, or None
    current,    \* ImportController.current
    attaches,   \* offerSource calls waiting for their bytes
    doc,        \* session.doc (its digest)
    report,     \* session.report
    attached,   \* session.sourceAttached
    retained,   \* session.sourceBytes: the digest they were verified against
    retentions, \* post-open reads of the source bytes
    verifying,  \* retainVerifiedSourceBytes calls waiting for their hash
    viewer,     \* session.viewerDocHandle and viewerDocPromise (their digests)
    superseded, \* (observer) what is shown was imported over an open in flight
    actions     \* user actions so far

sessionVars == <<doc, report, attached, retained, viewer>>
taskVars == <<attaches, retentions, verifying>>
vars == <<co, open, handle, reading, current, sessionVars, taskVars,
          superseded, actions>>

NoOpen == [at |-> "off", file |-> None]

NoViewer == [handle |-> None, opening |-> None]

Init ==
    /\ co = [state |-> "idle", gen |-> 0, doc |-> None, owned |-> {}]
    /\ open = NoOpen /\ handle = None /\ reading = None /\ current = None
    /\ attaches = {} /\ retentions = {} /\ verifying = {}
    /\ doc = None /\ report = None /\ attached = FALSE
    /\ retained = None /\ viewer = NoViewer
    /\ superseded = FALSE /\ actions = 0

\* Something only the user does, and does finitely often.
UserActs == actions < MaxActions /\ actions' = actions + 1

(***************************************************************************)
(* The coordinator's file calls.  Clearing runs every teardown: owned      *)
(* handles are closed, and the import controller forgets its report.       *)
(***************************************************************************)

Loaded(c, sha) == [c EXCEPT !.state = "selecting", !.doc = sha]

\* Mutant: a replacement keeps the generation.
ClearedInPlace(c, state) == [state |-> state, gen |-> c.gen, doc |-> None, owned |-> {}]

Cleared(c, state) == [state |-> state, gen |-> c.gen + 1, doc |-> None, owned |-> {}]

Owning(c, kind, sha) ==
    [c EXCEPT !.owned = @ \cup {[kind |-> kind, sha |-> sha, gen |-> c.gen]}]

(***************************************************************************)
(* What the session shows and retains.                                     *)
(***************************************************************************)

\* report?.document.sha256 ?? doc?.sha256
Active == IF report # None THEN report.sha ELSE doc

\* A live document handle: its teardown has not run.
IsOpen(h) == h # None /\ h \in co.owned

\* clearRetainedSource
ForgetSource == retained' = None /\ viewer' = [viewer EXCEPT !.handle = None]

\* retainImmutableSource
Retain(sha) ==
    /\ retained' = sha
    /\ viewer' = [viewer EXCEPT !.handle = IF @ = sha THEN @ ELSE None]

\* Mutant: a clear leaves the report on the screen.
ForgetAllButReport == UNCHANGED report /\ attached' = FALSE /\ ForgetSource

\* The 'clear' event of either controller.
ForgetShown == report' = None /\ attached' = FALSE /\ ForgetSource

(***************************************************************************)
(* Opening a PDF.                                                          *)
(***************************************************************************)

\* OpenController.offer up to its first await; while one is in flight the
\* next is refused.
OfferPdf(p) ==
    /\ open.at = "off" /\ UserActs
    /\ open' = [at |-> "validate", file |-> p]
    /\ IF co.state = "idle"
       THEN /\ co' = [co EXCEPT !.state = "validating_file"]
            /\ UNCHANGED <<handle, current, sessionVars, superseded>>
       ELSE /\ co' = Cleared(co, "validating_file")
            /\ handle' = None /\ current' = None /\ doc' = None
            /\ ForgetShown /\ superseded' = FALSE
    /\ UNCHANGED <<reading, taskVars>>

\* Mutant: a failed offer leaves the lifecycle where it was.
FailQuietly ==
    /\ open' = NoOpen /\ handle' = None
    /\ UNCHANGED <<co, current, reading, sessionVars, taskVars, superseded, actions>>

\* Mutant: busy is not reset on the way out.
FailStillBusy ==
    /\ open' = [open EXCEPT !.at = "done"] /\ handle' = None
    /\ co' = Cleared(co, "idle") /\ current' = None
    /\ UNCHANGED <<reading, sessionVars, taskVars, superseded, actions>>

\* A candidate that is invalid, unreadable or malformed, has too many pages,
\* or meets a coordinator in another state: the offer ends in requestClear,
\* whoever's workspace that now is.
Fail ==
    /\ open' = NoOpen /\ handle' = None
    /\ co' = Cleared(co, "idle") /\ current' = None
    /\ UNCHANGED <<reading, sessionVars, taskVars, superseded, actions>>

OpenFails == open.at \in {"validate", "read", "adapter", "pages"} /\ Fail

Validated ==
    /\ open.at = "validate"
    /\ co.state = "validating_file"
    /\ co' = [co EXCEPT !.state = "loading_metadata"]
    /\ open' = [open EXCEPT !.at = "read"]
    /\ UNCHANGED <<handle, current, reading, sessionVars, taskVars, superseded, actions>>

\* The bytes are read and hashed, and the adapter is asked to open them.
BytesHashed ==
    /\ open.at = "read"
    /\ open' = [open EXCEPT !.at = "adapter"]
    /\ UNCHANGED <<co, handle, current, reading, sessionVars, taskVars, superseded, actions>>

\* The adapter's handle is registered with the coordinator in any state.
Opened ==
    /\ open.at = "adapter"
    /\ co' = Owning(co, "handle", open.file)
    /\ handle' = [kind |-> "handle", sha |-> open.file, gen |-> co.gen]
    /\ open' = [open EXCEPT !.at = "pages"]
    /\ UNCHANGED <<current, reading, sessionVars, taskVars, superseded, actions>>

\* The page metadata is known and the document is shown; the session then
\* reads the file again to retain its bytes.
PagesLoaded ==
    /\ open.at = "pages"
    /\ co.state = "loading_metadata"
    /\ co' = Loaded(co, open.file)
    /\ open' = NoOpen
    /\ doc' = open.file
    /\ retentions' = retentions \cup {[handle |-> handle, sha |-> open.file]}
    /\ UNCHANGED <<handle, current, reading, report, attached, retained, viewer,
                   attaches, verifying, superseded, actions>>

\* Mutant: any read that finds a document of the same name is believed.
OwnedByAnyDocument(t) == doc # None

\* sourceRetentionOwned
StillOwned(t) == handle = t.handle /\ doc = t.sha

\* The second read ends: the bytes are retained, or, when they have changed
\* or cannot be read, what was retained is dropped.
RetentionEnds(t) ==
    /\ retentions' = retentions \ {t}
    /\ \/ StillOwned(t) /\ (Retain(t.sha) \/ ForgetSource)
       \/ ~StillOwned(t) /\ UNCHANGED <<retained, viewer>>
    /\ UNCHANGED <<co, open, handle, reading, current, doc, report, attached,
                   attaches, verifying, superseded, actions>>

(***************************************************************************)
(* Importing a report.                                                     *)
(***************************************************************************)

OfferReport(r) ==
    /\ reading = None /\ UserActs
    /\ reading' = r
    /\ UNCHANGED <<co, open, handle, current, sessionVars, taskVars, superseded>>

\* The file is not a report: nothing was replaced yet.
ImportRefused ==
    /\ reading # None
    /\ reading' = None
    /\ UNCHANGED <<co, open, handle, current, sessionVars, taskVars, superseded, actions>>

\* The coordinator an accepted import goes through validation with.
Replaced(c) ==
    IF c.state \in {"idle", "validating_file"} THEN c ELSE Cleared(c, "validating_file")

\* The bytes are a valid report; from here to the imported event nothing
\* intervenes.  The open controller is not told.  The catch around it is never
\* entered: openReport turns every throw into a refusal, the views are total on
\* what it accepts, and the lifecycle calls are made in the states they ask for.
Imported ==
    LET r == reading
        sha == RecordedDoc[r]
    IN  /\ reading # None
        /\ reading' = None
        /\ co' = Owning(Loaded(Replaced(co), sha), "report", sha)
        /\ current' = [of |-> r, gen |-> co'.gen, attached |-> FALSE]
        /\ report' = [from |-> "import", of |-> r, sha |-> sha]
        /\ doc' = None /\ attached' = FALSE /\ ForgetSource
        /\ superseded' = (open.at # "off")
        /\ UNCHANGED <<open, handle, taskVars, actions>>

\* attachSource and offerSource up to the read: the call is bound to the open
\* report and generation.
AttachSource(p) ==
    /\ reading = None /\ current # None /\ UserActs
    /\ attaches' = attaches \cup {[current |-> current, gen |-> co.gen, file |-> p]}
    /\ UNCHANGED <<co, open, handle, reading, current, sessionVars, retentions,
                   verifying, superseded>>

\* The report the read was started for is still the open one.
StillBound(t) == current = t.current /\ co.gen = t.gen

AttachEnds(t) ==
    /\ attaches' = attaches \ {t}
    /\ IF StillBound(t) /\ t.file = RecordedDoc[t.current.of]
       THEN /\ co' = Owning(co, "bytes", t.file)
            /\ current' = [current EXCEPT !.attached = TRUE]
            /\ attached' = TRUE
            /\ IF report # None /\ report.of = t.current.of
                  THEN Retain(t.file) ELSE UNCHANGED <<retained, viewer>>
       ELSE UNCHANGED <<co, current, attached, retained, viewer>>
    /\ UNCHANGED <<open, handle, reading, doc, report, retentions, verifying,
                   superseded, actions>>

\* retainVerifiedSourceBytes: a gallery example brings the bytes of the shown
\* document; they are hashed in the background.
Verify ==
    /\ Active # None /\ UserActs
    /\ verifying' = verifying \cup {[sha |-> Active, gen |-> co.gen]}
    /\ UNCHANGED <<co, open, handle, reading, current, sessionVars, attaches,
                   retentions, superseded>>

Verified(t) ==
    /\ verifying' = verifying \ {t}
    /\ IF co.gen = t.gen /\ Active = t.sha
       THEN Retain(t.sha) ELSE UNCHANGED <<retained, viewer>>
    /\ UNCHANGED <<co, open, handle, reading, current, doc, report, attached,
                   attaches, retentions, superseded, actions>>

(***************************************************************************)
(* Runs, closing, and painting.                                            *)
(***************************************************************************)

\* A run of the open document starts; its generation is a new one.
RunStarts ==
    /\ co.state = "selecting" /\ doc # None /\ UserActs
    /\ co' = [co EXCEPT !.state = "running", !.gen = @ + 1]
    /\ UNCHANGED <<open, handle, reading, current, sessionVars, taskVars, superseded>>

\* It ends, and its report, or none when the assembly refuses it, is shown
\* beside the document.
RunEnds ==
    /\ co.state = "running"
    /\ co' = [co EXCEPT !.state = "complete"]
    /\ report' \in {[from |-> "run", of |-> None, sha |-> doc], None}
    /\ UNCHANGED <<open, handle, reading, current, doc, attached, retained,
                   viewer, taskVars, superseded, actions>>

NewRun ==
    /\ co.state = "complete" /\ UserActs
    /\ co' = [co EXCEPT !.state = "selecting"]
    /\ report' = None
    /\ UNCHANGED <<open, handle, reading, current, doc, attached, retained,
                   viewer, taskVars, superseded>>

\* InspectionSession.close
Close ==
    /\ UserActs
    /\ doc' = None /\ ForgetShown /\ superseded' = FALSE
    /\ IF co.state = "idle"
       THEN UNCHANGED <<co, handle, current>>
       ELSE co' = Cleared(co, "idle") /\ handle' = None /\ current' = None
    /\ UNCHANGED <<open, reading, taskVars>>

\* sourcePdfBytes() is not null.
SourceUsable == retained # None /\ Active = retained

\* viewerSourceHandle has no live handle and opens one over the source bytes.
ViewerOpens ==
    /\ ~IsOpen(handle) /\ SourceUsable
    /\ viewer.handle # retained /\ viewer.opening = None
    /\ viewer' = [viewer EXCEPT !.opening = retained]
    /\ UNCHANGED <<co, open, handle, reading, current, doc, report, attached,
                   retained, taskVars, superseded, actions>>

ViewerKeeps == SourceUsable /\ retained = viewer.opening

\* The handle arrives; a handle of a source that is gone is closed again.
ViewerOpened ==
    /\ viewer.opening # None
    /\ \/ viewer' = [handle |-> IF ViewerKeeps THEN viewer.opening ELSE viewer.handle,
                     opening |-> None]
       \/ viewer' = [viewer EXCEPT !.opening = None]
    /\ UNCHANGED <<co, open, handle, reading, current, doc, report, attached,
                   retained, taskVars, superseded, actions>>

OpenStep == Validated \/ BytesHashed \/ Opened \/ PagesLoaded \/ OpenFails

Next ==
    \/ \E p \in Pdfs : OfferPdf(p) \/ AttachSource(p)
    \/ OpenStep
    \/ \E t \in retentions : RetentionEnds(t)
    \/ \E r \in Reports : OfferReport(r)
    \/ ImportRefused \/ Imported
    \/ \E t \in attaches : AttachEnds(t)
    \/ Verify
    \/ \E t \in verifying : Verified(t)
    \/ RunStarts \/ RunEnds \/ NewRun \/ Close
    \/ ViewerOpens \/ ViewerOpened

Spec == Init /\ [][Next]_vars

\* Reads, hashes and the adapter answer or fail (the adapter has a deadline).
FairSpec == Spec /\ WF_vars(OpenStep)

(***************************************************************************)
(* Properties.                                                             *)
(***************************************************************************)

Coordinators ==
    [state : {"idle", "validating_file", "loading_metadata", "selecting", "running",
              "complete"},
     gen : Nat, doc : Shas, owned : SUBSET Owned]

TypeOK ==
    /\ co \in Coordinators
    /\ open \in [at : {"off", "validate", "read", "adapter", "pages"}, file : Shas]
    /\ handle \in Handles \cup {None}
    /\ reading \in Reports \cup {None} /\ current \in Imports \cup {None}
    /\ attaches \subseteq [current : Imports, gen : Nat, file : Pdfs]
    /\ retentions \subseteq [handle : Handles, sha : Pdfs]
    /\ verifying \subseteq [sha : Pdfs, gen : Nat]
    /\ doc \in Shas /\ retained \in Shas
    /\ report \in Shown \cup {None}
    /\ viewer \in [handle : Shas, opening : Shas]
    /\ attached \in BOOLEAN /\ superseded \in BOOLEAN /\ actions \in Nat

\* I07: both controllers, and the session's runs, keep the generation-first
\* lifecycle, although one calls it across awaits in which the other acts.
L == INSTANCE RunLifecycle
     WITH NoDoc <- None, fileState <- co.state, generation <- co.gen,
          document <- co.doc, owned <- co.owned

GenerationFirst == L!LifeSpec

\* What is shown is what the coordinator and the controllers hold.
Live ==
    /\ doc # None => co.doc = doc /\ IsOpen(handle) /\ handle.sha = doc
    /\ report # None =>
        /\ co.doc = report.sha
        /\ report.from = "import" => current # None /\ current.of = report.of

\* I07: the only way what is shown can lose its footing is an import that
\* overtakes an open in flight.
ShownIsLive == superseded \/ Live

\* The same without the exception: import/controller.ts says of a replacement
\* that a stale event can never reach the reopened report.
StaleNeverReaches == Live

\* I01: source bytes belong to the document shown, and a handle the viewer
\* keeps to the bytes retained now, whatever reads, hashes and opens of earlier
\* documents are still under way; an attached source was verified against the
\* report that is shown.
SourceBelongs ==
    /\ superseded \/ (retained # None => retained = Active)
    /\ viewer.handle # None => viewer.handle = retained
    /\ attached /\ ~superseded => report # None /\ retained = report.sha

\* What the workspace shows, and the bytes it draws it from, are held and match.
ShownIsSound == ShownIsLive /\ SourceBelongs

\* The types, and: a lifecycle between idle and selecting has an offer in
\* flight that will take it on, an idle one owns nothing once none is.
NobodyStranded ==
    /\ TypeOK
    /\ co.state = "validating_file" => open.at = "validate"
    /\ co.state = "loading_metadata" => open.at \in {"read", "adapter", "pages"}
    /\ co.state = "idle" /\ open.at = "off" => co.owned = {}

\* An offer ends, so the next one is not refused for ever.
OfferEnds == open.at # "off" ~> open.at = "off"
=============================================================================
