------------------------- MODULE InspectionSession -------------------------
(***************************************************************************)
(* The inspection session of apps/web (features/inspect/session.ts) driving *)
(* the run coordinator: it plans and starts runs, prepares the OCR reader,  *)
(* executes the intents of the coordinator's outbox with real readers,      *)
(* feeds what they answer back as messages, and seals a report when a run   *)
(* settles.  The coordinator's own actions are those of RunCoordinator.     *)
(*                                                                          *)
(* The session is called back inside the coordinator's calls (notify), so   *)
(* what it does synchronously is split into steps that nothing else can     *)
(* interrupt: `call` names the call that is on the stack.  A notification   *)
(* pumps the outbox before the coordinator looks whether the run is over;   *)
(* here the pump follows the coordinator's step, which differs only when    *)
(* nothing was dispatched.                                                  *)
(***************************************************************************)
EXTENDS RunCoordinator

CONSTANTS
    TextPlan,       \* the checks of a run without OCR
    OcrPlan,        \* the checks of a run with OCR
    MaxStragglers   \* bound of the model: executions of earlier runs that may
                    \* still be under way when a run starts

ASSUME SessionAssumption ==
    /\ {TextPlan, OcrPlan} \subseteq Plans
    /\ \A c \in TextPlan : Capability[c] \in {"native_text", "alignment"}
    /\ \E c \in OcrPlan : Capability[c] = "ocr"
    /\ "completed" \in ReportedStatuses /\ "model_missing" \in Reasons
    /\ Resources = 1..MaxGeneration
    /\ MaxStragglers \in Nat

VARIABLES
    call,           \* "none", or the synchronous call under way
    aligning,       \* alignment jobs the pump has taken out and not executed
    runGeneration,  \* this.runGeneration
    executors,      \* the executeJob calls waiting for a reader
    jobSignals,     \* this.jobSignals: job -> generation of its controller
    preparing,      \* generations whose prepareOcrAssets awaits reader.open
    ocrReader,      \* generation this.ocrReader was opened for; 0 is null
    cancelPending,  \* this.cancelPending
    alignments,     \* this.alignments: check -> what it compared
    report,         \* this.report
    overlapped      \* (observer) executors of an earlier run saw this one start

coordinatorVars == vars
stackVars == <<call, aligning>>
workVars == <<executors, jobSignals>>
ocrVars == <<preparing, ocrReader, cancelPending>>
resultVars == <<alignments, report>>
sessionVars == <<stackVars, runGeneration, workVars, ocrVars, resultVars, overlapped>>
allVars == <<coordinatorVars, sessionVars>>

NoReport == [gen |-> 0, status |-> "none", results |-> Empty, evidence |-> Empty,
             aligned |-> Empty]

SessionInit ==
    /\ Init
    /\ call = "none" /\ aligning = {} /\ runGeneration = 0
    /\ executors = {} /\ jobSignals = Empty
    /\ preparing = {} /\ ocrReader = 0 /\ cancelPending = FALSE
    /\ alignments = Empty /\ report = NoReport /\ overlapped = FALSE

\* JavaScript is between two callbacks.
AtRest == call = "none"

Stale(gen) == generation # gen

Settled == {"complete", "partial", "failed"}

(***************************************************************************)
(* onCoordinatorChange: the first notification in a settled state seals the *)
(* report.  It is part of every step that may settle the run.               *)
(***************************************************************************)

\* this.report is null and this.error says that the report could not be assembled.
Refusal(gen) == [NoReport EXCEPT !.gen = gen, !.status = "refused"]

\* validateReport refuses a report whose occurrences cite a transform it lacks,
\* and a crop's transform is stored only when its OCR check has completed.
Uncropped(ledger) ==
    {c \in DOMAIN ledger : /\ Capability[c] = "ocr" /\ ledger[c].retained # <<>>
                           /\ ledger[c].status # "completed"}

\* assembleRunReport over the ledger the coordinator ends with.
Assembled(gen, status, ledger, compared) ==
    IF Uncropped(ledger) # {} THEN Refusal(gen)
    ELSE [gen |-> gen, status |-> status,
          results |-> [c \in DOMAIN ledger |-> ledger[c].status],
          evidence |-> [c \in DOMAIN ledger |-> ledger[c].retained],
          aligned |-> compared]

\* Mutant: a report is sealed at the first settled check.
NotifiedEarly ==
    report' = IF \E c \in DOMAIN checks' : checks'[c].phase = "terminal"
              THEN Assembled(generation', fileState', checks', alignments) ELSE report

\* Mutant: a partial run seals no report.
NotifiedUnlessPartial ==
    report' = IF fileState' \in Settled \ {"partial"} /\ fileState \notin Settled
              THEN Assembled(generation', fileState', checks', alignments) ELSE report

Notified ==
    report' = IF fileState' \in Settled /\ fileState \notin Settled
              THEN Assembled(generation', fileState', checks', alignments) ELSE report

\* A call that pumps returns at once when there is nothing to drain.
Pumping == IF outbox' \cup pendingIntents' = {} THEN "none" ELSE "pump"

(***************************************************************************)
(* Starting a run, preparing OCR.                                          *)
(***************************************************************************)

\* startRun up to and including coordinator.startRun.  Without OCR the
\* coordinator dispatches, and notifies, before runGeneration is assigned.
BeginRun(p, withOcr) ==
    /\ AtRest /\ Cardinality(executors) <= MaxStragglers
    /\ StartRun(p, DeriveDependencies(p), TRUE, withOcr)
    /\ alignments' = Empty /\ ocrReader' = 0 /\ cancelPending' = FALSE
    /\ overlapped' = (executors # {})
    /\ IF withOcr
       THEN /\ call' = Pumping /\ runGeneration' = generation'
            /\ preparing' = preparing \cup {generation'}
       ELSE call' = "start" /\ UNCHANGED <<runGeneration, preparing>>
    /\ UNCHANGED <<aligning, workVars, report>>

\* Mutant: the generation is not looked at again after reader.open.
GoesOn(g) == fileState = "preparing_assets"

\* prepareOcrAssets finds its run still current.
StillCurrent(g) == ~Stale(g)

\* reader.open answers for a run that is no longer current: it is closed again.
PreparedTooLate(g) ==
    /\ AtRest /\ g \in preparing /\ ~StillCurrent(g)
    /\ preparing' = preparing \ {g}
    /\ UNCHANGED <<coordinatorVars, stackVars, runGeneration, workVars, ocrReader,
                   cancelPending, resultVars, overlapped>>

\* It answers in time: the run owns the reader.
Prepared(g) ==
    /\ AtRest /\ g \in preparing /\ StillCurrent(g)
    /\ OwnRunResource(g)
    /\ preparing' = preparing \ {g} /\ ocrReader' = g
    /\ call' = "release"
    /\ UNCHANGED <<aligning, runGeneration, workVars, cancelPending, resultVars,
                   overlapped>>

\* The model or its worker could not be prepared.
NotPrepared(g) ==
    /\ AtRest /\ g \in preparing /\ StillCurrent(g)
    /\ preparing' = preparing \ {g} /\ ocrReader' = 0
    /\ call' = "release"
    /\ UNCHANGED <<coordinatorVars, aligning, runGeneration, workVars,
                   cancelPending, resultVars, overlapped>>

\* Mutant: the wish to cancel is forgotten when the assets are ready.
ReleaseForgetting ==
    /\ call = "release"
    /\ AssetsReady
    /\ call' = "released" /\ cancelPending' = FALSE
    /\ UNCHANGED <<aligning, runGeneration, workVars, preparing, ocrReader,
                   resultVars, overlapped>>

\* assetsReady: the coordinator dispatches, and its notification pumps.
Release ==
    /\ call = "release"
    /\ AssetsReady
    /\ call' = "released"
    /\ UNCHANGED <<aligning, runGeneration, workVars, ocrVars, resultVars, overlapped>>

(***************************************************************************)
(* The pump.                                                               *)
(***************************************************************************)

Drained == aligning = {} /\ outbox \cup pendingIntents = {}

Dispatched(capabilities) ==
    {i \in outbox : i.type = "dispatch" /\ Capability[i.check] \in capabilities}

JobsOf(intents) == {i.job : i \in intents}

\* Executors whose controller a terminate intent reaches through jobSignals.
Aborted ==
    {e \in executors :
        /\ e.job \in DOMAIN jobSignals /\ jobSignals[e.job] = e.gen
        /\ \E i \in outbox \cup pendingIntents : i.type = "terminate" /\ i.job = e.job}

\* executeJob up to its await.  One that finds its generation already stale
\* has nothing to wait for: it ends in the same call and answers nothing.
Executors ==
    IF Stale(runGeneration) THEN {}
    ELSE {[job |-> i.job, check |-> i.check, gen |-> runGeneration,
           reader |-> IF Capability[i.check] = "ocr" THEN ocrReader ELSE 0,
           aborted |-> FALSE, streamed |-> FALSE]
            : i \in Dispatched({"native_text", "render", "ocr"})}

\* Drain the outbox once and execute every intent but the alignments, which
\* run to their end within the call and follow one by one.
Pump ==
    LET gone == JobsOf(Dispatched(Capabilities)) \ {e.job : e \in Executors}
    IN  /\ ~AtRest /\ call # "release" /\ aligning = {}
        /\ DrainOutbox
        /\ executors' = {IF e \in Aborted THEN [e EXCEPT !.aborted = TRUE] ELSE e
                            : e \in executors} \cup Executors
        /\ jobSignals' = [j \in (DOMAIN jobSignals \cup {e.job : e \in Executors}) \ gone |->
                            IF j \in {e.job : e \in Executors} THEN runGeneration
                            ELSE jobSignals[j]]
        /\ aligning' = JobsOf(Dispatched({"alignment"}))
        /\ call' = IF call = "pump" /\ aligning' = {} THEN "none" ELSE call
        /\ UNCHANGED <<runGeneration, ocrVars, resultVars, overlapped>>

\* The five-part identity of a message of job j created under generation gen.
MessageOf(j, c, gen) ==
    [gen |-> gen, doc |-> document, key |-> plan, job |-> j,
     seq |-> registry[j].last + 1, check |-> c, slot |-> "none"]

\* The readings an alignment check compares: those of its page.
Readings(c) ==
    [d \in {d \in DOMAIN checks : PageOf[d] = PageOf[c]
                /\ Capability[d] \in {"native_text", "ocr"}} |-> checks[d].retained]

\* runAlignmentCheck, and its terminal message fed back at once.
Align(j) ==
    LET c == jobs[j]
    IN  /\ j \in aligning
        /\ aligning' = aligning \ {j}
        /\ alignments' = [d \in DOMAIN alignments \cup {c} |->
                            IF d = c THEN Readings(c) ELSE alignments[d]]
        /\ ReceiveTerminal(MessageOf(j, c, runGeneration), "completed")
        /\ report' = IF fileState' \in Settled
                     THEN Assembled(generation', fileState', checks', alignments')
                     ELSE report
        /\ UNCHANGED <<call, runGeneration, workVars, ocrVars, overlapped>>

\* The loop finds nothing left, and the call that pumped returns.
Returns ==
    /\ ~AtRest /\ call # "release" /\ Drained
    /\ ~(call = "released" /\ cancelPending)
    /\ call' = "none"
    /\ runGeneration' = IF call = "start" THEN generation ELSE runGeneration
    /\ UNCHANGED <<coordinatorVars, aligning, workVars, ocrVars, resultVars, overlapped>>

\* prepareOcrAssets carries out a cancel asked for while assets were prepared.
CancelsNow ==
    /\ call = "released" /\ Drained /\ cancelPending
    /\ RequestCancel
    /\ cancelPending' = FALSE /\ call' = "pump"
    /\ UNCHANGED <<aligning, runGeneration, workVars, preparing, ocrReader,
                   resultVars, overlapped>>

(***************************************************************************)
(* Answers of the readers.                                                 *)
(***************************************************************************)

\* A message of e is admitted: its job is neither closed nor of another run.
Heard(e) == ~Stale(e.gen) /\ e.job \in DOMAIN registry /\ ~registry[e.job].terminal

\* OCR emits what it read as its last act, and goes on to its end without
\* giving timers or the user a turn.
Emitting(e) == e.reader # 0 /\ e.streamed /\ Heard(e)

\* Mutant: OCR awaits between what it emits and its end.
TurnBetween == AtRest

\* A timer callback or an event may run.
Turn == AtRest /\ \A e \in executors : ~Emitting(e)

\* A chunk of text; one that exceeds a limit ends the check, and may settle the
\* run, while its reader goes on.
Streams(e, occs) ==
    LET m == MessageOf(e.job, e.check, e.gen)
    IN  /\ AtRest /\ Capability[e.check] \in {"native_text", "ocr"}
        /\ e.reader # 0 \/ Capability[e.check] # "ocr"
        /\ Heard(e)
        /\ ReceiveChunk(m, occs) \/ ReceiveOversized(m, occs)
        /\ Notified
        /\ executors' = (executors \ {e}) \cup {[e EXCEPT !.streamed = TRUE]}
        /\ call' = "pump"
        /\ UNCHANGED <<aligning, runGeneration, jobSignals, ocrVars, alignments, overlapped>>

\* Mutant: the first executor to end clears the whole map.
LeavesNothing(e) == executors' = executors \ {e} /\ jobSignals' = Empty

\* executeJob's finally: whatever controller the map holds for the job goes.
Leaves(e) ==
    /\ executors' = executors \ {e}
    /\ jobSignals' = [j \in DOMAIN jobSignals \ {e.job} |-> jobSignals[j]]

\* The reader is done and the check's terminal message is admitted.  OCR that
\* has emitted completes, OCR without a reader can only fail; only an OCR
\* worker crashes, before it has emitted anything, and is retried.
Ends(e) ==
    /\ AtRest /\ Heard(e)
    /\ \/ /\ Emitting(e)
          /\ ReceiveTerminal(MessageOf(e.job, e.check, e.gen), "completed")
       \/ /\ ~Emitting(e)
          /\ e.reader # 0 \/ Capability[e.check] # "ocr"
          /\ \/ \E status \in ReportedStatuses :
                    ReceiveTerminal(MessageOf(e.job, e.check, e.gen), status)
             \/ \E reason \in Reasons :
                    /\ reason \in TransientReasons => Capability[e.check] = "ocr"
                    /\ \/ ReceiveFailure(MessageOf(e.job, e.check, e.gen), reason)
                       \/ ReceiveCrash(MessageOf(e.job, e.check, e.gen), reason)
       \/ /\ e.reader = 0 /\ Capability[e.check] = "ocr"
          /\ ReceiveFailure(MessageOf(e.job, e.check, e.gen), "model_missing")
    /\ Notified
    /\ Leaves(e)
    /\ call' = "pump"
    /\ UNCHANGED <<aligning, runGeneration, ocrVars, alignments, overlapped>>

\* The executor is stale, or its job was closed: nobody hears the answer.
EndsUnheard(e) ==
    /\ AtRest /\ ~Heard(e)
    /\ Leaves(e)
    /\ UNCHANGED <<coordinatorVars, stackVars, runGeneration, ocrVars, resultVars,
                   overlapped>>

(***************************************************************************)
(* Timers and the user.                                                    *)
(***************************************************************************)

\* A watchdog that settles something notifies, and so pumps, while running.
WatchdogFires ==
    /\ Turn
    /\ RunDeadline \/ \E c \in DOMAIN checks : CheckDeadline(c)
    /\ Notified
    /\ call' = "pump"
    /\ UNCHANGED <<aligning, runGeneration, workVars, ocrVars, alignments, overlapped>>

\* The clock passes the run's budget; its watchdog finds assets still being
\* prepared.  (A job's watchdog that finds nothing to do stays armed here.)
TimePasses ==
    /\ AtRest
    /\ BudgetElapses \/ IgnoredDeadline(RunTimer)
    /\ UNCHANGED sessionVars

\* The bound on generations leaves room for the cancel that is asked for.
CancelRun ==
    /\ Turn /\ generation < MaxGeneration
    /\ \/ /\ RequestCancel
          /\ call' = "pump"
          /\ UNCHANGED cancelPending
       \/ /\ fileState = "preparing_assets"
          /\ cancelPending' = TRUE
          /\ UNCHANGED <<coordinatorVars, call>>
    /\ UNCHANGED <<aligning, runGeneration, workVars, preparing, ocrReader,
                   resultVars, overlapped>>

NewRun ==
    /\ AtRest
    /\ PrepareNewRun
    /\ report' = NoReport
    /\ UNCHANGED <<stackVars, runGeneration, workVars, ocrVars, alignments, overlapped>>

\* close, or a replacing offer: the report goes with the document.
CloseFile(next) ==
    /\ Turn /\ fileState # "idle"
    /\ RequestClear(next)
    /\ report' = NoReport
    /\ UNCHANGED <<stackVars, runGeneration, workVars, ocrVars, alignments, overlapped>>

\* The open controller takes a file to the page selection (module FileIntake).
FileSteps ==
    /\ AtRest
    /\ OpenFile \/ FileValidated \/ \E doc \in Documents : MetadataLoaded(doc)
    /\ UNCHANGED sessionVars

\* The rest of a synchronous call.
Continues ==
    Release \/ Pump \/ (\E j \in aligning : Align(j)) \/ Returns \/ CancelsNow

\* reader.open has a deadline of its own and answers or fails.
Answers == \E g \in preparing : Prepared(g) \/ NotPrepared(g) \/ PreparedTooLate(g)

SessionNext ==
    \/ BeginRun(TextPlan, FALSE)
    \/ BeginRun(OcrPlan, TRUE)
    \/ Answers
    \/ Continues
    \/ \E e \in executors :
        \/ \E occs \in Chunks : Streams(e, occs)
        \/ Ends(e) \/ EndsUnheard(e)
    \/ WatchdogFires \/ TimePasses
    \/ CancelRun \/ NewRun
    \/ \E next \in {"idle", "replace"} : CloseFile(next)
    \/ FileSteps

SessionSpec == SessionInit /\ [][SessionNext]_allVars

\* A check's watchdog that would settle it is due, and no call is on the stack.
WatchdogDue == AtRest /\ DeadlineDue

\* OCR that is emitting comes to its end, which gives the timers their turn.
Yields == \E e \in executors : Emitting(e) /\ Ends(e)

\* A synchronous call runs to its end, reader.open answers, timers fire.
SessionFairness ==
    /\ WF_allVars(Continues) /\ WF_allVars(Answers)
    /\ []<>WatchdogDue => []<><<WatchdogFires \/ Yields>>_allVars

SessionFairSpec == SessionSpec /\ SessionFairness

(***************************************************************************)
(* Properties.                                                             *)
(***************************************************************************)

Jobs == Nat \ {0}

SessionTypeOK ==
    /\ call \in {"none", "pump", "start", "release", "released"}
    /\ aligning \subseteq Jobs /\ runGeneration \in Nat
    /\ executors \subseteq [job : Jobs, check : Checks, gen : Nat, reader : Nat,
                            aborted : BOOLEAN, streamed : BOOLEAN]
    /\ DOMAIN jobSignals \subseteq Jobs /\ jobSignals \in [DOMAIN jobSignals -> Nat]
    /\ preparing \subseteq Nat /\ ocrReader \in Nat /\ cancelPending \in BOOLEAN
    /\ DOMAIN alignments \subseteq Checks /\ overlapped \in BOOLEAN

\* What the session shows is sealed from the run that settled last: its
\* results, the evidence retained, and alignments computed over exactly that
\* evidence; a run that goes on, or was cancelled, has no report.  A run that
\* settled has none, but an error instead, exactly when an OCR check keeps
\* readings and did not complete (against I17).
ReportIsRun ==
    /\ fileState \notin Settled => report = NoReport
    /\ fileState \in Settled =>
        /\ report.gen = generation
        /\ report.status = IF Uncropped(checks) = {} THEN runStatus ELSE "refused"
        /\ report.status # "refused" =>
            /\ report.results = [c \in DOMAIN checks |-> checks[c].status]
            /\ report.evidence = [c \in DOMAIN checks |-> checks[c].retained]
            /\ \A c \in DOMAIN checks :
                Capability[c] = "alignment" /\ checks[c].status = "completed" =>
                    c \in DOMAIN report.aligned /\ report.aligned[c] = Readings(c)

\* The only way to a run without a report is a chunk over a limit after the
\* first one: no other failure, crash, retry, deadline or skip leaves readings to
\* an OCR check that has not completed.
OnlyLimitsRefuse ==
    fileState \in Settled => \A c \in Uncropped(checks) : checks[c].reason = "resource_limit"

\* The job of c is being executed.
Served(c) ==
    \E e \in executors : e.job = checks[c].job /\ e.check = c /\ ~Stale(e.gen) /\ ~e.aborted

\* Every running check of a run with OCR is executed by a call that is still
\* current and not aborted, on the OCR reader prepared for this run or none.
OcrRunsAreServed ==
    /\ SessionTypeOK
    /\ AtRest /\ plan = OcrPlan =>
        /\ \A c \in Running(checks) : Served(c)
        /\ \A e \in executors : ~Stale(e.gen) => e.reader \in {0, generation}

\* What is shown and what is executed belong to the run the coordinator has.
SessionFollowsRun == ReportIsRun /\ OcrRunsAreServed

\* Once a run is cancelled, every execution is told to stop, unless a call of
\* an earlier run was still waiting for its reader when this one started.
CancelReaches ==
    AtRest /\ fileState = "cancelled" /\ ~overlapped => \A e \in executors : e.aborted

\* The session's executions and report follow the coordinator's run to its end,
\* also when that end is a cancel.
ExecutionsFollowRun == SessionFollowsRun /\ CancelReaches

\* A run is left, and unless it was cancelled or the file was closed its report
\* is there, or the error that says why there is none, whether or not a reader
\* ever answers; and only a chunk over a limit costs a run its report.
RunEndsInReport ==
    /\ []OnlyLimitsRefuse
    /\ fileState = "running" ~>
        report # NoReport \/ fileState \in {"cancelled", "idle", "validating_file"}

\* A cancel asked for while the OCR model loads ends the run as cancelled,
\* unless the file is closed first.
CancelIsHonoured ==
    cancelPending /\ fileState = "preparing_assets" ~>
        fileState \in {"cancelled", "idle", "validating_file"}

\* session.ts:450 says of a run without OCR that "Native text checks still ran
\* on every selected page".
TextIsRead == AtRest => \A c \in Running(checks) : Served(c)
=============================================================================
