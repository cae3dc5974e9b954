-------------------------- MODULE RunCoordinator --------------------------
(***************************************************************************)
(* The run coordinator of packages/runtime: the file/run lifecycle         *)
(* (coordinator.ts), the admission registry (authority.ts), the check      *)
(* ledger (checks.ts, module CheckLedger), the acknowledged chunk window   *)
(* and transfer ledger (backpressure.ts) and the owned-resource registries *)
(* (cleanup.ts).                                                           *)
(*                                                                         *)
(* JavaScript runs each public method to completion, so one action is one  *)
(* call of the coordinator by its host, one inbound message, or one timer  *)
(* callback.  Workers are the environment: any message whose five-part     *)
(* identity was ever issued may arrive at any time, any number of times    *)
(* and in any order.  A message the registry rejects changes nothing and   *)
(* is a stuttering step.                                                   *)
(***************************************************************************)
EXTENDS CheckLedger

CONSTANTS
    Plans,              \* the plans the user may start (sets of checks)
    CustomDependencies, \* dependency maps passed instead of the derived one
    Documents, NoDoc,   \* document identities (sha256), and null
    NoCheck,            \* payload.check_id = null
    Occurrences,        \* occurrence ids
    Chunks,             \* occurrence lists a chunk message may carry
    ChunkBytes,         \* raw-text bytes of the occurrences of each chunk
    Slots,              \* payload.transfer_slot values ("none" is null)
    ReportedStatuses,   \* non-failed statuses a worker may report
    Reasons,            \* reasons a failing worker may give
    Resources,          \* things the host hands over for teardown
    MaxUnacked,         \* limits.maxUnackedChunks
    MaxLiveRasters,     \* limits.maxLiveRasters
    MaxOccurrencesPerCheck, \* limits.maxOccurrencesPerPage
    MaxOccurrencesPerRun,   \* limits.maxOccurrencesPerRun
    MaxRawTextBytes,    \* limits.maxRawTextBytesPerRun
    MaxTransientRetries,\* limits.maxTransientRetries
    MaxGeneration,      \* bound of the model on generation
    MaxSeq              \* bound of the model on message sequence numbers

ASSUME PlanAssumption ==
    /\ Plans \subseteq SUBSET Checks
    /\ \A d \in CustomDependencies : d = [c \in DOMAIN d |-> d[c]]

ASSUME IdentityAssumption == NoDoc \notin Documents /\ NoCheck \notin Checks

ASSUME ChunkAssumption ==
    /\ Chunks \subseteq Seq(Occurrences)
    /\ ChunkBytes \in [Chunks -> Nat]

ASSUME LimitAssumption ==
    /\ {MaxUnacked, MaxLiveRasters, MaxTransientRetries} \subseteq Nat
    /\ {MaxOccurrencesPerCheck, MaxOccurrencesPerRun, MaxRawTextBytes} \subseteq Nat
    /\ MaxGeneration \in Nat /\ MaxSeq \in Nat

ASSUME ReportAssumption ==
    ReportedStatuses \subseteq TerminalStatuses \ {"failed"}

ASSUME SlotAssumption == Slots \subseteq {"none", "pdf_bytes", "raster_rgba"}

VARIABLES
    fileState,       \* this.state
    generation,      \* this.generation
    document,        \* this.document (its sha256)
    active,          \* authority.active
    registry,        \* authority.jobs: job -> last sequence number, terminal
    \* --- the fields of this.run; plan = {} is run = null -----------------
    plan, deps,      \* the frozen plan and its dependency map
    checks,          \* run.checks
    jobs,            \* run.jobs: job -> check
    jobCounter,      \* run.jobCounter
    occurrences,     \* keys of run.occurrences
    runProduced,     \* run.runProduced
    outbox,          \* run.outbox
    claims,          \* run.transfers: check -> claimed slot
    deadline,        \* run.deadlineAt: "none", "ahead" or "past" of now()
    cancelRequested, \* run.cancelRequested
    runStatus,       \* run.status
    timers,          \* armed watchdogs owned by run.cleanup
    runOwned,        \* other resources owned by run.cleanup
    \* ---------------------------------------------------------------------
    fileOwned,       \* resources owned by this.fileCleanup
    pendingIntents,  \* this.pendingIntents
    open,            \* (observer) resources handed over, not yet torn down
    late             \* (observer) resources last handed to a settled run

lifeVars == <<fileState, generation, document>>
authorityVars == <<active, registry>>
runVars == <<plan, deps, checks, jobs, jobCounter, occurrences, runProduced,
             outbox, claims, deadline, cancelRequested, runStatus, timers,
             runOwned>>
hostVars == <<fileOwned, pendingIntents, open, late>>
vars == <<lifeVars, authorityVars, runVars, hostVars>>

Empty == [x \in {} |-> x]

\* authority.active = null
Inactive == [gen |-> 0, doc |-> NoDoc, key |-> {}]

\* The run-deadline watchdog; a job number is that job's check-deadline.
RunTimer == 0

RunStates == {"complete", "partial", "failed", "cancelled"}

FileStates ==
    {"idle", "validating_file", "loading_metadata", "selecting",
     "preparing_assets", "running"} \cup RunStates

Intent(type, j, c, seq) == [type |-> type, job |-> j, check |-> c, seq |-> seq]

Init ==
    /\ fileState = "idle" /\ generation = 0 /\ document = NoDoc
    /\ active = Inactive /\ registry = Empty
    /\ plan = {} /\ deps = Empty /\ checks = Empty /\ jobs = Empty
    /\ jobCounter = 0 /\ occurrences = {} /\ runProduced = 0
    /\ outbox = {} /\ claims = Empty /\ deadline = "none"
    /\ cancelRequested = FALSE /\ runStatus = "none"
    /\ timers = {} /\ runOwned = {} /\ fileOwned = {} /\ pendingIntents = {}
    /\ open = {} /\ late = {}

(***************************************************************************)
(* Teardown and invalidation, shared by finish, cancel and clear.          *)
(***************************************************************************)

\* Mutant: watchdogs are not unscheduled.
TeardownWithoutTimers ==
    UNCHANGED timers /\ runOwned' = {} /\ open' = open \ runOwned

\* Mutant: the registry is emptied without invoking the teardowns.
TeardownWithoutRelease == timers' = {} /\ runOwned' = {} /\ UNCHANGED open

\* run.cleanup.teardownAll(): watchdogs are unscheduled, resources released.
TeardownRun == timers' = {} /\ runOwned' = {} /\ open' = open \ runOwned

\* authority.invalidate()
Invalidate == active' = Inactive /\ registry' = Empty

(***************************************************************************)
(* The file lifecycle.                                                     *)
(***************************************************************************)

OpenFile ==
    /\ fileState = "idle"
    /\ fileState' = "validating_file"
    /\ UNCHANGED <<generation, document, authorityVars, runVars, hostVars>>

FileValidated ==
    /\ fileState = "validating_file"
    /\ fileState' = "loading_metadata"
    /\ UNCHANGED <<generation, document, authorityVars, runVars, hostVars>>

MetadataLoaded(doc) ==
    /\ fileState = "loading_metadata"
    /\ document' = doc
    /\ fileState' = "selecting"
    /\ UNCHANGED <<generation, authorityVars, runVars, hostVars>>

\* Mutant: run.jobs survives the run.
DropRunKeepingJobs ==
    /\ plan' = {} /\ deps' = Empty /\ checks' = Empty /\ jobs' = jobs
    /\ jobCounter' = 0 /\ occurrences' = {} /\ runProduced' = 0
    /\ outbox' = {} /\ claims' = Empty /\ deadline' = "none"
    /\ cancelRequested' = FALSE /\ runStatus' = "none"

\* this.run = null
DropRun ==
    /\ plan' = {} /\ deps' = Empty /\ checks' = Empty /\ jobs' = Empty
    /\ jobCounter' = 0 /\ occurrences' = {} /\ runProduced' = 0
    /\ outbox' = {} /\ claims' = Empty /\ deadline' = "none"
    /\ cancelRequested' = FALSE /\ runStatus' = "none"

(***************************************************************************)
(* Registry and binding updates shared by dispatch and settlement.         *)
(***************************************************************************)

Register(reg, new) ==
    [j \in DOMAIN reg \cup new |->
        IF j \in new THEN [last |-> -1, terminal |-> FALSE] ELSE reg[j]]

CloseJobs(reg, gone) ==
    [j \in DOMAIN reg |->
        IF j \in gone THEN [reg[j] EXCEPT !.terminal = TRUE] ELSE reg[j]]

NewJobs(started) == {JobOf(c, started, jobCounter) : c \in started}

\* run.jobs after the jobs in gone are deleted and started ones are set.
Bind(gone, started) ==
    [j \in (DOMAIN jobs \ gone) \cup NewJobs(started) |->
        IF j \in NewJobs(started)
            THEN CHOOSE c \in started : JobOf(c, started, jobCounter) = j
            ELSE jobs[j]]

DispatchIntents(started) ==
    {Intent("dispatch", JobOf(c, started, jobCounter), c, 0) : c \in started}

TerminateIntents(gone) == {Intent("terminate", j, jobs[j], 0) : j \in gone}

(***************************************************************************)
(* Starting a run.                                                         *)
(***************************************************************************)

\* enterRunning: dispatch from a ledger in which nothing has been dispatched.
EnterRunning(ck, dep, armed) ==
    LET started == Startable(ck, dep)
        new == {JobOf(c, started, 0) : c \in started}
    IN  /\ fileState' = "running"
        /\ checks' = Start(ck, started, 0)
        /\ jobs' = [j \in new |-> CHOOSE c \in started : JobOf(c, started, 0) = j]
        /\ jobCounter' = Cardinality(started)
        /\ registry' = Register(Empty, new)
        /\ outbox' = {Intent("dispatch", JobOf(c, started, 0), c, 0) : c \in started}
        /\ timers' = armed \cup new

StartRun(p, dep, budget, needsAssets) ==
    /\ fileState = "selecting" /\ document # NoDoc
    /\ p # {} /\ ValidateDependencies(dep, p)
    /\ generation < MaxGeneration
    /\ generation' = generation + 1
    /\ active' = [gen |-> generation + 1, doc |-> document, key |-> p]
    /\ plan' = p /\ deps' = dep
    /\ deadline' = IF budget THEN "ahead" ELSE "none"
    /\ LET armed == timers \cup (IF budget THEN {RunTimer} ELSE {})
       IN  IF needsAssets
           THEN /\ fileState' = "preparing_assets"
                /\ checks' = BuildRecords(p) /\ jobs' = Empty /\ jobCounter' = 0
                /\ registry' = Empty /\ outbox' = {} /\ timers' = armed
           ELSE EnterRunning(BuildRecords(p), dep, armed)
    /\ occurrences' = {} /\ runProduced' = 0 /\ claims' = [c \in p |-> "none"]
    /\ cancelRequested' = FALSE /\ runStatus' = "none" /\ runOwned' = {}
    /\ UNCHANGED <<document, hostVars>>

AssetsReady ==
    /\ fileState = "preparing_assets"
    /\ EnterRunning(checks, deps, timers)
    /\ UNCHANGED <<generation, document, active, plan, deps, occurrences,
                   runProduced, claims, deadline, cancelRequested, runStatus,
                   runOwned, hostVars>>

(***************************************************************************)
(* afterTerminalSettled: skip dependents, release the slots of terminal    *)
(* checks, dispatch what became runnable, and finish the run when every    *)
(* check is terminal.  ck is the ledger and reg the registry the caller    *)
(* leaves, cl the claims, gone the jobs it closed and terminated, armed    *)
(* the watchdogs that have not fired.                                      *)
(***************************************************************************)

AfterTerminalSettled(ck, reg, cl, gone, armed) ==
    LET skipped  == PropagateSkips(ck, deps)
        started  == IF fileState = "running" THEN Startable(skipped, deps) ELSE {}
        ledger   == Start(skipped, started, jobCounter)
        finished == Terminal(ledger) = DOMAIN ledger /\ fileState = "running"
        status   == ComputeRunStatus(ledger, cancelRequested)
    IN  /\ checks' = ledger
        /\ claims' = [c \in DOMAIN cl |->
                        IF c \in Terminal(skipped) THEN "none" ELSE cl[c]]
        /\ jobs' = Bind(gone, started)
        /\ jobCounter' = jobCounter + Cardinality(started)
        /\ outbox' = outbox \cup TerminateIntents(gone) \cup DispatchIntents(started)
        /\ IF finished
           THEN /\ fileState' = status /\ runStatus' = status
                /\ TeardownRun /\ Invalidate
           ELSE /\ UNCHANGED <<fileState, runStatus, runOwned, open, active>>
                /\ timers' = armed \cup NewJobs(started)
                /\ registry' = Register(CloseJobs(reg, gone), NewJobs(started))

(***************************************************************************)
(* Watchdogs.                                                              *)
(***************************************************************************)

\* The wall clock passes deadlineAt.
BudgetElapses ==
    /\ deadline = "ahead"
    /\ deadline' = "past"
    /\ UNCHANGED <<lifeVars, authorityVars, plan, deps, checks, jobs,
                   jobCounter, occurrences, runProduced, outbox, claims,
                   cancelRequested, runStatus, timers, runOwned, hostVars>>

\* What no settlement touches.
settleFrame == <<generation, document, plan, deps, deadline, cancelRequested,
                 fileOwned, pendingIntents, late>>

\* The checks that have not reached their terminal result.
Live == DOMAIN checks \ Terminal(checks)

\* The jobs the checks in Live are bound to.
LiveJobs == {checks[c].job : c \in Live} \ {NoJob}

\* Every live check ends with the given result.
EndLive(status, reason) ==
    [c \in DOMAIN checks |->
        IF c \in Live THEN Terminalize(checks[c], status, reason) ELSE checks[c]]

RunDeadline ==
    /\ RunTimer \in timers /\ deadline = "past" /\ fileState = "running"
    /\ AfterTerminalSettled(EndLive("timeout", "timeout"), registry, claims,
                            LiveJobs, timers \ {RunTimer})
    /\ UNCHANGED <<settleFrame, occurrences, runProduced>>

CheckDeadline(c) ==
    /\ fileState = "running" /\ c \in Running(checks) /\ checks[c].job \in timers
    /\ AfterTerminalSettled([checks EXCEPT ![c] = Terminalize(@, "timeout", "timeout")],
                            registry, claims, {checks[c].job},
                            timers \ {checks[c].job})
    /\ UNCHANGED <<settleFrame, occurrences, runProduced>>

\* A watchdog that fires for a run that is not running, for a settled check
\* or for a job a retry has replaced returns without effect, and is spent.
IgnoredDeadline(t) ==
    /\ t \in timers
    /\ \/ t = RunTimer /\ deadline = "past" /\ fileState # "running"
       \/ t # RunTimer /\ ~\E c \in Running(checks) : checks[c].job = t
    /\ timers' = timers \ {t}
    /\ UNCHANGED <<lifeVars, authorityVars, plan, deps, checks, jobs,
                   jobCounter, occurrences, runProduced, outbox, claims,
                   deadline, cancelRequested, runStatus, runOwned, hostVars>>

(***************************************************************************)
(* Inbound messages.  A message carries its five-part identity, the check  *)
(* it names and the slot it transfers.                                     *)
(***************************************************************************)

Messages ==
    [gen : 0..generation, doc : Documents, key : Plans, job : DOMAIN registry,
     seq : 0..MaxSeq, check : Checks \cup {NoCheck}, slot : Slots]

\* Mutant: the generation is not compared; run key and job numbers repeat.
AdmitAnyGeneration(m) ==
    /\ active # Inactive
    /\ m.doc = active.doc
    /\ m.key = active.key
    /\ m.job \in DOMAIN registry
    /\ ~registry[m.job].terminal
    /\ m.seq > registry[m.job].last

Admit(m) ==
    /\ active # Inactive
    /\ m.gen = active.gen
    /\ m.doc = active.doc
    /\ m.key = active.key
    /\ m.job \in DOMAIN registry
    /\ ~registry[m.job].terminal
    /\ m.seq > registry[m.job].last

\* The registry once m is admitted.
Seen(m) == [registry EXCEPT ![m.job].last = m.seq]

\* m names another check than the one its job serves.
Foreign(m) == m.check \notin {NoCheck, jobs[m.job]}

RasterHolders(cl) == {c \in DOMAIN cl : cl[c] = "raster_rgba"}

\* Mutant: off by one at the raster cap.
ClaimOkOneMore(slot, c) ==
    slot = "raster_rgba" =>
        \/ claims[c] = "raster_rgba"
        \/ /\ claims[c] = "none"
           /\ Cardinality(RasterHolders(claims)) <= MaxLiveRasters

\* TransferLedger.claim answers 'ok'.
ClaimOk(slot, c) ==
    slot = "raster_rgba" =>
        \/ claims[c] = "raster_rgba"
        \/ /\ claims[c] = "none"
           /\ Cardinality(RasterHolders(claims)) < MaxLiveRasters

Claimed(slot, c) == IF slot = "none" THEN claims ELSE [claims EXCEPT ![c] = slot]

\* Close m's job, terminate its worker and settle its check with record r.
SettleCheck(m, r, cl) ==
    AfterTerminalSettled([checks EXCEPT ![jobs[m.job]] = r], Seen(m), cl,
                         {m.job}, timers)

ReceiveForeign(m) ==
    /\ Admit(m) /\ m.job \in DOMAIN jobs /\ Foreign(m)
    /\ SettleCheck(m, Terminalize(checks[jobs[m.job]], "failed", "protocol_violation"),
                   claims)
    /\ UNCHANGED <<settleFrame, occurrences, runProduced>>

ReceiveOverclaim(m) ==
    /\ Admit(m) /\ m.job \in DOMAIN jobs /\ ~Foreign(m)
    /\ ~ClaimOk(m.slot, jobs[m.job])
    /\ SettleCheck(m, Terminalize(checks[jobs[m.job]], "failed", "resource_limit"),
                   claims)
    /\ UNCHANGED <<settleFrame, occurrences, runProduced>>

\* The message passes every gate and reaches the running check it serves.
Delivered(m) ==
    /\ Admit(m) /\ m.job \in DOMAIN jobs
    /\ ~Foreign(m) /\ ClaimOk(m.slot, jobs[m.job])
    /\ checks[jobs[m.job]].phase = "running"

\* start, ready, progress, and ack/cancel/clear sent the wrong way.
ReceiveInert(m) ==
    /\ Delivered(m)
    /\ registry' = Seen(m)
    /\ claims' = Claimed(m.slot, jobs[m.job])
    /\ UNCHANGED <<lifeVars, active, plan, deps, checks, jobs, jobCounter,
                   occurrences, runProduced, outbox, deadline, cancelRequested,
                   runStatus, timers, runOwned, hostVars>>

\* The caps commitChunk enforces, each against what it is compared with.
WithinCaps(r, occs) ==
    /\ Len(r.retained) + Len(occs) <= MaxOccurrencesPerCheck
    /\ runProduced + Len(occs) <= MaxOccurrencesPerRun
    /\ r.bytes + ChunkBytes[occs] <= MaxRawTextBytes

\* Retained ids carry, for the properties, the message that brought them.
Evidence(m, occs) ==
    [i \in 1..Len(occs) |-> [id |-> occs[i], gen |-> m.gen, job |-> m.job]]

\* InboundWindow.wouldOverflow
WouldOverflow(r) == r.unacked >= MaxUnacked

ReceiveFlood(m) ==
    /\ Delivered(m) /\ WouldOverflow(checks[jobs[m.job]])
    /\ SettleCheck(m, Terminalize(checks[jobs[m.job]], "failed", "protocol_violation"),
                   Claimed(m.slot, jobs[m.job]))
    /\ UNCHANGED <<settleFrame, occurrences, runProduced>>

ReceiveOversized(m, occs) ==
    LET c == jobs[m.job]
    IN  /\ Delivered(m) /\ ~WouldOverflow(checks[c])
        /\ ~WithinCaps(checks[c], occs)
        /\ SettleCheck(m, Terminalize([checks[c] EXCEPT !.unacked = @ + 1],
                                      "failed", "resource_limit"),
                       Claimed(m.slot, c))
        /\ UNCHANGED <<settleFrame, occurrences, runProduced>>

ReceiveChunk(m, occs) ==
    LET c == jobs[m.job]
    IN  /\ Delivered(m) /\ ~WouldOverflow(checks[c])
        /\ WithinCaps(checks[c], occs)
        /\ checks' = [checks EXCEPT
                        ![c].unacked = @ + 1,
                        ![c].retained = @ \o Evidence(m, occs),
                        ![c].bytes = @ + ChunkBytes[occs]]
        /\ occurrences' = occurrences \cup {occs[i] : i \in 1..Len(occs)}
        /\ runProduced' = runProduced + Len(occs)
        /\ outbox' = outbox \cup {Intent("ack", m.job, c, m.seq)}
        /\ registry' = Seen(m)
        /\ claims' = Claimed(m.slot, c)
        /\ UNCHANGED <<lifeVars, active, plan, deps, jobs, jobCounter, deadline,
                       cancelRequested, runStatus, timers, runOwned, hostVars>>

\* check_terminal with a status other than failed.
ReceiveTerminal(m, status) ==
    /\ Delivered(m)
    /\ SettleCheck(m, Terminalize(checks[jobs[m.job]], status,
                                  IF status = "completed" THEN "none" ELSE "reported"),
                   Claimed(m.slot, jobs[m.job]))
    /\ UNCHANGED <<settleFrame, occurrences, runProduced>>

TransientReasons == {"worker_crash", "init_crash"}

MayRetry(r, reason) ==
    /\ reason \in TransientReasons
    /\ r.attempts < MaxTransientRetries
    /\ deadline # "past"
    /\ ~cancelRequested

\* check_terminal failed, or an error message, with no retry left.
ReceiveFailure(m, reason) ==
    /\ Delivered(m) /\ ~MayRetry(checks[jobs[m.job]], reason)
    /\ SettleCheck(m, Terminalize(checks[jobs[m.job]], "failed", reason),
                   Claimed(m.slot, jobs[m.job]))
    /\ UNCHANGED <<settleFrame, occurrences, runProduced>>

\* Mutant: the retry starts with an empty evidence list.
RetriedDroppingEvidence(r, new) ==
    [r EXCEPT !.attempts = @ + 1, !.job = new, !.retained = <<>>]

\* Mutant: the retry starts with a fresh window while acks are still queued.
RetriedWithFreshWindow(r, new) ==
    [r EXCEPT !.attempts = @ + 1, !.job = new, !.unacked = 0]

\* The check's record once its crashed job is replaced by job new; what it has
\* retained, produced and not yet acknowledged stays.
Retried(r, new) == [r EXCEPT !.attempts = @ + 1, !.job = new]

\* Mutant: the replacement job runs without a watchdog.
RetryTimersUnarmed(new) == timers

\* dispatchCheck arms the replacement's own check-deadline.
RetryTimers(new) == timers \cup {new}

\* The single transient retry: a fresh job with a watchdog of its own.
ReceiveCrash(m, reason) ==
    LET c == jobs[m.job]
        new == jobCounter + 1
    IN  /\ Delivered(m) /\ MayRetry(checks[c], reason)
        /\ checks' = [checks EXCEPT ![c] = Retried(@, new)]
        /\ registry' = Register(CloseJobs(Seen(m), {m.job}), {new})
        /\ jobs' = [j \in (DOMAIN jobs \ {m.job}) \cup {new} |->
                        IF j = new THEN c ELSE jobs[j]]
        /\ jobCounter' = new
        /\ outbox' = outbox \cup {Intent("terminate", m.job, c, 0),
                                  Intent("dispatch", new, c, 0)}
        /\ timers' = RetryTimers(new)
        /\ claims' = Claimed(m.slot, c)
        /\ UNCHANGED <<lifeVars, active, plan, deps, occurrences, runProduced,
                       deadline, cancelRequested, runStatus, runOwned, hostVars>>

(***************************************************************************)
(* Cancel, clear, new run.                                                 *)
(***************************************************************************)

RequestCancel ==
    /\ fileState = "running" /\ generation < MaxGeneration
    /\ fileState' = "cancelled" /\ cancelRequested' = TRUE /\ runStatus' = "cancelled"
    /\ checks' = EndLive("cancelled", "user_cancel")
    /\ outbox' = outbox \cup TerminateIntents(LiveJobs)
                       \cup {Intent("cancel", j, jobs[j], 0) : j \in LiveJobs}
    /\ jobs' = [j \in DOMAIN jobs \ LiveJobs |-> jobs[j]]
    /\ TeardownRun
    /\ generation' = generation + 1
    /\ Invalidate
    /\ UNCHANGED <<document, plan, deps, jobCounter, occurrences, runProduced,
                   claims, deadline, fileOwned, pendingIntents, late>>

\* Mutant: the document is dropped under the generation that loaded it.
RequestClearInPlace(next) ==
    /\ generation' = generation
    /\ Invalidate
    /\ pendingIntents' = pendingIntents \cup TerminateIntents(DOMAIN jobs)
    /\ timers' = {} /\ runOwned' = {} /\ fileOwned' = {}
    /\ open' = open \ (runOwned \cup fileOwned)
    /\ DropRun
    /\ document' = NoDoc
    /\ fileState' = IF next = "replace" THEN "validating_file" ELSE "idle"
    /\ UNCHANGED late

\* any -> clearing -> idle | validating_file, in one synchronous call.
RequestClear(next) ==
    /\ generation < MaxGeneration
    /\ generation' = generation + 1
    /\ Invalidate
    /\ pendingIntents' = pendingIntents \cup TerminateIntents(DOMAIN jobs)
    /\ timers' = {} /\ runOwned' = {} /\ fileOwned' = {}
    /\ open' = open \ (runOwned \cup fileOwned)
    /\ DropRun
    /\ document' = NoDoc
    /\ fileState' = IF next = "replace" THEN "validating_file" ELSE "idle"
    /\ UNCHANGED late

\* The run context is dropped, and whatever it was given since it settled is
\* dropped with it, not torn down.
PrepareNewRun ==
    /\ fileState \in RunStates
    /\ fileState' = "selecting"
    /\ DropRun /\ runOwned' = {}
    /\ UNCHANGED <<generation, document, authorityVars, timers, hostVars>>

(***************************************************************************)
(* Host services.                                                          *)
(***************************************************************************)

\* The file's registry takes what it is given in any state.
Own(r) ==
    /\ r \notin open
    /\ fileOwned' = fileOwned \cup {r} /\ open' = open \cup {r}
    /\ late' = late \ {r}
    /\ UNCHANGED <<lifeVars, authorityVars, runVars, pendingIntents>>

\* The run's registry takes it as long as there is a run, settled or not.
OwnRunResource(r) ==
    /\ plan # {} /\ r \notin open
    /\ runOwned' = runOwned \cup {r} /\ open' = open \cup {r}
    /\ late' = IF fileState \in RunStates THEN late \cup {r} ELSE late \ {r}
    /\ UNCHANGED <<lifeVars, authorityVars, plan, deps, checks, jobs,
                   jobCounter, occurrences, runProduced, outbox, claims,
                   deadline, cancelRequested, runStatus, timers, fileOwned,
                   pendingIntents>>

AcksFor(c) == {i \in outbox : i.type = "ack" /\ i.check = c}

\* Every queued intent is handed to the host; an ack counts as delivered here.
DrainOutbox ==
    /\ outbox \cup pendingIntents # {}
    /\ outbox' = {} /\ pendingIntents' = {}
    /\ checks' = [c \in DOMAIN checks |->
                    [checks[c] EXCEPT !.unacked = @ - Cardinality(AcksFor(c))]]
    /\ UNCHANGED <<lifeVars, authorityVars, plan, deps, jobs, jobCounter,
                   occurrences, runProduced, claims, deadline, cancelRequested,
                   runStatus, timers, runOwned, fileOwned, open, late>>

Receive(m) ==
    /\ Admit(m)
    /\ \/ ReceiveForeign(m)
       \/ ReceiveOverclaim(m)
       \/ ReceiveInert(m)
       \/ ReceiveFlood(m)
       \/ \E occs \in Chunks : ReceiveOversized(m, occs) \/ ReceiveChunk(m, occs)
       \/ \E status \in ReportedStatuses : ReceiveTerminal(m, status)
       \/ \E reason \in Reasons : ReceiveFailure(m, reason) \/ ReceiveCrash(m, reason)

DependencyChoices(p) == CustomDependencies \cup {DeriveDependencies(p)}

Next ==
    \/ OpenFile
    \/ FileValidated
    \/ \E doc \in Documents : MetadataLoaded(doc)
    \/ \E p \in Plans, budget \in BOOLEAN, needsAssets \in BOOLEAN :
            \E dep \in DependencyChoices(p) : StartRun(p, dep, budget, needsAssets)
    \/ AssetsReady
    \/ BudgetElapses
    \/ RunDeadline
    \/ \E c \in DOMAIN checks : CheckDeadline(c)
    \/ \E t \in timers : IgnoredDeadline(t)
    \/ \E m \in Messages : Receive(m)
    \/ RequestCancel
    \/ \E next \in {"idle", "replace"} : RequestClear(next)
    \/ PrepareNewRun
    \/ \E r \in Resources : Own(r) \/ OwnRunResource(r)
    \/ DrainOutbox

Spec == Init /\ [][Next]_vars

\* A check-deadline callback that would settle its check is due.
DeadlineDue == fileState = "running" /\ \E c \in Running(checks) : checks[c].job \in timers

\* setTimeout callbacks are delivered; nothing else is promised.  This is weak
\* fairness of the callbacks, with their enabling condition written out.
Fairness == <>[]DeadlineDue => []<><<\E c \in DOMAIN checks : CheckDeadline(c)>>_vars

FairSpec == Spec /\ Fairness

(***************************************************************************)
(* Properties.                                                             *)
(***************************************************************************)

EvidenceItems == [id : Occurrences, gen : Nat, job : Nat \ {0}]

RecordedReasons ==
    {"none", "reported", "timeout", "user_cancel", "dependency_unmet",
     "protocol_violation", "resource_limit"} \cup Reasons

Records ==
    [phase : Phases, status : TerminalStatuses \cup {"none"}, reason : RecordedReasons,
     job : Nat, attempts : Nat, retained : Seq(EvidenceItems), bytes : Nat,
     unacked : Int]

Intents ==
    [type : {"dispatch", "terminate", "ack", "cancel"}, job : Nat \ {0},
     check : Checks, seq : Nat]

\* Every variable keeps its shape; the run fields exist together.
TypeOK ==
    /\ fileState \in FileStates /\ generation \in Nat
    /\ document \in Documents \cup {NoDoc}
    /\ active \in [gen : Nat, doc : Documents \cup {NoDoc}, key : SUBSET Checks]
    /\ DOMAIN registry \subseteq Nat \ {0}
    /\ registry \in [DOMAIN registry -> [last : Nat \cup {-1}, terminal : BOOLEAN]]
    /\ plan \in SUBSET Checks
    /\ DOMAIN deps \subseteq plan /\ deps \in [DOMAIN deps -> SUBSET plan]
    /\ checks \in [plan -> Records]
    /\ DOMAIN jobs \subseteq Nat \ {0} /\ jobs \in [DOMAIN jobs -> plan]
    /\ jobCounter \in Nat /\ runProduced \in Nat
    /\ occurrences \subseteq Occurrences
    /\ outbox \subseteq Intents /\ pendingIntents \subseteq Intents
    /\ claims \in [plan -> {"none", "pdf_bytes", "raster_rgba"}]
    /\ deadline \in {"none", "ahead", "past"}
    /\ cancelRequested \in BOOLEAN /\ runStatus \in RunStates \cup {"none"}
    /\ timers \subseteq Nat
    /\ runOwned \subseteq Resources /\ fileOwned \subseteq Resources
    /\ open \subseteq Resources /\ late \subseteq Resources

\* I05: every running check is served by exactly one job, which the registry
\* still admits and whose own watchdog is armed, and no other job is bound.
\* A retry must not leave a check without a watchdog, nor two jobs for it.
EveryJobWatched ==
    /\ DOMAIN jobs = {checks[c].job : c \in Running(checks)}
    /\ \A c \in Running(checks) :
        /\ jobs[checks[c].job] = c
        /\ checks[c].job \in timers
        /\ checks[c].job \in DOMAIN registry
        /\ ~registry[checks[c].job].terminal

\* I05: a queued check of a running run waits for a prerequisite that has not
\* settled, or for a slot its capability has given out; so nothing is stranded
\* when checks fail, are skipped or free a slot in the same call.
QueuedHasCause ==
    fileState = "running" =>
        \A c \in Queued(checks) :
            \/ \E d \in Needs(deps, c) : checks[d].phase # "terminal"
            \/ /\ Capability[c] \in Bounded
               /\ Cardinality({d \in Running(checks) : Capability[d] = Capability[c]})
                    = CapabilityLimit(Capability[c])

\* Outside a live run no watchdog is armed and no job is bound or admitted, and
\* once it is dropped a run owns nothing: a timer or message of a finished run
\* finds nothing to act on in the next one, although job numbers and run keys
\* repeat.
SettledIsQuiet ==
    fileState \notin {"preparing_assets", "running"} =>
        /\ timers = {} /\ DOMAIN jobs = {}
        /\ active = Inactive /\ DOMAIN registry = {}
        /\ fileState \notin RunStates => plan = {} /\ runOwned = {}

\* The generation the current run was started under.
RunGeneration == IF cancelRequested THEN generation - 1 ELSE generation

\* I07: what a check retains was sent under this run's generation, by jobs of
\* this run, and no job contributed to two checks, whatever late, repeated or
\* misdirected messages arrive.
OwnEvidenceOnly ==
    \A c \in DOMAIN checks : \A i \in DOMAIN checks[c].retained :
        LET e == checks[c].retained[i]
        IN  /\ e.gen = RunGeneration
            /\ e.job \in 1..jobCounter
            /\ \A d \in DOMAIN checks \ {c} : \A k \in DOMAIN checks[d].retained :
                    checks[d].retained[k].job # e.job

\* I17: one render, one OCR worker, the live rasters, the unacknowledged
\* chunks and the produced occurrences stay within their limits.
WithinLimits ==
    /\ \A cap \in Bounded :
        Cardinality({c \in Running(checks) : Capability[c] = cap}) <= CapabilityLimit(cap)
    /\ Cardinality(RasterHolders(claims)) <= MaxLiveRasters
    /\ \A c \in DOMAIN checks :
        /\ checks[c].unacked <= MaxUnacked
        /\ Len(checks[c].retained) <= MaxOccurrencesPerCheck
    /\ runProduced <= MaxOccurrencesPerRun

\* Slots are neither lost nor given out twice.
SlotsAreUsed == QueuedHasCause /\ WithinLimits

\* A running check's window holds exactly the acks still queued for it, so a
\* drain always reopens the window: no credit is lost across a retry, and none
\* is gained that would exceed a limit.
AcksConserved ==
    /\ WithinLimits
    /\ \A c \in Running(checks) : checks[c].unacked = Cardinality(AcksFor(c))

\* What the messages of a run leave behind: evidence and credit of its own.
MessagesAccounted == OwnEvidenceOnly /\ AcksConserved

\* What a run was handed while it lived is released on every way it settles, and
\* what the file was handed with the file.  Only what was handed to a run that
\* had settled may be neither owned nor released: requestClear still releases it,
\* but prepareNewRun drops that run without a teardown.
NothingLeaks ==
    /\ fileState \in RunStates => runOwned \subseteq late
    /\ runOwned \cup fileOwned \subseteq open
    /\ open \subseteq runOwned \cup fileOwned \cup late

\* I05, I17: within a run a terminal result is final and retained evidence is
\* only ever appended to, by any interleaving of messages, timers and cancel.
EvidenceIsFinal ==
    [][plan' # {} =>
        /\ occurrences \subseteq occurrences'
        /\ \A c \in DOMAIN checks :
            /\ Len(checks[c].retained) <= Len(checks'[c].retained)
            /\ SubSeq(checks'[c].retained, 1, Len(checks[c].retained)) =
                    checks[c].retained
            /\ checks[c].phase = "terminal" =>
                    /\ checks'[c].status = checks[c].status
                    /\ checks'[c].reason = checks[c].reason
                    /\ checks'[c].retained = checks[c].retained
                    /\ checks'[c].attempts = checks[c].attempts]_vars

\* I05: a running run is left, whether or not any worker ever answers, because
\* every job has a watchdog of its own.
RunSettles == fileState = "running" ~> fileState # "running"

\* I07: generation first.  The document and what the file owns change only
\* when a clear retires the generation, whatever runs, watchdogs and messages do.
Life == INSTANCE RunLifecycle WITH owned <- fileOwned

GenerationFirst == Life!LifeSpec
=============================================================================
