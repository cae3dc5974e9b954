------------------------- MODULE NativeSupervisor -------------------------
(***************************************************************************)
(* The parent supervisor of disposable reader processes                    *)
(* (native/inkflip/runtime/supervisor.py), its journal and atomic writes   *)
(* (artifacts.py), and the corpus wrapper that publishes identity.json     *)
(* (corpus/runner.py), over one output directory.                          *)
(*                                                                         *)
(* The parent is one thread, but children exit, signals set the cancel     *)
(* flag, deadlines pass and SIGKILL strikes between any two of its steps,  *)
(* so an action is what it does between two durable writes or two looks at *)
(* the flag and the clock.  At most one parent works in the directory: the *)
(* flock is taken in the constructor and given back on every exit, and pc  *)
(* is "idle" exactly when nobody holds it.                                 *)
(***************************************************************************)
EXTENDS Integers, Sequences, FiniteSets, Functions

CONSTANTS
    Jobs,           \* job keys
    Produces,       \* jobs that declare an output file
    Forking,        \* jobs whose process starts others in its group
    Plans,          \* the job lists run() may be given
    Slots,          \* limits.jobs
    Retries,        \* limits.retries
    Contents,       \* report bytes a child may produce
    None, NoIndex,  \* no report, configuration or identity; no index.json
    Configs,        \* job configurations (their digests)
    ChildFailures,  \* how a child that nobody kills may fail
    KillCauses,     \* per-child bounds the parent may find exceeded
    RunDeadline,    \* whether limits.run_wall_seconds is set
    Faults,         \* what may go wrong around the parent
    MaxRuns         \* bound of the model on the runs in the directory

\* failure_kind values, and what the parent itself kills for.
ReapedKinds == {"exit", "crash", "wall", "output_limit", "memory_limit",
                "missing_output", "report_invalid"}
BoundKinds == {"wall", "output_limit", "memory_limit"}
Causes == BoundKinds \cup {"cancel", "run_deadline"}
Kinds == ReapedKinds \cup {"none", "spawn_error", "run_deadline", "interrupted"}
RetryableKinds == {"exit", "crash", "wall", "spawn_error"}
Statuses == {"completed", "failed", "timeout", "cancelled", "skipped"}
RunStatuses == {"complete", "partial", "failed", "cancelled"}
FaultKinds == {"kill", "write_io", "journal_io", "unreapable", "big_scratch"}

ASSUME JobAssumption ==
    /\ IsFiniteSet(Jobs) /\ Produces \subseteq Jobs /\ Forking \subseteq Jobs
    /\ Plans \subseteq Seq(Jobs)
    \* run() refuses an empty plan and duplicate keys
    /\ \A p \in Plans : /\ p # <<>>
                        /\ IsInjective(p)

ASSUME BoundAssumption ==
    /\ Slots \in Nat \ {0} /\ Retries \in Nat /\ MaxRuns \in Nat
    /\ RunDeadline \in BOOLEAN

VARIABLES
    \* --- on disk: survives the parent ------------------------------------
    made,       \* reports/ and scratch/ exist
    tail,       \* last line of journal.jsonl: "absent", "whole" or "torn"
    corrupt,    \* journal.jsonl has an unparsable line before its last one
    reports,    \* reports/<key>.json
    index,      \* index.json
    identity,   \* configuration named by identity.json, or None
    orphans,    \* jobs of which an attempt's own process runs unwatched
    strays,     \* (observer) jobs of this run of which a descendant still runs
                \* although the attempt itself was reaped
    \* --- the parent -------------------------------------------------------
    pc,         \* where run() is
    runs,       \* parents so far
    resume,     \* self.resume
    plan,       \* jobs, in order
    config,     \* configuration of the plan's jobs
    presumed,   \* jobs whose prior report was verified
    pending,    \* queue of jobs
    attempts,   \* attempts of each job
    child,      \* the attempt of each job that is active or finished
    finished,   \* reaped jobs in reaping order
    records,    \* terminal record of each job
    cancel,     \* self._cancel_requested
    deadline,   \* run_deadline: "none", "ahead" or "past"
    outcome,    \* status of the run once it is known, or "none"
    aborted     \* an exception is leaving run()

disk == <<made, tail, corrupt, reports, index, identity>>
setting == <<runs, resume, plan, config, presumed>>
work == <<pending, attempts, child, finished, records>>
flags == <<cancel, deadline, outcome, aborted>>
left == <<orphans, strays>>
vars == <<disk, left, pc, setting, work, flags>>

NoChild == [life |-> "none", cause |-> "none", kind |-> "none", report |-> None]

Absent == [status |-> "absent", kind |-> "none", attempts |-> 0,
           report |-> None, config |-> None]

Children ==
    [life : {"none", "alive", "exited", "finished"}, cause : Causes \cup {"none"},
     kind : ReapedKinds \cup {"none"}, report : Contents \cup {None}]

Records ==
    [status : Statuses \cup {"absent"}, kind : Kinds, attempts : Nat,
     report : Contents \cup {None}, config : Configs \cup {None}]

Indexes == [status : RunStatuses, jobs : [Jobs -> Records]]

ASSUME ValueAssumption ==
    /\ None \notin Contents /\ NoIndex \notin Indexes
    /\ ChildFailures \subseteq ReapedKinds
    /\ KillCauses \subseteq BoundKinds
    /\ Faults \subseteq FaultKinds

Planned == Range(plan)

\* Children started and not yet reaped: `active`.
Active == {j \in Jobs : child[j].life \in {"alive", "exited"}}

\* The processes of active children that are still running.
Alive == {j \in Jobs : child[j].life = "alive"}

(***************************************************************************)
(* Starting a run.                                                         *)
(***************************************************************************)

Fresh(j) == [j2 \in Jobs |-> j]

Init ==
    /\ made = FALSE /\ tail = "absent" /\ corrupt = FALSE
    /\ reports = Fresh(None)
    /\ index = NoIndex /\ identity = None /\ orphans = {} /\ strays = {}
    /\ pc = "idle" /\ runs = 0 /\ resume = FALSE
    /\ plan = <<>> /\ config = None /\ presumed = {}
    /\ pending = <<>> /\ attempts = Fresh(0) /\ child = Fresh(NoChild)
    /\ finished = <<>> /\ records = Fresh(Absent)
    /\ cancel = FALSE /\ deadline = "none" /\ outcome = "none" /\ aborted = FALSE

\* What run() keeps in memory is gone when it returns, raises or is killed.
Forget ==
    /\ pc' = "idle" /\ resume' = FALSE /\ plan' = <<>> /\ config' = None
    /\ presumed' = {} /\ pending' = <<>> /\ attempts' = Fresh(0)
    /\ child' = Fresh(NoChild) /\ finished' = <<>> /\ records' = Fresh(Absent)
    /\ cancel' = FALSE /\ deadline' = "none" /\ outcome' = "none" /\ aborted' = FALSE
    /\ strays' = {} /\ UNCHANGED runs

\* Supervisor(out_dir, resume=r): the claim is taken last.
Construct(r) ==
    /\ pc = "idle" /\ runs < MaxRuns
    /\ pc' = "claimed" /\ runs' = runs + 1 /\ resume' = r
    /\ UNCHANGED <<disk, left, plan, config, presumed, work, flags>>

\* Mutant: a first run does not look for an earlier one.
DirectoryFitsUnlooked == resume => index # NoIndex

\* _setup_dirs refuses: resume needs an index, a first run an empty directory.
DirectoryFits ==
    IF resume THEN index # NoIndex ELSE index = NoIndex /\ tail = "absent" /\ ~made

Refuse ==
    /\ pc = "claimed" /\ ~DirectoryFits
    /\ Forget
    /\ UNCHANGED <<disk, orphans>>

SetUp(p, k) ==
    /\ pc = "claimed" /\ DirectoryFits
    /\ pc' = "ready" /\ plan' = p /\ config' = k /\ made' = TRUE
    /\ UNCHANGED <<tail, corrupt, reports, index, identity, left, runs,
                   resume, presumed, work, flags>>

\* _resume_lookup finds the prior report on disk as the index records it.
Reusable(j) ==
    /\ index.jobs[j].status = "completed"
    /\ index.jobs[j].report # None
    /\ index.jobs[j].report = reports[j]

\* Mutant: only a report that no longer verifies is asked for its configuration.
ConfigChangedLate ==
    \E j \in Planned : ~Reusable(j) /\ index.jobs[j].status = "completed"
                        /\ index.jobs[j].config # config

\* A job recorded completed under another configuration refuses the resume.
ConfigChanged ==
    \E j \in Planned : index.jobs[j].status = "completed" /\ index.jobs[j].config # config

RefuseConfig ==
    /\ pc = "ready" /\ resume /\ ConfigChanged
    /\ Forget
    /\ UNCHANGED <<disk, orphans>>

\* The resume pre-pass, then the journal is opened and its first lines written:
\* a torn last line is continued, not ended, by the first of them.
Begin ==
    /\ pc = "ready" /\ (resume => ~ConfigChanged)
    /\ pc' = "refill"
    /\ presumed' = IF resume THEN {j \in Planned : Reusable(j)} ELSE {}
    /\ tail' = "whole" /\ corrupt' = (corrupt \/ tail = "torn")
    /\ pending' = plan
    /\ cancel' = FALSE
    /\ deadline' = IF RunDeadline THEN "ahead" ELSE "none"
    /\ UNCHANGED <<made, reports, index, identity, left, runs, resume, plan, config,
                   attempts, child, finished, records, outcome, aborted>>

(***************************************************************************)
(* Refill: jobs leave the queue while there is a slot for them.            *)
(***************************************************************************)

MayStart ==
    /\ pc = "refill" /\ pending # <<>>
    /\ Cardinality(Active) < Slots
    /\ ~cancel /\ deadline # "past"

Record(status, kind, n, report) ==
    [status |-> status, kind |-> kind, attempts |-> n, report |-> report,
     config |-> config]

\* Mutant: one retry more than allowed.
MayRetryOnceMore(record, n) ==
    /\ record.status \in {"failed", "timeout"}
    /\ record.kind \in RetryableKinds
    /\ n <= Retries + 1
    /\ deadline # "past" /\ ~cancel

MayRetry(record, n) ==
    /\ record.status \in {"failed", "timeout"}
    /\ record.kind \in RetryableKinds
    /\ n <= Retries
    /\ deadline # "past" /\ ~cancel

\* The queue after a job with this record was settled: a retry goes first.
Requeued(queue, j, record, n) ==
    IF MayRetry(record, n) THEN <<j>> \o queue ELSE queue

\* A terminal line is journaled and the record kept for the index.
Note(j, record) == records' = [records EXCEPT ![j] = record]

SkipVerified ==
    /\ MayStart
    /\ LET j == Head(pending) IN
        /\ j \in presumed
        /\ Note(j, Record("skipped", "none", 0, index.jobs[j].report))
    /\ pending' = Tail(pending)
    /\ UNCHANGED <<disk, left, pc, setting, attempts, child, finished, flags>>

Spawn ==
    /\ MayStart
    /\ LET j == Head(pending) IN
        /\ j \notin presumed
        /\ attempts' = [attempts EXCEPT ![j] = @ + 1]
        /\ child' = [child EXCEPT ![j] = [NoChild EXCEPT !.life = "alive"]]
    /\ pending' = Tail(pending)
    /\ UNCHANGED <<disk, left, pc, setting, finished, records, flags>>

\* An OSError between the fork and the return of _spawn is a spawn error too:
\* if it came from the journal line, the process is running and forgotten.
SpawnFails ==
    /\ MayStart
    /\ LET j == Head(pending)
           n == attempts[j] + 1
           record == Record("failed", "spawn_error", n, None)
       IN  /\ j \notin presumed
           /\ attempts' = [attempts EXCEPT ![j] = n]
           /\ Note(j, record)
           /\ pending' = Requeued(Tail(pending), j, record, n)
           /\ \/ UNCHANGED orphans
              \/ "journal_io" \in Faults /\ orphans' = orphans \cup {j}
    /\ UNCHANGED <<disk, strays, pc, setting, child, finished, flags>>

\* Mutant: a run without children left goes straight to its end.
RefillDoneUnswept ==
    /\ pc = "refill" /\ ~MayStart
    /\ pc' = IF Active = {} THEN "closing" ELSE "poll"
    /\ UNCHANGED <<disk, left, setting, work, flags>>

RefillDone ==
    /\ pc = "refill" /\ ~MayStart
    /\ pc' = IF Active = {} THEN "sweep" ELSE "poll"
    /\ UNCHANGED <<disk, left, setting, work, flags>>

(***************************************************************************)
(* Poll: until every child of the batch is reaped or given up.             *)
(***************************************************************************)

\* A child ends by itself: exit 0 with its output (if it declares one) or not.
ChildExits(j, kind, c) ==
    /\ child[j].life = "alive"
    /\ kind = "none" => (c # None <=> j \in Produces)
    /\ kind # "none" => c = None
    /\ child' = [child EXCEPT ![j].life = "exited", ![j].kind = kind, ![j].report = c]
    /\ UNCHANGED <<disk, left, pc, setting, pending, attempts, finished, records,
                   flags>>

\* The last child of a batch to be reaped ends the poll loop.
Reaped(j) ==
    /\ finished' = Append(finished, j)
    /\ pc' = IF Active = {j} THEN "settle" ELSE "poll"

\* A descendant of j keeps running.
Strays(j) == j \in Forking /\ strays' = strays \cup {j} /\ UNCHANGED orphans

\* Mutant: a child that ended by itself is not asked for its descendants.
EndGroupUnasked(j) == UNCHANGED left \/ Strays(j)

\* _cleanup_strays: what outlives its leader gets SIGTERM, then SIGKILL, unless
\* a cancel was asked for meanwhile or the kernel cannot end it.
EndGroup(j) ==
    \/ UNCHANGED left
    \/ (cancel \/ "unreapable" \in Faults) /\ Strays(j)

Reap(j) ==
    /\ pc = "poll" /\ child[j].life = "exited"
    /\ child' = [child EXCEPT ![j].life = "finished"]
    /\ EndGroup(j)
    /\ Reaped(j)
    /\ UNCHANGED <<disk, setting, pending, attempts, records, flags>>

\* Mutant: the wall deadline is not looked at.
MayKillOnRequest(cause) ==
    \/ cause = "cancel" /\ cancel
    \/ cause = "run_deadline" /\ deadline = "past"

MayKill(cause) ==
    \/ cause = "cancel" /\ cancel
    \/ cause = "run_deadline" /\ deadline = "past"
    \/ cause \in KillCauses

\* Mutant: a kill that waits only for SIGTERM leaves the process running.
EndProcessAfterTerm(j) == orphans' = orphans \cup {j} /\ UNCHANGED strays

\* _terminate_group: SIGTERM to the group; a leader reaped within the grace ends
\* it there, whether or not its descendants obeyed; otherwise SIGKILL ends the
\* group, unless the kernel cannot reap the leader and the parent gives up.
EndProcess(j) ==
    \/ UNCHANGED left
    \/ Strays(j)
    \/ /\ "unreapable" \in Faults /\ child[j].life = "alive"
       /\ orphans' = orphans \cup {j} /\ UNCHANGED strays

Kill(j, cause) ==
    /\ pc = "poll" /\ j \in Active
    /\ MayKill(cause)
    /\ child' = [child EXCEPT ![j].life = "finished", ![j].cause = cause]
    /\ EndProcess(j)
    /\ Reaped(j)
    /\ UNCHANGED <<disk, setting, pending, attempts, records, flags>>

(***************************************************************************)
(* Settle: the batch is classified in reaping order.                       *)
(***************************************************************************)

\* Mutant: the kind of a failure is taken for its status.
StatusOfKind(kind) == kind

StatusOf(kind) == IF kind \in {"wall", "run_deadline"} THEN "timeout" ELSE "failed"

\* Why the parent killed the child comes before how it ended.
Classify(c) ==
    IF c.cause = "cancel" THEN [status |-> "cancelled", kind |-> "none"]
    ELSE IF c.cause # "none" THEN [status |-> StatusOf(c.cause), kind |-> c.cause]
    ELSE IF c.kind # "none" THEN [status |-> StatusOf(c.kind), kind |-> c.kind]
    ELSE [status |-> "completed", kind |-> "none"]

HasReport(j) == Classify(child[j]).status = "completed" /\ j \in Produces

\* _commit_report: temporary sibling, fsync, rename.
CommitReport ==
    /\ pc = "settle" /\ HasReport(Head(finished))
    /\ LET j == Head(finished) IN reports' = [reports EXCEPT ![j] = child[j].report]
    /\ pc' = "committed"
    /\ UNCHANGED <<made, tail, corrupt, index, identity, left, setting, work,
                   flags>>

\* A completed job whose scratch grew too large fails; its report stays.
Verdicts(j) ==
    LET v == Classify(child[j])
    IN  {v} \cup IF v.status = "completed" /\ "big_scratch" \in Faults
                     THEN {[status |-> "failed", kind |-> "output_limit"]} ELSE {}

\* child_reaped, job_terminal and perhaps job_retry are journaled.
SettleHead ==
    /\ finished # <<>>
    /\ \/ pc = "committed"
       \/ pc = "settle" /\ ~HasReport(Head(finished))
    /\ \E v \in Verdicts(Head(finished)) :
        LET j == Head(finished)
            report == IF pc = "committed" THEN child[j].report ELSE None
            record == Record(v.status, v.kind, attempts[j], report)
        IN  /\ Note(j, record)
            /\ pending' = Requeued(pending, j, record, attempts[j])
            /\ child' = [child EXCEPT ![j] = NoChild]
    /\ finished' = Tail(finished)
    /\ pc' = IF Len(finished) = 1 THEN "refill" ELSE "settle"
    /\ UNCHANGED <<disk, left, setting,
                   attempts, flags>>

(***************************************************************************)
(* Sweep and publication.                                                  *)
(***************************************************************************)

SweepRecord(j) ==
    IF cancel THEN Record("cancelled", "none", 0, None)
    ELSE Record("timeout", "run_deadline", 0, None)

\* A job still queued gets a terminal record of its own.
Sweep ==
    /\ pc = "sweep" /\ pending # <<>>
    /\ Note(Head(pending), SweepRecord(Head(pending)))
    /\ pending' = Tail(pending)
    /\ UNCHANGED <<disk, left, pc, setting, attempts, child, finished, flags>>

\* No planned job may lack a terminal record.
SweepDone ==
    /\ pc = "sweep" /\ pending = <<>>
    /\ records' = [j \in Jobs |->
            IF j \in Planned /\ records[j] = Absent
                THEN Record("failed", "interrupted", attempts[j], None)
                ELSE records[j]]
    /\ pc' = "closing"
    /\ UNCHANGED <<disk, left, setting, pending, attempts, child, finished, flags>>

\* _run_status over the records there are.
RunStatus ==
    LET some(S) == \E j \in Planned : records[j].status \in S
    IN  IF cancel THEN "cancelled"
        ELSE IF ~some({"absent", "failed", "timeout", "cancelled"}) THEN "complete"
        ELSE IF ~some({"completed", "skipped"}) /\ some({"failed", "timeout"}) THEN "failed"
        ELSE "partial"

\* run_terminal is with the status the index will carry.
Close ==
    /\ pc = "closing"
    /\ pc' = "publish" /\ outcome' = RunStatus
    /\ UNCHANGED <<disk, left, setting, work, cancel, deadline, aborted>>

\* index.json is replaced; an exception on its way out ends the run here.
Publish ==
    /\ pc = "publish"
    /\ index' = [status |-> outcome, jobs |-> records]
    /\ IF aborted
        THEN Forget
        ELSE /\ pc' = "identity"
             /\ UNCHANGED <<strays, setting, work, flags>>
    /\ UNCHANGED <<made, tail, corrupt, reports, identity, orphans>>

\* The corpus wrapper names the identity of the run, then gives up the claim.
PublishIdentity ==
    /\ pc = "identity"
    /\ identity' = config
    /\ Forget
    /\ UNCHANGED <<made, tail, corrupt, reports, index, orphans>>

(***************************************************************************)
(* What may happen around the parent at any time.                          *)
(***************************************************************************)

\* SIGINT, SIGTERM or request_cancel() while the handlers are installed.
Cancel ==
    /\ pc \notin {"idle", "claimed", "ready"} /\ ~cancel
    /\ cancel' = TRUE
    /\ UNCHANGED <<disk, left, pc, setting, work, deadline, outcome, aborted>>

DeadlinePasses ==
    /\ deadline = "ahead"
    /\ deadline' = "past"
    /\ UNCHANGED <<disk, left, pc, setting, work, cancel, outcome, aborted>>

\* An attempt's process left behind by its parent.
LeftBehind == orphans' = orphans \cup Alive

\* The parent dies; a journal line being written may be torn.
Killed ==
    /\ "kill" \in Faults /\ pc # "idle"
    /\ LeftBehind
    /\ tail' \in {tail} \cup IF pc = "claimed" THEN {} ELSE {"torn"}
    /\ Forget
    /\ UNCHANGED <<made, corrupt, reports, index, identity>>

\* A journal write raises inside the run: only its finally clause still runs.
JournalFails ==
    /\ "journal_io" \in Faults
    /\ pc \in {"refill", "poll", "settle", "committed", "sweep"}
    /\ LeftBehind
    /\ pc' = "closing" /\ aborted' = TRUE
    /\ UNCHANGED <<disk, strays, setting, work, cancel, deadline, outcome>>

\* The commit of a report raises: the run is over for every other job too.
CommitFails ==
    /\ "write_io" \in Faults
    /\ pc = "settle" /\ HasReport(Head(finished))
    /\ LeftBehind
    /\ pc' = "closing" /\ aborted' = TRUE
    /\ UNCHANGED <<disk, strays, setting, work, cancel, deadline, outcome>>

\* The last journal line, the index or the identity cannot be written.
ClosingFails ==
    /\ \/ "journal_io" \in Faults /\ pc = "closing"
       \/ "write_io" \in Faults /\ pc \in {"publish", "identity"}
    /\ Forget
    /\ UNCHANGED <<disk, orphans>>

(***************************************************************************)
(* Specification.                                                          *)
(***************************************************************************)

\* What the parent does by itself once it runs.
Parent ==
    \/ Refuse \/ RefuseConfig \/ Begin
    \/ SkipVerified \/ Spawn \/ RefillDone
    \/ \E j \in Jobs : Reap(j) \/ \E cause \in Causes : Kill(j, cause)
    \/ CommitReport \/ SettleHead
    \/ Sweep \/ SweepDone \/ Close \/ Publish \/ PublishIdentity

Next ==
    \/ \E r \in BOOLEAN : Construct(r)
    \/ \E p \in Plans, k \in Configs : SetUp(p, k)
    \/ Parent
    \/ SpawnFails
    \/ \E j \in Jobs, kind \in ChildFailures \cup {"none"}, c \in Contents \cup {None} :
            ChildExits(j, kind, c)
    \/ Cancel \/ DeadlinePasses
    \/ Killed \/ JournalFails \/ CommitFails \/ ClosingFails

Spec == Init /\ [][Next]_vars

\* run() is a loop that goes on while there is something to do, and the poll
\* loop reads the clock on every tick, so a child that never ends is killed for
\* its wall deadline at last.  Nothing else is assumed: children need not end.
FairSpec == Spec /\ WF_vars(Parent)

(***************************************************************************)
(* Properties.                                                             *)
(***************************************************************************)

TypeOK ==
    /\ made \in BOOLEAN /\ tail \in {"absent", "whole", "torn"} /\ corrupt \in BOOLEAN
    /\ reports \in [Jobs -> Contents \cup {None}]
    /\ index \in Indexes \cup {NoIndex}
    /\ identity \in Configs \cup {None}
    /\ orphans \subseteq Jobs /\ strays \subseteq Jobs
    /\ pc \in {"idle", "claimed", "ready", "refill", "poll", "settle", "committed",
               "sweep", "closing", "publish", "identity"}
    /\ runs \in 0..MaxRuns /\ resume \in BOOLEAN
    /\ plan \in Plans \cup {<<>>} /\ config \in Configs \cup {None}
    /\ presumed \subseteq Jobs
    /\ pending \in Seq(Jobs) /\ attempts \in [Jobs -> Nat]
    /\ child \in [Jobs -> Children] /\ finished \in Seq(Jobs)
    /\ records \in [Jobs -> Records]
    /\ cancel \in BOOLEAN /\ deadline \in {"none", "ahead", "past"}
    /\ outcome \in RunStatuses \cup {"none"} /\ aborted \in BOOLEAN

\* Whatever happens to the parent, an index is only published over reports that
\* are on disk as it names them, a report recorded completed (not one recorded
\* skipped: see SuccessfulStays) that still verifies is never rewritten nor adopted
\* by a run of another configuration, and the identity follows the index (atomic
\* commits, resume pre-pass, order of writes).
Directory == INSTANCE RunDirectory
KeepsPromises == Directory!DirSpec

\* CLI_AND_REGRESSION.md says that a resume preserves successful outputs byte for
\* byte: a report the index names as it is on disk, of a job it records as
\* completed or as skipped because its report verified, is not rewritten.
SuccessfulStays ==
    [][\A j \in Jobs :
        (/\ index # NoIndex
         /\ index.jobs[j].status \in {"completed", "skipped"}
         /\ index.jobs[j].report = reports[j])
            => reports'[j] = reports[j]]_vars

\* The index of a run names a terminal state of every job it was given, reached
\* through its own attempts, the sweep or the resume and never by default.
IndexCoversPlan ==
    pc = "publish" =>
        \A j \in Planned : records[j].status \in Statuses /\ records[j].kind # "interrupted"

\* One transient retry, and a job leaves the queue, the batch or the settled
\* records for good: it is in one of them only, completed jobs never run again.
RetriesBounded ==
    /\ IsInjective(pending) /\ IsInjective(finished)
    /\ \A j \in Jobs :
        /\ attempts[j] <= 1 + Retries
        /\ child[j].life = "finished" <=> j \in Range(finished)
        /\ child[j].life # "none" => j \notin Range(pending)
        /\ records[j].status \in {"completed", "skipped", "cancelled"} =>
                child[j].life = "none" /\ j \notin Range(pending)

\* Every child a run started is gone when the batch is settled, and there are
\* never more of them than slots.  What a child started goes with it unless the
\* parent cut the child short: once the index is written, only a job of a
\* cancelled run, one that was retried or one that did not complete may have left
\* a descendant running.
NothingLeftRunning ==
    /\ orphans = {}
    /\ pc \notin {"refill", "poll"} => Alive = {}
    /\ Cardinality(Active) <= Slots
    /\ pc = "publish" /\ ~cancel =>
        \A j \in strays : records[j].status # "completed" \/ attempts[j] > 1

\* A run comes to an end although no child ever has to.
RunReturns == pc = "refill" ~> pc = "idle"
=============================================================================
