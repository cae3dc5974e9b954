----------------------------- MODULE OcrReader -----------------------------
(***************************************************************************)
(* The browser OCR adapter (packages/readers-tesseract, reader.ts): one     *)
(* reader, its open handle, its single engine worker, and the operations    *)
(* (prepareModel, open, extract) that overlap on them.  Every await of an   *)
(* operation is a state of its own, in which it can be superseded by a      *)
(* newer operation, closed, cancelled by its caller or reach its deadline,  *)
(* and in which the engine and the raster source answer late or never.      *)
(***************************************************************************)
EXTENDS Naturals, FiniteSets

CONSTANTS
    MaxRetries,     \* transient retries of one extraction
    MaxRunPixels,   \* OCR pixels of one run
    CropPixels,     \* pixels of one crop
    MaxOps,         \* bound of the model: operations begun, closing included
    MaxLeases       \* bound of the model: worker inits begun

ASSUME OcrAssumption ==
    /\ {MaxRetries, MaxRunPixels, MaxOps, MaxLeases} \subseteq Nat
    /\ CropPixels \in Nat \ {0}

VARIABLES
    ops,        \* operation number -> its scope and where it stands
    opSeq,      \* this.opSeq
    handle,     \* the operation that installed this.handle; 0 is null
    closed,     \* this.closed
    leases,     \* lease number -> worker lease
    lease,      \* this.lease; 0 is null
    requests,   \* recognitions the engine works on
    runPixels   \* this.runOcrPixels

ocrReaderVars == <<ops, opSeq, handle, closed, leases, lease, requests, runPixels>>

OcrReaderInit ==
    /\ ops = [o \in {} |-> 0] /\ opSeq = 0
    /\ handle = 0 /\ closed = FALSE
    /\ leases = [l \in {} |-> 0] /\ lease = 0
    /\ requests = {} /\ runPixels = 0

Transient == {"init_crash", "worker_crash"}

Live == {o \in DOMAIN ops : ops[o].pc # "ended"}

\* Operations awaiting the init of l without owning it.
Joiners(l) == {o \in Live : ops[o].pc = "join" /\ ops[o].on = l}

HasWorker(l) == l # 0 /\ leases[l].phase = "kept"

(***************************************************************************)
(* Scopes.                                                                 *)
(***************************************************************************)

Scope(kind, h, pc) ==
    [kind |-> kind, handle |-> h, pc |-> pc, lease |-> 0, on |-> 0, attempt |-> 0,
     aborted |-> FALSE, cancelled |-> FALSE, late |-> FALSE,
     answer |-> 0, next |-> "none", outcome |-> "none"]

\* Fire the terminal signal of every live scope.
Terminated(scopes) ==
    [o \in DOMAIN scopes |->
        IF scopes[o].pc # "ended" THEN [scopes[o] EXCEPT !.aborted = TRUE] ELSE scopes[o]]

\* A new scope supersedes every older one.
BeginScope(kind, h, pc) ==
    /\ ~closed /\ opSeq < MaxOps
    /\ opSeq' = opSeq + 1
    /\ ops' = [o \in DOMAIN ops \cup {opSeq'} |->
                 IF o = opSeq' THEN Scope(kind, h, pc) ELSE Terminated(ops)[o]]

\* The handle o serves: an open's own once it is installed.
ServedHandle(o) ==
    IF ops[o].kind = "open" /\ ops[o].pc # "model" THEN o ELSE ops[o].handle

\* What guard() throws; "none" lets the operation go on.
Guard(o) ==
    IF ops[o].aborted \/ ops[o].cancelled THEN "user_cancel"
    ELSE IF ops[o].late THEN "timeout"
    ELSE IF closed \/ opSeq # o \/ (ServedHandle(o) # 0 /\ handle # ServedHandle(o)) THEN "user_cancel"
    ELSE "none"

\* Mutant: the timer is missing from the race.
InterruptedByCaller(o) == ops[o].aborted \/ ops[o].cancelled

\* The pending await is rejected by the signal, the poll or the timer.
Interrupted(o) == ops[o].aborted \/ ops[o].cancelled \/ ops[o].late

\* endScope: what is left of an operation is how it ended.
Ended(o, outcome) ==
    [Scope(ops[o].kind, 0, "ended") EXCEPT !.outcome = outcome]

Ends(o, outcome) == ops' = [ops EXCEPT ![o] = Ended(o, outcome)]

StatusOf(reason) ==
    CASE reason = "unsupported" -> "unsupported"
      [] reason = "user_cancel" -> "cancelled"
      [] reason = "timeout" -> "timeout"
      [] OTHER -> "failed"

(***************************************************************************)
(* Worker leases.                                                          *)
(***************************************************************************)

\* Abort a lease and terminate the worker it holds.
Retired(ls, l) ==
    [ls EXCEPT ![l].aborted = TRUE,
               ![l].phase = IF @ = "kept" THEN "dropped" ELSE @]

\* destroyLease: the reader's slot is freed only if it still holds l.
DestroyLease(l) ==
    IF l = 0 THEN UNCHANGED <<leases, lease, requests>>
    ELSE /\ leases' = Retired(leases, l)
         /\ lease' = IF lease = l THEN 0 ELSE lease
         /\ requests' = {r \in requests : r.lease # l}

\* A pending init dies with the operation that created it, unless a newer
\* one joined it; an installed worker is the reader's and stays.
Abandon(l) ==
    IF l # 0 /\ Joiners(l) = {} /\ ~HasWorker(l)
    THEN DestroyLease(l) ELSE UNCHANGED <<leases, lease, requests>>

\* The worker init has settled.
EngineSettles(l) ==
    /\ leases[l].phase = "loading"
    /\ \E phase \in {"made", "failed"} : leases' = [leases EXCEPT ![l].phase = phase]
    /\ UNCHANGED <<ops, opSeq, handle, closed, lease, requests, runPixels>>

\* Mutant: the produced worker is installed whatever became of its lease.
SettleHookAlways(l) ==
    /\ leases[l].phase = "made"
    /\ leases' = [leases EXCEPT ![l].phase = "kept"]
    /\ UNCHANGED <<ops, opSeq, handle, closed, lease, requests, runPixels>>

\* The settle hook, the only installer, runs before anyone awaiting the init.
SettleHook(l) ==
    /\ leases[l].phase = "made"
    /\ leases' = [leases EXCEPT ![l].phase =
                    IF ~leases[l].aborted /\ lease = l THEN "kept" ELSE "dropped"]
    /\ UNCHANGED <<ops, opSeq, handle, closed, lease, requests, runPixels>>

(***************************************************************************)
(* Operations begin.                                                       *)
(***************************************************************************)

PrepareModel ==
    /\ BeginScope("prepare", 0, "model")
    /\ UNCHANGED <<handle, closed, leases, lease, requests, runPixels>>

OpenReader ==
    /\ BeginScope("open", 0, "model")
    /\ UNCHANGED <<handle, closed, leases, lease, requests, runPixels>>

\* A closed reader or a foreign handle is refused before it supersedes anyone.
Extract ==
    /\ handle # 0
    /\ BeginScope("extract", handle, "raster")
    /\ UNCHANGED <<handle, closed, leases, lease, requests, runPixels>>

(***************************************************************************)
(* Operations go on.  Each step is one continuation of an await.           *)
(***************************************************************************)

\* Mutant: the key names the check and the attempt only.
JobIdOfCheck(o) == <<ops[o].attempt>>

\* Two jobs of one engine worker never share a key.
JobId(o) == <<o, ops[o].attempt>>

\* recognize() on the worker of l; its answer is awaited.
Recognizing(o, l) ==
    [ops EXCEPT ![o] = [@ EXCEPT !.pc = "recognize", !.on = l, !.answer = 0]]

Asked(o, l) == requests \cup {[lease |-> l, id |-> JobId(o), op |-> o]}

\* The worker of l is there and o is still admitted: open() is done, extract
\* goes on to recognition.
WithWorker(o, l) ==
    IF ops[o].kind = "open"
    THEN /\ Ends(o, "opened") /\ runPixels' = 0
         /\ UNCHANGED requests
    ELSE /\ ops' = Recognizing(o, l) /\ requests' = Asked(o, l)
         /\ UNCHANGED runPixels

\* ensureWorker, up to its await: reuse the worker, join the init that owns
\* the slot, or start one of its own.
EnsureWorker(o) ==
    \/ /\ HasWorker(lease)
       /\ WithWorker(o, lease)
       /\ UNCHANGED <<leases, lease>>
    \/ /\ lease # 0 /\ leases[lease].phase = "loading"
       /\ ops' = [ops EXCEPT ![o] = [@ EXCEPT !.pc = "join", !.on = lease]]
       /\ UNCHANGED <<leases, lease, requests, runPixels>>
    \/ /\ lease \notin {l \in DOMAIN leases : leases[l].phase \in {"kept", "loading"}}
       /\ Cardinality(DOMAIN leases) < MaxLeases
       /\ lease' = Cardinality(DOMAIN leases) + 1
       /\ leases' = [l \in DOMAIN leases \cup {lease'} |->
                        IF l = lease' THEN [aborted |-> FALSE, phase |-> "loading"]
                        ELSE leases[l]]
       /\ ops' = [ops EXCEPT ![o] =
                    [@ EXCEPT !.pc = "init", !.lease = lease', !.on = lease']]
       /\ UNCHANGED <<requests, runPixels>>

\* Mutant: an operation that fails clears the reader's handle.
FailOpenClearing(o) ==
    /\ ops[o].kind # "extract"
    /\ handle' = 0
    /\ Abandon(ops[o].lease)
    /\ Ends(o, "failed")
    /\ UNCHANGED runPixels

\* The catch of open() and prepareModel(): only what this operation installed
\* is retired.
FailOpen(o) ==
    /\ ops[o].kind # "extract"
    /\ handle' = IF handle = o THEN 0 ELSE handle
    /\ Abandon(ops[o].lease)
    /\ Ends(o, "failed")
    /\ UNCHANGED runPixels

\* The catch of extract(): a current operation retires the worker it can no
\* longer trust, and retries once on a fresh one within its deadline.
FailExtract(o, reason) ==
    LET owns   == ~closed /\ opSeq = o
        again  == reason \in Transient /\ owns
                  /\ ops[o].attempt < MaxRetries /\ ~ops[o].late
        destroys == owns /\ reason \in Transient \cup {"timeout", "user_cancel"}
    IN  /\ ops[o].kind = "extract"
        /\ IF destroys
           THEN /\ DestroyLease(lease)
                /\ ops' = [ops EXCEPT ![o] = [@ EXCEPT
                             !.pc = "terminating", !.on = 0, !.lease = 0,
                             !.next = IF again THEN "retry" ELSE StatusOf(reason)]]
           ELSE /\ Abandon(IF ops[o].pc = "init" THEN ops[o].lease ELSE 0)
                /\ Ends(o, StatusOf(reason))
        /\ UNCHANGED <<handle, runPixels>>

Fails(o, reason) == FailOpen(o) \/ FailExtract(o, reason)

\* The awaited work failed, or the await was interrupted.
Rejected(o, reasons) ==
    \/ \E reason \in reasons : Fails(o, reason)
    \/ Interrupted(o) /\ Fails(o, Guard(o))

\* The model is prepared: prepareModel is done, open installs its handle.
ModelPrepared(o) ==
    /\ ops[o].pc = "model"
    /\ \/ /\ Guard(o) = "none" /\ ops[o].kind = "open"
          /\ handle' = o
          /\ EnsureWorker(o)
       \/ /\ Guard(o) = "none" /\ ops[o].kind = "prepare"
          /\ Ends(o, "opened")
          /\ UNCHANGED <<handle, leases, lease, requests, runPixels>>
       \/ Rejected(o, {"missing_model"})
    /\ UNCHANGED <<opSeq, closed>>

\* The named render reader has the raster; its pixels are charged to the run.
RasterReady(o) ==
    /\ ops[o].pc = "raster"
    /\ \/ /\ Guard(o) = "none" /\ runPixels + CropPixels <= MaxRunPixels
          /\ runPixels' = runPixels + CropPixels
          /\ ops' = [ops EXCEPT ![o].pc = "crop"]
          /\ UNCHANGED <<handle, leases, lease, requests>>
       \/ /\ Guard(o) = "none" /\ runPixels + CropPixels > MaxRunPixels
          /\ Fails(o, "resource_limit")
       \/ Rejected(o, {"render_error"})
    /\ UNCHANGED <<opSeq, closed>>

\* The crop is encoded; what the encoder throws may be classified as a crash.
Cropped(o) ==
    /\ ops[o].pc = "crop"
    /\ \/ Guard(o) = "none" /\ EnsureWorker(o) /\ UNCHANGED handle
       \/ Rejected(o, {"render_error", "worker_crash"})
    /\ UNCHANGED <<opSeq, closed>>

\* The init that o created or joined has settled; it also fails, as cancelled,
\* when the model data is removed under it.
WorkerReady(o) ==
    LET l == ops[o].on
    IN  /\ ops[o].pc \in {"init", "join"}
        /\ \/ /\ Guard(o) = "none" /\ HasWorker(l)
              /\ WithWorker(o, l)
              /\ UNCHANGED <<handle, leases, lease>>
           \/ /\ Guard(o) = "none" /\ leases[l].phase = "dropped"
              /\ Fails(o, "worker_crash")
           \/ /\ leases[l].phase = "failed"
              /\ \E reason \in {"init_crash", "missing_model", "user_cancel"} : Fails(o, reason)
           \/ Interrupted(o) /\ Fails(o, Guard(o))
        /\ UNCHANGED <<opSeq, closed>>

\* The engine finishes a job: its answer goes to whoever waits under its key.
EngineAnswers ==
    \E r \in requests :
        /\ requests' = requests \ {r}
        /\ ops' = [o \in DOMAIN ops |->
                    IF ops[o].pc = "recognize" /\ ops[o].on = r.lease /\ JobId(o) = r.id
                    THEN [ops[o] EXCEPT !.answer = r.op] ELSE ops[o]]
        /\ UNCHANGED <<opSeq, handle, closed, leases, lease, runPixels>>

\* The recognition is mapped and emitted, chunk by chunk in one go.  It can
\* also lack blocks or exceed the run's budget of occurrences.
Recognized(o) ==
    /\ ops[o].pc = "recognize"
    /\ \/ /\ Guard(o) = "none" /\ ops[o].answer # 0
          /\ Ends(o, "completed")
          /\ UNCHANGED <<handle, leases, lease, requests, runPixels>>
       \/ /\ Guard(o) = "none" /\ ops[o].answer # 0
          /\ Fails(o, "blocks_unavailable")
       \/ ops[o].answer = 0 /\ Fails(o, "worker_crash")
       \/ Interrupted(o) /\ Fails(o, Guard(o))
    /\ UNCHANGED <<opSeq, closed>>

\* The old worker is gone: the extraction ends, or is attempted once more.
Cleared(o) ==
    /\ ops[o].pc = "terminating"
    /\ \/ /\ ops[o].next # "retry"
          /\ Ends(o, ops[o].next)
          /\ UNCHANGED <<handle, leases, lease, requests, runPixels>>
       \/ /\ ops[o].next = "retry" /\ handle = ops[o].handle /\ Guard(o) = "none"
          /\ ops' = [ops EXCEPT ![o].pc = "raster", ![o].next = "none", ![o].attempt = @ + 1]
          /\ UNCHANGED <<handle, leases, lease, requests, runPixels>>
       \/ /\ ops[o].next = "retry" /\ handle # ops[o].handle
          /\ Fails(o, "unsupported")
       \/ /\ ops[o].next = "retry" /\ handle = ops[o].handle /\ Guard(o) # "none"
          /\ Fails(o, Guard(o))
    /\ UNCHANGED <<opSeq, closed>>

(***************************************************************************)
(* The caller and the clock.                                               *)
(***************************************************************************)

\* close(): invalidate admission, wake every operation, release the worker.
CloseReader ==
    /\ ~closed /\ opSeq < MaxOps
    /\ closed' = TRUE /\ opSeq' = opSeq + 1 /\ handle' = 0
    /\ ops' = Terminated(ops)
    /\ DestroyLease(lease)
    /\ UNCHANGED runPixels

CallerCancels(o) ==
    /\ ops[o].pc # "ended" /\ ops[o].kind # "prepare" /\ ~Interrupted(o)
    /\ ops' = [ops EXCEPT ![o].cancelled = TRUE]
    /\ UNCHANGED <<opSeq, handle, closed, leases, lease, requests, runPixels>>

DeadlinePasses(o) ==
    /\ ops[o].pc # "ended" /\ ~Interrupted(o)
    /\ ops' = [ops EXCEPT ![o].late = TRUE]
    /\ UNCHANGED <<opSeq, handle, closed, leases, lease, requests, runPixels>>

Continues(o) ==
    \/ ModelPrepared(o) \/ RasterReady(o) \/ Cropped(o) \/ WorkerReady(o)
    \/ Recognized(o) \/ Cleared(o)

OcrReaderNext ==
    \/ PrepareModel \/ OpenReader \/ Extract \/ CloseReader
    \/ \E l \in DOMAIN leases : EngineSettles(l) \/ SettleHook(l)
    \/ EngineAnswers
    \/ \E o \in Live : Continues(o) \/ CallerCancels(o) \/ DeadlinePasses(o)

\* An await that was interrupted is rejected; a worker's termination is over.
Unblocks ==
    \E o \in Live :
        /\ Interrupted(o) \/ ops[o].pc = "terminating"
        /\ Continues(o)

Expires == \E o \in Live : DeadlinePasses(o)

(***************************************************************************)
(* Properties.                                                             *)
(***************************************************************************)

\* No worker leaks: an init under way and a worker in service are the ones in
\* the reader's slot, whoever started, joined, gave up or superseded them, and
\* a closed reader has none.
WorkersAreOwned ==
    /\ closed => lease = 0
    /\ \A l \in DOMAIN leases :
        (leases[l].phase = "loading" /\ ~leases[l].aborted) \/ leases[l].phase = "kept" =>
            lease = l

\* A handle handed out stays the reader's until a later open installs its own
\* or the reader closes; operations that fail or are superseded do not take it.
HandleStays ==
    \A o \in DOMAIN ops :
        /\ ops[o].kind = "open" /\ ops[o].outcome = "opened" /\ ~closed
        /\ \A p \in DOMAIN ops : p > o /\ ops[p].kind = "open" => ops[p].pc = "model"
        => handle = o

\* Whatever is superseded, retried or closed takes nothing of another operation.
LeasesAreOwned == WorkersAreOwned /\ HandleStays

\* An extraction never takes the answer of an earlier, superseded one for its
\* own, although both run on the worker they share.
AnswerIsOwn == \A o \in Live : ops[o].answer \in {0, o}

\* Operations that overlap keep their workers, the handle and their answers apart.
OperationsKeepApart == LeasesAreOwned /\ AnswerIsOwn

\* Every operation ends, whether or not engine, model or rasters ever answer.
OperationsEnd == \A o \in 1..MaxOps : o \in Live ~> o \notin Live
=============================================================================
