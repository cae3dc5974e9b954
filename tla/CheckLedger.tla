---------------------------- MODULE CheckLedger ----------------------------
(***************************************************************************)
(* The per-check ledger of a run: packages/runtime/src/checks.ts.          *)
(*                                                                         *)
(* A plan is a set of checks.  Each check has a capability and a page and  *)
(* a position in the plan; a dependency map says which checks must have    *)
(* completed before it may start.  A ledger is a function from the planned *)
(* checks to records; the operators below are the pure steps the           *)
(* coordinator composes.  Lists of prerequisites are sets: their order     *)
(* only picks the prerequisite that a skip reason names.                   *)
(***************************************************************************)
EXTENDS Integers, Sequences, FiniteSets

CONSTANTS
    Checks,             \* every check id a plan may name
    Capability,         \* capability of each check (CheckPlan.capability)
    PageOf,             \* page of each check (CheckPlan.page_index)
    PlanIndex,          \* position of each check in the plan array
    MaxActiveRenders,   \* limits.maxActiveRenders
    MaxOcrWorkers       \* limits.maxOcrWorkers

Capabilities == {"native_text", "render", "ocr", "alignment"}

ASSUME CheckAssumption ==
    /\ IsFiniteSet(Checks)
    /\ Capability \in [Checks -> Capabilities]
    /\ PageOf \in [Checks -> Nat]
    /\ PlanIndex \in [Checks -> Nat]
    /\ \A c, d \in Checks : PlanIndex[c] = PlanIndex[d] => c = d
    /\ MaxActiveRenders \in Nat \ {0}
    /\ MaxOcrWorkers \in Nat \ {0}

(***************************************************************************)
(* Dependencies.                                                           *)
(***************************************************************************)

\* The default DAG: OCR needs the render of its page, alignment needs the
\* readings (text layer and OCR) of its page.
DeriveDependencies(plan) ==
    [c \in plan |->
        {d \in plan :
            /\ PageOf[d] = PageOf[c]
            /\ \/ Capability[c] = "ocr" /\ Capability[d] = "render"
               \/ /\ Capability[c] = "alignment"
                  /\ Capability[d] \in {"native_text", "ocr"}}]

\* deps.get(id) ?? []
Needs(deps, c) == IF c \in DOMAIN deps THEN deps[c] ELSE {}

\* What the propagation loop of validateDependencies settles: the least set
\* of map entries that contains every entry whose prerequisites it contains.
\* A check without an entry of its own is not reached by this loop.
SettledEntries(deps) ==
    {c \in DOMAIN deps :
        \A S \in SUBSET (DOMAIN deps) :
            (\A d \in DOMAIN deps : deps[d] \subseteq S => d \in S) => c \in S}

\* validateDependencies: ids are known, nothing needs itself, and the settled
\* entries together with the checks that need nothing cover the plan.
ValidateDependencies(deps, plan) ==
    /\ DOMAIN deps \subseteq plan
    /\ \A c \in DOMAIN deps : deps[c] \subseteq plan \ {c}
    /\ plan \subseteq SettledEntries(deps) \cup {c \in plan : Needs(deps, c) = {}}

(***************************************************************************)
(* Records.                                                                *)
(***************************************************************************)

Phases == {"queued", "running", "terminal"}

TerminalStatuses ==
    {"completed", "unsupported", "timeout", "cancelled", "failed", "skipped"}

NoJob == 0

\* attempts is the length of the attempts list; produced is Len(retained);
\* unacked is InboundWindow.unackedInbound (accepted minus delivered acks).
NewRecord ==
    [phase |-> "queued", status |-> "none", reason |-> "none", job |-> NoJob,
     attempts |-> 0, retained |-> <<>>, bytes |-> 0, unacked |-> 0]

BuildRecords(plan) == [c \in plan |-> NewRecord]

\* Write the single terminal result and retire the job that produced it.
Terminalize(r, status, reason) ==
    [r EXCEPT !.phase = "terminal",
              !.status = status,
              !.reason = reason,
              !.attempts = IF r.job # NoJob THEN @ + 1 ELSE @,
              !.job = NoJob]

Queued(ck) == {c \in DOMAIN ck : ck[c].phase = "queued"}

Running(ck) == {c \in DOMAIN ck : ck[c].phase = "running"}

Terminal(ck) == {c \in DOMAIN ck : ck[c].phase = "terminal"}

Completed(ck) == {c \in Terminal(ck) : ck[c].status = "completed"}

\* The queued checks with a prerequisite in `ended`.
Blocked(ck, deps, ended) ==
    {c \in Queued(ck) : Needs(deps, c) \cap ended # {}}

\* Mutant: one pass instead of a fixpoint.
SkipsOnePass(ck, deps) == Blocked(ck, deps, Terminal(ck) \ Completed(ck))

\* The checks the skip loop reaches: the least set of queued checks that holds
\* every check with a prerequisite skipped or ended without completing.
Skips(ck, deps) ==
    LET ended == Terminal(ck) \ Completed(ck)
        closed == {S \in SUBSET Queued(ck) : Blocked(ck, deps, ended \cup S) \subseteq S}
    IN  {c \in Queued(ck) : \A S \in closed : c \in S}

PropagateSkips(ck, deps) ==
    LET skipped == Skips(ck, deps)
    IN  [c \in DOMAIN ck |->
            IF c \in skipped
                THEN Terminalize(ck[c], "skipped", "dependency_unmet")
                ELSE ck[c]]

Runnable(ck, deps) ==
    LET done == Completed(ck)
    IN  {c \in Queued(ck) : Needs(deps, c) \subseteq done}

(***************************************************************************)
(* Dispatch.  The coordinator walks the runnable checks in plan order and  *)
(* starts each one its capability has room for, so the checks started are  *)
(* the first ones of each bounded capability.                              *)
(***************************************************************************)

Bounded == {"render", "ocr"}

CapabilityLimit(cap) == IF cap = "render" THEN MaxActiveRenders ELSE MaxOcrWorkers

\* Mutant: a finished check keeps its capability slot.
ActiveEvenIfFinished(ck, cap) ==
    {c \in Running(ck) \cup Terminal(ck) : Capability[c] = cap}

ActiveByCapability(ck, cap) == {c \in Running(ck) : Capability[c] = cap}

\* Checks of c's capability that the walk over `ready` visits before c.
Ahead(ready, c) ==
    {d \in ready : Capability[d] = Capability[c] /\ PlanIndex[d] < PlanIndex[c]}

Startable(ck, deps) ==
    LET ready == Runnable(ck, deps)
    IN  {c \in ready :
            Capability[c] \in Bounded =>
                Cardinality(ActiveByCapability(ck, Capability[c]))
                    + Cardinality(Ahead(ready, c)) < CapabilityLimit(Capability[c])}

\* Job number the walk gives to c when it starts the checks of `started`
\* after `counter` jobs.
JobOf(c, started, counter) ==
    counter + Cardinality({d \in started : PlanIndex[d] <= PlanIndex[c]})

Start(ck, started, counter) ==
    [c \in DOMAIN ck |->
        IF c \in started
            THEN [ck[c] EXCEPT !.phase = "running", !.job = JobOf(c, started, counter)]
            ELSE ck[c]]

(***************************************************************************)
(* Run status from a settled ledger.                                       *)
(***************************************************************************)

ComputeRunStatus(ck, cancelRequested) ==
    IF cancelRequested THEN "cancelled"
    ELSE IF Completed(ck) = DOMAIN ck THEN "complete"
    ELSE IF /\ Completed(ck) = {}
            /\ \E c \in DOMAIN ck : ck[c].status \in {"failed", "timeout"}
         THEN "failed"
         ELSE "partial"
=============================================================================
