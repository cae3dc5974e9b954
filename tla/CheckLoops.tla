---------------------------- MODULE CheckLoops ----------------------------
(***************************************************************************)
(* The loops of checks.ts and of the coordinator's dispatch, as the code   *)
(* runs them, beside the closed forms of CheckLedger that the coordinator  *)
(* module uses.  A state is a ledger with a dependency map; a step is one  *)
(* settlement cascade (skip, then dispatch).                               *)
(***************************************************************************)
EXTENDS CheckLedger

VARIABLES ledger, depMap, counter

loopVars == <<ledger, depMap, counter>>

Size == Cardinality(Checks)

\* The planned ids in plan order, the iteration order of the Maps.
PlanOrder ==
    CHOOSE s \in [1..Size -> Checks] :
        \A i, j \in 1..Size : i < j => PlanIndex[s[i]] < PlanIndex[s[j]]

\* A pass that changes nothing is the last one; there are never more than Size
\* passes before it.
AfterLast(pass) == pass[CHOOSE n \in 0..Size : pass[n + 1] = pass[n]]

\* One pass of validateDependencies over the entries.
SettlePass(settled) ==
    LET after[i \in 0..Size] ==
            IF i = 0 THEN settled
            ELSE LET id == PlanOrder[i]
                     known == after[i - 1]
                 IN  IF id \in DOMAIN depMap /\ depMap[id] \subseteq known
                        THEN known \cup {id} ELSE known
    IN  after[Size]

SettleLoop ==
    LET pass[n \in 0..(Size + 1)] == IF n = 0 THEN {} ELSE SettlePass(pass[n - 1])
    IN  AfterLast(pass)

\* One pass of propagateSkips: a check skipped early in the pass already
\* blocks the ones after it.
SkipPass(ck) ==
    LET after[i \in 0..Size] ==
            IF i = 0 THEN ck
            ELSE LET id == PlanOrder[i]
                     now == after[i - 1]
                     unmet == \E d \in Needs(depMap, id) :
                                    now[d].phase = "terminal" /\ now[d].status # "completed"
                 IN  IF now[id].phase = "queued" /\ unmet
                        THEN [now EXCEPT ![id] = Terminalize(@, "skipped", "dependency_unmet")]
                        ELSE now
    IN  after[Size]

SkipLoop(ck) ==
    LET pass[n \in 0..(Size + 1)] == IF n = 0 THEN ck ELSE SkipPass(pass[n - 1])
    IN  AfterLast(pass)

\* dispatchCheck, as far as the ledger shows it.
Begun(r, job) == [r EXCEPT !.phase = "running", !.job = job]

\* dispatchRunnable: the runnable checks are listed first, then each is
\* started if its capability still has room.
Dispatched(ck, n) ==
    LET ready == Runnable(ck, depMap)
        after[i \in 0..Size] ==
            IF i = 0 THEN [ledger |-> ck, counter |-> n]
            ELSE LET id == PlanOrder[i]
                     now == after[i - 1]
                     room == Capability[id] \in Bounded =>
                                Cardinality({c \in Running(now.ledger) : Capability[c] = Capability[id]})
                                    < CapabilityLimit(Capability[id])
                 IN  IF id \in ready /\ room
                        THEN [ledger |-> [now.ledger EXCEPT ![id] = Begun(@, now.counter + 1)],
                              counter |-> now.counter + 1]
                        ELSE now
    IN  after[Size]

\* A check that is queued, running (on a job of its own), done or failed.
Standing(c) ==
    {NewRecord,
     [NewRecord EXCEPT !.phase = "running", !.job = PlanIndex[c]],
     [NewRecord EXCEPT !.phase = "terminal", !.status = "completed", !.attempts = 1],
     [NewRecord EXCEPT !.phase = "terminal", !.status = "failed", !.attempts = 1]}

Ledgers == {l \in [Checks -> UNION {Standing(c) : c \in Checks}] :
                \A c \in Checks : l[c] \in Standing(c)}

DepMaps == UNION {[D -> SUBSET Checks] : D \in SUBSET Checks}

Init ==
    /\ ledger \in Ledgers
    /\ depMap \in DepMaps
    /\ counter = Size

\* One settlement cascade.
Cascade ==
    LET skipped == SkipLoop(ledger)
        out == Dispatched(skipped, counter)
    IN  /\ out.ledger # ledger
        /\ ledger' = out.ledger /\ counter' = out.counter
        /\ UNCHANGED depMap

LoopSpec == Init /\ [][Cascade]_loopVars

\* Every set of checks that keeps itself waiting: each member needs a member.
Acyclic(deps, plan) ==
    \A S \in SUBSET plan : S # {} => \E c \in S : Needs(deps, c) \cap S = {}

\* The skip fixpoint and the dispatch walk of the code compute what the closed
\* forms say, in particular that skips do not depend on plan order and that the
\* checks started are the first ones of each bounded capability; and the
\* fixpoint that validates a dependency map accepts none that would leave a
\* check waiting for ever.
LoopsMatchClosedForms ==
    DOMAIN ledger = Checks =>
        /\ SkipLoop(ledger) = PropagateSkips(ledger, depMap)
        /\ LET started == Startable(ledger, depMap)
           IN  Dispatched(ledger, counter) =
                [ledger |-> Start(ledger, started, counter),
                 counter |-> counter + Cardinality(started)]
        /\ SettleLoop = SettledEntries(depMap)
        /\ ValidateDependencies(depMap, Checks) => Acyclic(depMap, Checks)
=============================================================================
