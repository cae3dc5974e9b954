----------------------- MODULE RunCoordinator_proofs -----------------------
(***************************************************************************)
(* Theorems about the run coordinator for every plan, limit and set of     *)
(* messages: TypeOK, EveryJobWatched, SettledIsQuiet are invariants, no    *)
(* resource is lost, and RunLifecycle is implemented.                      *)
(*                                                                         *)
(* The first three are proved together.  A terminate intent names the      *)
(* check its job serves, so typing needs the binding of jobs to running    *)
(* checks; the binding needs job numbers to be fresh, which is typing      *)
(* again; and a settled run is quiet because leaving it leaves no check    *)
(* running.                                                                *)
(*                                                                         *)
(* The second half builds on them: MessagesAccounted, SlotsAreUsed and     *)
(* EvidenceIsFinal.                                                        *)
(*                                                                         *)
(* The last part is about the session that drives it: ExecutionsFollowRun  *)
(* is an invariant for every order of calls.  The session takes only steps *)
(* of the coordinator, so that all that is shown of it before holds of the *)
(* session too.  Then what the coordinator's steps mean for the session is *)
(* put into one predicate, Progress, which every message, watchdog,        *)
(* release and cancel satisfies; what the session adds on top of it is     *)
(* proved from Progress alone.                                             *)
(***************************************************************************)
EXTENDS InspectionSession, FiniteSetTheorems, TLAPS

(***************************************************************************)
(* The pure ledger steps of checks.ts, for every plan.                     *)
(***************************************************************************)

LEMMA FiniteChecks ==
    ASSUME NEW S, S \subseteq Checks
    PROVE  IsFiniteSet(S) /\ Cardinality(S) \in Nat
BY CheckAssumption, FS_Subset, FS_CardinalityType

(***************************************************************************)
(* deriveDependencies always builds a map validateDependencies accepts: a  *)
(* run started without a caller's map never dies of a dependency cycle.    *)
(***************************************************************************)
THEOREM DerivedMapIsAccepted ==
    \A p \in SUBSET Checks :
        ValidateDependencies(DeriveDependencies(p), p)
<1> SUFFICES ASSUME NEW p \in SUBSET Checks
             PROVE  ValidateDependencies(DeriveDependencies(p), p)
    OBVIOUS
<1> DEFINE dep == DeriveDependencies(p)
<1>1. DOMAIN dep = p
    BY DEF DeriveDependencies
<1>2. \A c \in p : dep[c] \subseteq p \ {c}
    BY CheckAssumption DEF DeriveDependencies, Capabilities
<1>3. ASSUME NEW S \in SUBSET p,
             \A d \in p : dep[d] \subseteq S => d \in S,
             NEW c \in p
      PROVE  c \in S
  <2>1. \A d \in p : Capability[d] \in {"native_text", "render"} => d \in S
      BY <1>3 DEF DeriveDependencies
  <2>2. \A d \in p : Capability[d] = "ocr" => d \in S
      BY <1>3, <2>1 DEF DeriveDependencies
  <2>3. \A d \in p : Capability[d] = "alignment" => d \in S
      BY <1>3, <2>1, <2>2 DEF DeriveDependencies
  <2> QED BY <2>1, <2>2, <2>3, CheckAssumption DEF Capabilities
<1>4. p \subseteq SettledEntries(dep)
    BY <1>1, <1>3 DEF SettledEntries
<1> QED BY <1>1, <1>2, <1>4 DEF ValidateDependencies

(***************************************************************************)
(* Job numbers: the checks one walk starts get distinct numbers, all new.  *)
(***************************************************************************)
LEMMA JobNumbers ==
    ASSUME NEW started, started \subseteq Checks, NEW n \in Nat
    PROVE  /\ \A c \in started :
                /\ JobOf(c, started, n) \in (n + 1)..(n + Cardinality(started))
                /\ JobOf(c, started, n) \in Nat \ {0}
           /\ \A c, d \in started :
                JobOf(c, started, n) = JobOf(d, started, n) => c = d
<1> DEFINE upTo(c) == {d \in started : PlanIndex[d] <= PlanIndex[c]}
<1> DEFINE rank(c) == Cardinality(upTo(c))
<1>1. IsFiniteSet(started) /\ Cardinality(started) \in Nat
    BY FiniteChecks
<1>2. \A c \in started : PlanIndex[c] \in Nat
    BY CheckAssumption
<1>3. ASSUME NEW c \in started
      PROVE  /\ IsFiniteSet(upTo(c)) /\ rank(c) \in Nat
             /\ rank(c) <= Cardinality(started)
             /\ rank(c) # 0
  <2>1. upTo(c) \in SUBSET started /\ c \in upTo(c)
      BY <1>2
  <2> HIDE DEF upTo
  <2> QED BY <1>1, <2>1, FS_Subset, FS_CardinalityType, FS_EmptySet
<1>4. ASSUME NEW c \in started, NEW d \in started, PlanIndex[c] < PlanIndex[d]
      PROVE  rank(c) # rank(d)
  <2>1. upTo(c) \in SUBSET upTo(d) /\ d \in upTo(d) /\ d \notin upTo(c)
      BY <1>2, <1>4
  <2>2. IsFiniteSet(upTo(d))
      BY <1>3
  <2> HIDE DEF upTo
  <2> QED BY <2>1, <2>2, FS_Subset
<1>5. \A c \in started : JobOf(c, started, n) = n + rank(c)
    BY DEF JobOf
<1> HIDE DEF upTo, rank
<1>6. ASSUME NEW c \in started
      PROVE  /\ JobOf(c, started, n) \in (n + 1)..(n + Cardinality(started))
             /\ JobOf(c, started, n) \in Nat \ {0}
    BY <1>1, <1>3, <1>5
<1>7. ASSUME NEW c \in started, NEW d \in started,
             JobOf(c, started, n) = JobOf(d, started, n)
      PROVE  c = d
  <2>1. rank(c) = rank(d)
      BY <1>3, <1>5, <1>7
  <2>2. PlanIndex[c] = PlanIndex[d]
      BY <2>1, <1>2, <1>4
  <2> QED BY <2>2, CheckAssumption
<1> QED BY <1>6, <1>7

LEMMA StartableQueued ==
    ASSUME NEW ck, NEW dep
    PROVE  /\ Startable(ck, dep) \subseteq Queued(ck)
           /\ Startable(ck, dep) \subseteq DOMAIN ck
BY DEF Startable, Runnable, Queued

LEMMA SkipsQueued ==
    ASSUME NEW ck, NEW dep
    PROVE  Skips(ck, dep) \subseteq Queued(ck)
BY DEF Skips

(***************************************************************************)
(* The first and the last check of a set, in plan order.                   *)
(***************************************************************************)
LEMMA NatMin ==
    ASSUME NEW T, T \subseteq Nat, T # {}
    PROVE  \E x \in T : \A y \in T : x <= y
<1>1. \E x \in T : \A y \in T : <<y, x>> \notin OpToRel(<, Nat)
    BY NatLessThanWellFounded, WFMin
<1>2. \A x, y \in Nat : x < y => <<x, y>> \in OpToRel(<, Nat)
    BY DEF OpToRel
<1>3. \E x \in T : \A y \in T : ~(y < x)
    BY <1>1, <1>2
<1> QED BY <1>3

LEMMA FirstCheck ==
    ASSUME NEW S, S \subseteq Checks, S # {}
    PROVE  \E c \in S : \A d \in S : PlanIndex[c] <= PlanIndex[d]
<1> DEFINE T == {PlanIndex[c] : c \in S}
<1>1. T \subseteq Nat /\ T # {}
    BY CheckAssumption
<1>2. PICK x \in T : \A y \in T : x <= y
    BY <1>1, NatMin
<1> QED BY <1>2

LEMMA LastCheck ==
    ASSUME NEW S, S \subseteq Checks, S # {}
    PROVE  \E c \in S : \A d \in S : PlanIndex[d] <= PlanIndex[c]
<1> DEFINE below(c) == {d \in S : PlanIndex[d] < PlanIndex[c]}
           rest(c) == Cardinality(S) - Cardinality(below(c))
           T == {rest(c) : c \in S}
<1>1. IsFiniteSet(S) /\ Cardinality(S) \in Nat /\ \A c \in S : PlanIndex[c] \in Nat
    BY FiniteChecks, CheckAssumption
<1>2. ASSUME NEW c \in S
      PROVE  /\ IsFiniteSet(below(c)) /\ Cardinality(below(c)) \in Nat
             /\ Cardinality(below(c)) <= Cardinality(S)
  <2>1. below(c) \in SUBSET S
      OBVIOUS
  <2> HIDE DEF below
  <2> QED BY <1>1, <2>1, FS_Subset, FS_CardinalityType
<1>3. ASSUME NEW c \in S, NEW d \in S, PlanIndex[c] < PlanIndex[d]
      PROVE  Cardinality(below(c)) < Cardinality(below(d))
  <2>1. below(c) \in SUBSET below(d) /\ c \in below(d) /\ c \notin below(c)
      BY <1>1, <1>3
  <2> HIDE DEF below
  <2>2. IsFiniteSet(below(d)) /\ Cardinality(below(c)) \in Nat /\ Cardinality(below(d)) \in Nat
      BY <1>2
  <2> QED BY <2>1, <2>2, FS_Subset
<1> HIDE DEF below
<1>4. T \subseteq Nat /\ T # {}
    BY <1>1, <1>2
<1>5. PICK x \in T : \A y \in T : x <= y
    BY <1>4, NatMin
<1>6. PICK c \in S : x = rest(c)
    BY <1>5
<1>7. ASSUME NEW d \in S
      PROVE  PlanIndex[d] <= PlanIndex[c]
  <2>1. rest(c) <= rest(d)
      BY <1>5, <1>6
  <2>2. ~(PlanIndex[c] < PlanIndex[d])
      BY <2>1, <1>1, <1>2, <1>3
  <2> QED BY <2>2, <1>1
<1> QED BY <1>7

(***************************************************************************)
(* The walk over the runnable checks gives out the free slots of a         *)
(* capability, no more, and leaves a runnable check waiting only when it   *)
(* has given out all.                                                      *)
(***************************************************************************)
LEMMA TwoSets ==
    ASSUME NEW S, S \subseteq Checks, NEW T, T \subseteq Checks, S \cap T = {}
    PROVE  /\ Cardinality(S) \in Nat /\ Cardinality(T) \in Nat
           /\ Cardinality(S \cup T) = Cardinality(S) + Cardinality(T)
<1>1. /\ IsFiniteSet(S) /\ Cardinality(S) \in Nat
      /\ IsFiniteSet(T) /\ Cardinality(T) \in Nat
    BY FiniteChecks
<1>2. Cardinality(S \cup T) = Cardinality(S) + Cardinality(T) - Cardinality(S \cap T)
    BY <1>1, FS_Union
<1>3. Cardinality(S \cap T) = 0
    BY FS_EmptySet
<1> QED BY <1>1, <1>2, <1>3

LEMMA WalkFits ==
    ASSUME NEW cap, NEW limit \in Nat,
           NEW ready \in SUBSET Checks, NEW busy \in SUBSET Checks, NEW go \in SUBSET ready,
           busy \cap ready = {},
           Cardinality(busy) <= limit,
           \A c \in ready : c \in go <=>
                Capability[c] = cap /\ Cardinality(busy) + Cardinality(Ahead(ready, c)) < limit
    PROVE  Cardinality(busy \cup go) <= limit
<1>0. /\ Cardinality(busy) \in Nat /\ Cardinality(go) \in Nat
      /\ Cardinality(busy \cup go) = Cardinality(busy) + Cardinality(go)
  <2>1. go \subseteq Checks /\ busy \cap go = {}
      OBVIOUS
  <2> QED BY <2>1, TwoSets
<1>1. CASE go = {}
    BY <1>0, <1>1, FS_EmptySet
<1>2. CASE go # {}
  <2>1. PICK c \in go : \A d \in go : PlanIndex[d] <= PlanIndex[c]
      BY <1>2, LastCheck
  <2>2. go \subseteq Ahead(ready, c) \cup {c}
    <3> SUFFICES ASSUME NEW d \in go, d # c PROVE d \in Ahead(ready, c)
        OBVIOUS
    <3>1. PlanIndex[d] <= PlanIndex[c] /\ PlanIndex[d] # PlanIndex[c]
        BY <2>1, CheckAssumption
    <3>2. PlanIndex[d] \in Nat /\ PlanIndex[c] \in Nat
        BY CheckAssumption
    <3>3. d \in ready /\ Capability[d] = cap /\ Capability[c] = cap
        BY <2>1
    <3> QED BY <3>1, <3>2, <3>3 DEF Ahead
  <2>3. IsFiniteSet(Ahead(ready, c)) /\ Cardinality(Ahead(ready, c)) \in Nat
      BY FiniteChecks DEF Ahead
  <2>4. /\ IsFiniteSet(Ahead(ready, c) \cup {c})
        /\ Cardinality(Ahead(ready, c) \cup {c}) <= Cardinality(Ahead(ready, c)) + 1
        /\ Cardinality(Ahead(ready, c) \cup {c}) \in Nat
      BY <2>3, FS_AddElement
  <2>5. Cardinality(go) <= Cardinality(Ahead(ready, c) \cup {c})
      BY <2>2, <2>4, FS_Subset
  <2>6. Cardinality(busy) + Cardinality(Ahead(ready, c)) < limit
      BY <2>1
  <2> QED BY <1>0, <2>3, <2>4, <2>5, <2>6
<1> QED BY <1>1, <1>2

LEMMA WalkFills ==
    ASSUME NEW cap, NEW limit \in Nat,
           NEW ready \in SUBSET Checks, NEW busy \in SUBSET Checks, NEW go \in SUBSET ready,
           busy \cap ready = {},
           Cardinality(busy) <= limit,
           \A c \in ready : c \in go <=>
                Capability[c] = cap /\ Cardinality(busy) + Cardinality(Ahead(ready, c)) < limit,
           NEW c0 \in ready \ go, Capability[c0] = cap
    PROVE  Cardinality(busy \cup go) = limit
<1> DEFINE waiting == {c \in ready \ go : Capability[c] = cap}
<1>1. PICK c \in waiting : \A d \in waiting : PlanIndex[c] <= PlanIndex[d]
  <2>1. waiting \subseteq Checks /\ waiting # {}
      OBVIOUS
  <2> HIDE DEF waiting
  <2> QED BY <2>1, FirstCheck
<1>2. Ahead(ready, c) \subseteq go
  <2> SUFFICES ASSUME NEW d \in Ahead(ready, c), d \notin go PROVE FALSE
      OBVIOUS
  <2>1. d \in waiting /\ PlanIndex[d] < PlanIndex[c]
      BY DEF Ahead
  <2>2. PlanIndex[d] \in Nat /\ PlanIndex[c] \in Nat
      BY <2>1, CheckAssumption
  <2> QED BY <1>1, <2>1, <2>2
<1>3. Cardinality(Ahead(ready, c)) <= Cardinality(go)
  <2>1. IsFiniteSet(go)
    <3>1. go \subseteq Checks
        OBVIOUS
    <3> QED BY <3>1, FiniteChecks
  <2> QED BY <1>2, <2>1, FS_Subset
<1>4. ~(Cardinality(busy) + Cardinality(Ahead(ready, c)) < limit)
    BY <1>1
<1>5. Cardinality(Ahead(ready, c)) \in Nat
    BY FiniteChecks DEF Ahead
<1>6. Cardinality(busy \cup go) <= limit
    BY WalkFits, Zenon
<1>7. /\ Cardinality(busy) \in Nat /\ Cardinality(go) \in Nat
      /\ Cardinality(busy \cup go) = Cardinality(busy) + Cardinality(go)
  <2>1. go \subseteq Checks /\ busy \cap go = {}
      OBVIOUS
  <2> QED BY <2>1, TwoSets
<1> QED BY <1>3, <1>4, <1>5, <1>6, <1>7

(***************************************************************************)
(* A ledger after dispatch: L is sk with its startable checks running.     *)
(***************************************************************************)
LEMMA DispatchFits ==
    ASSUME NEW p, p \subseteq Checks, NEW sk, DOMAIN sk = p, NEW dep,
           NEW L, DOMAIN L = p,
           \A c \in Startable(sk, dep) : L[c].phase = "running",
           \A c \in p \ Startable(sk, dep) : L[c] = sk[c],
           \A cap \in Bounded : Cardinality(ActiveByCapability(sk, cap)) <= CapabilityLimit(cap)
    PROVE  /\ \A cap \in Bounded :
                Cardinality(ActiveByCapability(L, cap)) <= CapabilityLimit(cap)
           /\ \A c \in Queued(L) : Needs(dep, c) \subseteq Completed(sk) =>
                /\ Capability[c] \in Bounded
                /\ Cardinality(ActiveByCapability(L, Capability[c]))
                        = CapabilityLimit(Capability[c])
<1> DEFINE started == Startable(sk, dep)
           ready == Runnable(sk, dep)
<1>1. started \subseteq ready /\ ready \subseteq Queued(sk) /\ ready \subseteq Checks
    BY DEF Startable, Runnable, Queued
<1>2. ASSUME NEW cap \in Bounded
      PROVE  /\ Cardinality(ActiveByCapability(L, cap)) <= CapabilityLimit(cap)
             /\ \A c \in ready \ started : Capability[c] = cap =>
                    Cardinality(ActiveByCapability(L, cap)) = CapabilityLimit(cap)
  <2> DEFINE busy == ActiveByCapability(sk, cap)
             go == {c \in ready : /\ Capability[c] = cap
                                  /\ Cardinality(busy) + Cardinality(Ahead(ready, c))
                                        < CapabilityLimit(cap)}
  <2>1. go = {c \in started : Capability[c] = cap}
      BY DEF Startable
  <2>2. /\ busy \subseteq Checks /\ busy \cap ready = {}
        BY <1>1 DEF ActiveByCapability, Running, Queued
  <2>3. ActiveByCapability(L, cap) = busy \cup go
    <3>1. \A c \in started : c \in Queued(sk)
        BY <1>1
    <3> HIDE DEF started, go
    <3> QED BY <1>1, <2>1, <3>1 DEF ActiveByCapability, Running, Queued, started
  <2>4. CapabilityLimit(cap) \in Nat
      BY CheckAssumption DEF CapabilityLimit
  <2> HIDE DEF busy, started, ready
  <2>5. Cardinality(busy) <= CapabilityLimit(cap)
      BY DEF busy
  <2>6. /\ Cardinality(busy \cup go) <= CapabilityLimit(cap)
        /\ \A c \in ready \ go : Capability[c] = cap =>
                Cardinality(busy \cup go) = CapabilityLimit(cap)
    <3>1. /\ go \in SUBSET ready
          /\ \A c \in ready :
                c \in go <=> /\ Capability[c] = cap
                             /\ Cardinality(busy) + Cardinality(Ahead(ready, c))
                                    < CapabilityLimit(cap)
        OBVIOUS
    <3> DEFINE limit == CapabilityLimit(cap)
    <3>2. limit \in Nat /\ Cardinality(busy) <= limit /\ ready \subseteq Checks
        BY <1>1, <2>4, <2>5
    <3> HIDE DEF go, limit
    <3>3. /\ Cardinality(busy \cup go) <= limit
          /\ \A c \in ready \ go : Capability[c] = cap => Cardinality(busy \cup go) = limit
      <4>1. \A c \in ready :
                c \in go <=> Capability[c] = cap /\ Cardinality(busy) + Cardinality(Ahead(ready, c)) < limit
          BY <3>1 DEF limit
      <4>2. /\ busy \in SUBSET Checks /\ ready \in SUBSET Checks /\ go \in SUBSET ready
            /\ busy \cap ready = {}
          BY <2>2, <3>1, <3>2
      <4>3. Cardinality(busy \cup go) <= limit
          BY <3>2, <4>1, <4>2, WalkFits, Zenon
      <4>4. ASSUME NEW c \in ready \ go, Capability[c] = cap
            PROVE  Cardinality(busy \cup go) = limit
          BY <3>2, <4>1, <4>2, <4>4, WalkFills, SMTT(60)
      <4> QED BY <4>3, <4>4
    <3> QED BY <3>3 DEF limit
  <2> HIDE DEF go
  <2> QED BY <2>1, <2>3, <2>6
<1>3. ASSUME NEW c \in Queued(L), Needs(dep, c) \subseteq Completed(sk)
      PROVE  c \in ready \ started /\ Capability[c] \in Bounded
  <2>1. c \in p /\ L[c].phase = "queued" /\ c \notin started
      BY DEF Queued
  <2>2. c \in ready
      BY <1>3, <2>1 DEF Runnable, Queued
  <2> QED BY <2>1, <2>2 DEF Startable
<1> HIDE DEF started, ready
<1> QED BY <1>2, <1>3

(***************************************************************************)
(* The skip loop leaves no queued check whose prerequisite has ended       *)
(* without completing or was skipped itself.                               *)
(***************************************************************************)
LEMMA SkipsReach ==
    ASSUME NEW ck, NEW dep, NEW c \in Queued(ck), c \notin Skips(ck, dep),
           NEW d \in Needs(dep, c)
    PROVE  d \notin Terminal(ck) \ Completed(ck) /\ d \notin Skips(ck, dep)
<1> DEFINE ended == Terminal(ck) \ Completed(ck)
           closed == {S \in SUBSET Queued(ck) : Blocked(ck, dep, ended \cup S) \subseteq S}
<1>1. PICK S \in closed : c \notin S
    BY DEF Skips
<1>2. c \notin Blocked(ck, dep, ended \cup S)
    BY <1>1
<1>3. d \notin ended \cup S
    BY <1>2 DEF Blocked
<1> QED BY <1>1, <1>3 DEF Skips

(***************************************************************************)
(* The inductive invariant.                                                *)
(***************************************************************************)

\* Running checks and bound jobs are each other's inverse; n bounds the job
\* numbers given out.
Binding(ck, jb, n) ==
    /\ \A c \in DOMAIN ck :
        /\ ck[c].phase = "running" => ck[c].job \in DOMAIN jb /\ jb[ck[c].job] = c
        /\ ck[c].phase # "running" => ck[c].job = NoJob
    /\ \A j \in DOMAIN jb :
        /\ j \in 1..n /\ jb[j] \in DOMAIN ck
        /\ ck[jb[j]].phase = "running" /\ ck[jb[j]].job = j

\* Every running check's job has an armed watchdog and is still admitted.
Watched(ck, reg, armed) ==
    \A c \in Running(ck) :
        /\ ck[c].job \in armed
        /\ ck[c].job \in DOMAIN reg
        /\ ~reg[ck[c].job].terminal

NothingRunsYet == fileState = "preparing_assets" => Running(checks) = {}

IInv ==
    /\ TypeOK
    /\ IsFiniteSet(outbox)
    /\ Binding(checks, jobs, jobCounter)
    /\ Watched(checks, registry, timers)
    /\ NothingRunsYet
    /\ SettledIsQuiet

\* The messages of Messages without its bounds: what the session sends too.
Traffic ==
    [gen : Nat, doc : Documents \cup {NoDoc}, key : SUBSET Checks, job : Nat, seq : Nat,
     check : Checks \cup {NoCheck}, slot : {"none", "pdf_bytes", "raster_rgba"}]

\* A step of the coordinator, whatever the sequence numbers.
Step == Next \/ \E m \in Traffic : Receive(m)

Registries(S) == [S -> [last : Nat \cup {-1}, terminal : BOOLEAN]]

ClaimsOf(p) == [p -> {"none", "pdf_bytes", "raster_rgba"}]

(***************************************************************************)
(* The ledger steps keep the shape of the ledger.                          *)
(***************************************************************************)

LEMMA TerminalizeType ==
    ASSUME NEW r \in Records, NEW status \in TerminalStatuses,
           NEW reason \in RecordedReasons
    PROVE  /\ Terminalize(r, status, reason) \in Records
           /\ Terminalize(r, status, reason).phase = "terminal"
           /\ Terminalize(r, status, reason).job = NoJob
<1> DEFINE n == IF r.job # NoJob THEN r.attempts + 1 ELSE r.attempts
           t == Terminalize(r, status, reason)
<1>1. t = [r EXCEPT !.phase = "terminal", !.status = status, !.reason = reason,
                    !.attempts = n, !.job = NoJob]
    BY DEF Terminalize, Records
<1>2. n \in Nat
    BY DEF Records
<1>3. "terminal" \in Phases /\ NoJob \in Nat
    BY DEF Phases, NoJob
<1> HIDE DEF n, t
<1>4. t \in Records /\ t.phase = "terminal" /\ t.job = NoJob
    BY <1>1, <1>2, <1>3, Zenon DEF Records
<1> QED BY <1>4 DEF t

LEMMA SkipsType ==
    ASSUME NEW p, NEW ck \in [p -> Records], NEW dep
    PROVE  /\ PropagateSkips(ck, dep) \in [p -> Records]
           /\ \A c \in p : ck[c].phase = "running" =>
                PropagateSkips(ck, dep)[c] = ck[c]
           /\ \A c \in p : ck[c].phase # "running" =>
                /\ PropagateSkips(ck, dep)[c].phase # "running"
                /\ ck[c].job = NoJob => PropagateSkips(ck, dep)[c].job = NoJob
<1> DEFINE S == Skips(ck, dep)
<1>1. S \subseteq p /\ \A c \in S : ck[c].phase = "queued"
    BY SkipsQueued DEF Queued
<1>2. PropagateSkips(ck, dep) =
        [c \in p |-> IF c \in S THEN Terminalize(ck[c], "skipped", "dependency_unmet")
                     ELSE ck[c]]
    BY DEF PropagateSkips
<1> HIDE DEF S
<1>3. \A c \in p : /\ Terminalize(ck[c], "skipped", "dependency_unmet") \in Records
                   /\ Terminalize(ck[c], "skipped", "dependency_unmet").phase = "terminal"
                   /\ Terminalize(ck[c], "skipped", "dependency_unmet").job = NoJob
  <2> TAKE c \in p
  <2>1. /\ ck[c] \in Records /\ "skipped" \in TerminalStatuses
        /\ "dependency_unmet" \in RecordedReasons
      BY DEF TerminalStatuses, RecordedReasons
  <2> HIDE DEF S
  <2> QED BY <2>1, TerminalizeType
<1> QED BY <1>1, <1>2, <1>3

LEMMA StartType ==
    ASSUME NEW p \in SUBSET Checks, NEW ck \in [p -> Records],
           NEW started \in SUBSET Queued(ck), NEW n \in Nat
    PROVE  /\ Start(ck, started, n) \in [p -> Records]
           /\ \A c \in started : /\ Start(ck, started, n)[c].phase = "running"
                                 /\ Start(ck, started, n)[c].job = JobOf(c, started, n)
           /\ \A c \in p : c \notin started => Start(ck, started, n)[c] = ck[c]
<1>1. started \subseteq p /\ started \subseteq Checks
    BY DEF Queued
<1>2. \A c \in started : JobOf(c, started, n) \in Nat
    BY <1>1, JobNumbers
<1>3. \A c \in started : [ck[c] EXCEPT !.phase = "running", !.job = JobOf(c, started, n)]
                            \in Records
    BY <1>1, <1>2 DEF Records, Phases
<1>4. \A c \in p : ck[c] \in Records
    OBVIOUS
<1> QED BY <1>1, <1>2, <1>3, <1>4 DEF Start, Records

(***************************************************************************)
(* The image of a finite set is finite.                                    *)
(***************************************************************************)
LEMMA FiniteImage ==
    ASSUME NEW S, IsFiniteSet(S), NEW f, f = [x \in S |-> f[x]]
    PROVE  IsFiniteSet({f[x] : x \in S})
<1> DEFINE T == {f[x] : x \in S}
<1>1. f \in Surjection(S, T)
    BY DEF Surjection
<1> QED BY <1>1, FS_Surjection

(***************************************************************************)
(* afterTerminalSettled preserves the invariant, whatever closed the jobs  *)
(* in gone: a message, a watchdog or the run deadline.                     *)
(***************************************************************************)
LEMMA SettledInv ==
    ASSUME IInv, fileState = "running",
           NEW ck \in [plan -> Records],
           NEW reg \in Registries(DOMAIN registry),
           NEW cl \in ClaimsOf(plan),
           NEW gone \in SUBSET (DOMAIN jobs),
           NEW armed \in SUBSET timers,
           Binding(ck, [j \in DOMAIN jobs \ gone |-> jobs[j]], jobCounter),
           Watched(ck, reg, armed),
           AfterTerminalSettled(ck, reg, cl, gone, armed),
           UNCHANGED settleFrame, UNCHANGED <<occurrences, runProduced>>
    PROVE  IInv'
<1> USE DEF IInv
<1> DEFINE skipped == PropagateSkips(ck, deps)
           started == Startable(skipped, deps)
           ledger == Start(skipped, started, jobCounter)
           new == NewJobs(started)
           kept == [j \in DOMAIN jobs \ gone |-> jobs[j]]
<1>1. /\ plan \in SUBSET Checks /\ jobCounter \in Nat
      /\ jobs \in [DOMAIN jobs -> plan]
    BY DEF TypeOK
<1>2. /\ skipped \in [plan -> Records]
      /\ \A c \in plan : ck[c].phase = "running" => skipped[c] = ck[c]
      /\ \A c \in plan : ck[c].phase # "running" =>
            skipped[c].phase # "running" /\ skipped[c].job = NoJob
  <2>1. \A c \in plan : ck[c].phase # "running" => ck[c].job = NoJob
      BY DEF Binding
  <2> QED BY <2>1, SkipsType
<1> HIDE DEF skipped
<1>3. /\ started \in SUBSET Queued(skipped) /\ started \subseteq plan
      /\ started \subseteq Checks
      /\ IsFiniteSet(started) /\ Cardinality(started) \in Nat
      /\ \A c \in started : skipped[c].phase = "queued"
  <2>1. started \subseteq Queued(skipped) /\ started \subseteq plan
      BY <1>2, StartableQueued
  <2> HIDE DEF started
  <2> QED BY <2>1, <1>1, FiniteChecks DEF Queued
<1> HIDE DEF started
<1>4. /\ ledger \in [plan -> Records]
      /\ \A c \in started : /\ ledger[c].phase = "running"
                            /\ ledger[c].job = JobOf(c, started, jobCounter)
      /\ \A c \in plan : c \notin started => ledger[c] = skipped[c]
  <2> HIDE DEF ledger
  <2>1. ledger = Start(skipped, started, jobCounter)
      BY DEF ledger
  <2>2. plan \in SUBSET Checks /\ jobCounter \in Nat
      BY <1>1
  <2>3. skipped \in [plan -> Records]
      BY <1>2
  <2>4. started \in SUBSET Queued(skipped)
      BY <1>3
  <2>5. ledger \in [plan -> Records]
      BY <2>1, <2>2, <2>3, <2>4, StartType
  <2>6. \A c \in started : /\ ledger[c].phase = "running"
                            /\ ledger[c].job = JobOf(c, started, jobCounter)
      BY <2>1, <2>2, <2>3, <2>4, StartType
  <2>7. \A c \in plan : c \notin started => ledger[c] = skipped[c]
      BY <2>1, <2>3 DEF Start
  <2> QED BY <2>5, <2>6, <2>7
<1> HIDE DEF ledger
<1>5. /\ checks' = ledger
      /\ jobs' = Bind(gone, started)
      /\ jobCounter' = jobCounter + Cardinality(started)
      /\ outbox' = outbox \cup TerminateIntents(gone) \cup DispatchIntents(started)
      /\ claims' = [c \in DOMAIN cl |-> IF c \in Terminal(skipped) THEN "none" ELSE cl[c]]
    BY DEF AfterTerminalSettled, skipped, started, ledger
<1>6. /\ \A c \in started : /\ JobOf(c, started, jobCounter) \in Nat \ {0}
                            /\ JobOf(c, started, jobCounter) \in 1..jobCounter'
                            /\ JobOf(c, started, jobCounter) > jobCounter
      /\ \A c, d \in started : JobOf(c, started, jobCounter) =
                                JobOf(d, started, jobCounter) => c = d
      /\ jobCounter' \in Nat /\ jobCounter' >= jobCounter
  <2>1. /\ \A c \in started :
             JobOf(c, started, jobCounter) \in
                (jobCounter + 1)..(jobCounter + Cardinality(started))
        /\ \A c, d \in started : JobOf(c, started, jobCounter) =
                                JobOf(d, started, jobCounter) => c = d
      BY <1>1, <1>3, JobNumbers
  <2> QED BY <2>1, <1>1, <1>3, <1>5
<1>7. \A j \in DOMAIN jobs : j \in 1..jobCounter /\ j \in Nat \ {0}
    BY <1>1 DEF Binding
<1>8. /\ DOMAIN jobs' = (DOMAIN jobs \ gone) \cup new
      /\ \A c \in started : jobs'[JobOf(c, started, jobCounter)] = c
      /\ \A j \in DOMAIN jobs \ gone : j \notin new /\ jobs'[j] = jobs[j]
  <2>1. DOMAIN jobs' = (DOMAIN jobs \ gone) \cup new
      BY <1>5 DEF Bind
  <2>2. \A c \in started : JobOf(c, started, jobCounter) \in new
      BY DEF NewJobs
  <2>3. \A j \in new : jobs'[j] =
            CHOOSE c \in started : JobOf(c, started, jobCounter) = j
      BY <1>5 DEF Bind
  <2>4. \A j \in DOMAIN jobs \ gone : j \notin new
      BY <1>1, <1>6, <1>7 DEF NewJobs
  <2>5. \A j \in DOMAIN jobs \ gone : jobs'[j] = jobs[j]
      BY <1>5, <2>4 DEF Bind
  <2> QED BY <2>1, <2>2, <2>3, <2>4, <2>5, <1>6
<1>9. Binding(checks', jobs', jobCounter')
  <2>1. ASSUME NEW c \in plan, ledger[c].phase = "running"
        PROVE  ledger[c].job \in DOMAIN jobs' /\ jobs'[ledger[c].job] = c
    <3>1. CASE c \in started
        BY <3>1, <1>4, <1>8 DEF NewJobs
    <3>2. CASE c \notin started
      <4>1. ck[c].phase = "running" /\ ledger[c] = ck[c]
          BY <2>1, <3>2, <1>2, <1>4
      <4>2. ck[c].job \in DOMAIN kept /\ kept[ck[c].job] = c
          BY <4>1 DEF Binding
      <4> QED BY <4>1, <4>2, <1>8
    <3> QED BY <3>1, <3>2
  <2>2. ASSUME NEW c \in plan, ledger[c].phase # "running"
        PROVE  ledger[c].job = NoJob
      BY <2>2, <1>2, <1>4
  <2>3. ASSUME NEW j \in DOMAIN jobs'
        PROVE  /\ j \in 1..jobCounter' /\ jobs'[j] \in plan
               /\ ledger[jobs'[j]].phase = "running" /\ ledger[jobs'[j]].job = j
    <3>1. CASE j \in new
      <4>1. PICK c \in started : j = JobOf(c, started, jobCounter)
          BY <3>1 DEF NewJobs
      <4> QED BY <4>1, <1>3, <1>4, <1>6, <1>8
    <3>2. CASE j \in DOMAIN jobs \ gone
      <4>1. kept[j] = jobs[j] /\ j \in DOMAIN kept /\ jobs'[j] = jobs[j]
          BY <3>2, <1>8
      <4>2. /\ jobs[j] \in plan
            /\ ck[jobs[j]].phase = "running" /\ ck[jobs[j]].job = j
          BY <4>1 DEF Binding
      <4>3. jobs[j] \notin started
          BY <4>2, <1>2, <1>3
      <4>4. ledger[jobs[j]] = ck[jobs[j]]
          BY <4>2, <4>3, <1>2, <1>4
      <4>5. j \in 1..jobCounter'
          BY <3>2, <1>1, <1>6, <1>7
      <4> QED BY <4>1, <4>2, <4>4, <4>5
    <3> QED BY <3>1, <3>2, <2>3, <1>8
  <2>4. checks' = ledger /\ DOMAIN ledger = plan
      BY <1>4, <1>5
  <2> QED BY <2>1, <2>2, <2>3, <2>4 DEF Binding
<1>10. /\ plan' = plan /\ deps' = deps /\ generation' = generation
       /\ document' = document /\ deadline' = deadline
       /\ cancelRequested' = cancelRequested /\ fileOwned' = fileOwned
       /\ pendingIntents' = pendingIntents /\ late' = late
    BY DEF settleFrame
<1> DEFINE finished == Terminal(ledger) = DOMAIN ledger /\ fileState = "running"
           status == ComputeRunStatus(ledger, cancelRequested)
<1>11. IF finished
       THEN /\ fileState' = status /\ runStatus' = status
            /\ TeardownRun /\ Invalidate
       ELSE /\ UNCHANGED <<fileState, runStatus, runOwned, open, active>>
            /\ timers' = armed \cup new
            /\ registry' = Register(CloseJobs(reg, gone), new)
    BY DEF AfterTerminalSettled, skipped, started, ledger
<1>12. status \in RunStates
    BY DEF ComputeRunStatus, RunStates
<1> HIDE DEF status
<1>13. /\ Watched(checks', registry', timers')
       /\ NothingRunsYet' /\ SettledIsQuiet'
       /\ fileState' \in FileStates /\ runStatus' \in RunStates \cup {"none"}
       /\ timers' \subseteq Nat
       /\ runOwned' \subseteq Resources /\ open' \subseteq Resources
       /\ active' \in [gen : Nat, doc : Documents \cup {NoDoc}, key : SUBSET Checks]
       /\ DOMAIN registry' \subseteq Nat \ {0}
       /\ registry' \in Registries(DOMAIN registry')
  <2>1. CASE finished
    <3>1. Running(checks') = {}
        BY <1>4, <1>5, <2>1 DEF Running, Terminal
    <3>2. DOMAIN jobs' = {}
      <4>1. \A c \in DOMAIN checks' : checks'[c].phase # "running"
          BY <3>1 DEF Running
      <4>2. \A j \in DOMAIN jobs' : /\ jobs'[j] \in DOMAIN checks'
                                    /\ checks'[jobs'[j]].phase = "running"
          BY <1>9 DEF Binding
      <4> QED BY <4>1, <4>2
    <3>3. /\ fileState' \in RunStates /\ runStatus' \in RunStates
          /\ timers' = {} /\ runOwned' = {} /\ open' = open \ runOwned
          /\ active' = Inactive /\ registry' = Empty /\ DOMAIN registry' = {}
        BY <1>11, <1>12, <2>1 DEF TeardownRun, Invalidate, Empty
    <3>4. Watched(checks', registry', timers')
        BY <3>1 DEF Watched
    <3>5. NothingRunsYet' /\ SettledIsQuiet'
        BY <3>1, <3>2, <3>3 DEF NothingRunsYet, SettledIsQuiet, RunStates
    <3>6. Inactive \in [gen : Nat, doc : Documents \cup {NoDoc}, key : SUBSET Checks]
        BY DEF Inactive
    <3>7. Empty \in Registries({})
        BY DEF Empty, Registries
    <3>8. open' \subseteq Resources
        BY <3>3 DEF TypeOK
    <3> QED BY <3>3, <3>4, <3>5, <3>6, <3>7, <3>8 DEF FileStates
  <2>2. CASE ~finished
    <3>1. /\ fileState' = "running"
          /\ UNCHANGED <<runStatus, runOwned, open, active>>
          /\ timers' = armed \cup new
          /\ registry' = Register(CloseJobs(reg, gone), new)
        BY <1>11, <2>2
    <3>2. new \subseteq Nat \ {0}
        BY <1>6 DEF NewJobs
    <3> HIDE DEF new, finished
    <3>3. /\ DOMAIN registry' = DOMAIN registry \cup new
          /\ registry' \in Registries(DOMAIN registry')
          /\ \A j \in new : ~registry'[j].terminal
          /\ \A j \in DOMAIN registry \ (new \cup gone) :
                registry'[j].terminal = reg[j].terminal
      <4>1. /\ DOMAIN CloseJobs(reg, gone) = DOMAIN registry
            /\ CloseJobs(reg, gone) \in Registries(DOMAIN registry)
            /\ \A j \in DOMAIN registry \ gone : CloseJobs(reg, gone)[j] = reg[j]
        <5>1. \A j \in DOMAIN registry :
                [reg[j] EXCEPT !.terminal = TRUE] \in [last : Nat \cup {-1}, terminal : BOOLEAN]
            BY DEF Registries
        <5> QED BY <5>1 DEF CloseJobs, Registries
      <4>2. [last |-> -1, terminal |-> FALSE] \in [last : Nat \cup {-1}, terminal : BOOLEAN]
          OBVIOUS
      <4> QED BY <3>1, <4>1, <4>2 DEF Register, Registries
    <3>4. Watched(checks', registry', timers')
      <4> SUFFICES ASSUME NEW c \in plan, ledger[c].phase = "running"
                   PROVE  /\ ledger[c].job \in timers'
                          /\ ledger[c].job \in DOMAIN registry'
                          /\ ~registry'[ledger[c].job].terminal
          BY <1>4, <1>5 DEF Watched, Running
      <4>1. CASE c \in started
        <5>1. ledger[c].job \in new
            BY <4>1, <1>4 DEF new, NewJobs
        <5> QED BY <5>1, <3>1, <3>3
      <4>2. CASE c \notin started
        <5>1. ck[c].phase = "running" /\ ledger[c] = ck[c]
            BY <4>2, <1>2, <1>4
        <5>2. ck[c].job \in DOMAIN kept
          <6>1. c \in DOMAIN ck
              OBVIOUS
          <6>2. Binding(ck, kept, jobCounter)
              OBVIOUS
          <6> HIDE DEF kept
          <6> QED BY <5>1, <6>1, <6>2 DEF Binding
        <5>3. /\ ck[c].job \in armed /\ ck[c].job \in DOMAIN reg
              /\ ~reg[ck[c].job].terminal
            BY <5>1 DEF Watched, Running
        <5>4. ck[c].job \notin new \cup gone /\ DOMAIN reg = DOMAIN registry
            BY <5>2, <1>8 DEF Registries
        <5> QED BY <5>1, <5>3, <5>4, <3>1, <3>3
      <4> QED BY <4>1, <4>2
    <3>5. NothingRunsYet' /\ SettledIsQuiet'
        BY <3>1 DEF NothingRunsYet, SettledIsQuiet
    <3> QED BY <3>1, <3>2, <3>3, <3>4, <3>5 DEF TypeOK, FileStates
  <2> QED BY <2>1, <2>2
<1>14. /\ IsFiniteSet(outbox') /\ outbox' \subseteq Intents
  <2>1. IsFiniteSet(DOMAIN jobs) /\ IsFiniteSet(gone)
    <3>1. DOMAIN jobs \in SUBSET (1..jobCounter) /\ gone \in SUBSET (1..jobCounter)
        BY <1>7
    <3>2. IsFiniteSet(1..jobCounter)
      <4>1. 1 \in Int /\ jobCounter \in Int
          BY <1>1
      <4> QED BY <4>1, FS_Interval, Zenon
    <3> QED BY <3>1, <3>2, FS_Subset
  <2> DEFINE T == [j \in gone |-> Intent("terminate", j, jobs[j], 0)]
             D == [c \in started |->
                    Intent("dispatch", JobOf(c, started, jobCounter), c, 0)]
  <2>2. IsFiniteSet({T[j] : j \in gone})
      BY <2>1, FiniteImage
  <2>3. IsFiniteSet({D[c] : c \in started})
      BY <1>3, FiniteImage
  <2>4. /\ TerminateIntents(gone) = {T[j] : j \in gone}
        /\ DispatchIntents(started) = {D[c] : c \in started}
      BY DEF TerminateIntents, DispatchIntents
  <2>5. \A j \in gone : T[j] \in Intents
      BY <1>1, <1>7 DEF Intents, Intent
  <2>6. \A c \in started : D[c] \in Intents
      BY <1>3, <1>6 DEF Intents, Intent
  <2> HIDE DEF T, D
  <2>7. IsFiniteSet(outbox')
      BY <1>5, <2>2, <2>3, <2>4, FS_Union
  <2>8. outbox' \subseteq Intents
      BY <1>5, <2>4, <2>5, <2>6 DEF TypeOK
  <2> QED BY <2>7, <2>8
<1>15. TypeOK'
  <2>1. checks' \in [plan' -> Records] /\ jobs' \in [DOMAIN jobs' -> plan']
      BY <1>4, <1>5, <1>9, <1>10 DEF Binding, Bind
  <2>2. DOMAIN jobs' \subseteq Nat \ {0}
      BY <1>6, <1>9 DEF Binding
  <2>3. claims' \in [plan' -> {"none", "pdf_bytes", "raster_rgba"}]
      BY <1>5, <1>10 DEF ClaimsOf
  <2> QED BY <2>1, <2>2, <2>3, <1>6, <1>10, <1>13, <1>14 DEF TypeOK, Registries
<1> QED BY <1>9, <1>13, <1>14, <1>15

(***************************************************************************)
(* enterRunning establishes the invariant's ledger part from a ledger in   *)
(* which nothing has been dispatched.                                      *)
(***************************************************************************)
LEMMA Entered ==
    ASSUME NEW p \in SUBSET Checks, NEW ck \in [p -> Records], NEW dep,
           NEW armed \in SUBSET Nat,
           \A c \in p : ck[c].phase # "running" /\ ck[c].job = NoJob,
           EnterRunning(ck, dep, armed)
    PROVE  /\ fileState' = "running"
           /\ checks' \in [p -> Records]
           /\ jobs' \in [DOMAIN jobs' -> p] /\ DOMAIN jobs' \subseteq Nat \ {0}
           /\ jobCounter' \in Nat
           /\ Binding(checks', jobs', jobCounter')
           /\ Watched(checks', registry', timers')
           /\ DOMAIN registry' \subseteq Nat \ {0}
           /\ registry' \in Registries(DOMAIN registry')
           /\ timers' \subseteq Nat
           /\ IsFiniteSet(outbox') /\ outbox' \subseteq Intents
<1> DEFINE started == Startable(ck, dep)
           ledger == Start(ck, started, 0)
           new == {JobOf(c, started, 0) : c \in started}
<1>1. /\ started \in SUBSET Queued(ck) /\ started \subseteq p
      /\ started \subseteq Checks
      /\ IsFiniteSet(started) /\ Cardinality(started) \in Nat
  <2>1. started \subseteq Queued(ck) /\ started \subseteq p
      BY StartableQueued
  <2> HIDE DEF started
  <2> QED BY <2>1, FiniteChecks
<1>2. /\ fileState' = "running" /\ checks' = ledger
      /\ jobs' = [j \in new |-> CHOOSE c \in started : JobOf(c, started, 0) = j]
      /\ jobCounter' = Cardinality(started)
      /\ registry' = Register(Empty, new)
      /\ outbox' = {Intent("dispatch", JobOf(c, started, 0), c, 0) : c \in started}
      /\ timers' = armed \cup new
    BY DEF EnterRunning
<1> HIDE DEF started
<1>3. /\ ledger \in [p -> Records]
      /\ \A c \in started : /\ ledger[c].phase = "running"
                            /\ ledger[c].job = JobOf(c, started, 0)
  <2>1. 0 \in Nat /\ started \in SUBSET Queued(ck)
      BY <1>1
  <2> QED BY <2>1, StartType
<1>4. \A c \in p : c \notin started => ledger[c] = ck[c]
    BY DEF Start
<1> HIDE DEF ledger
<1>5. /\ \A c \in started : /\ JobOf(c, started, 0) \in Nat \ {0}
                            /\ JobOf(c, started, 0) \in 1..jobCounter'
      /\ \A c, d \in started : JobOf(c, started, 0) = JobOf(d, started, 0) => c = d
  <2>1. 0 \in Nat
      OBVIOUS
  <2>2. /\ \A c \in started :
             /\ JobOf(c, started, 0) \in (0 + 1)..(0 + Cardinality(started))
             /\ JobOf(c, started, 0) \in Nat \ {0}
        /\ \A c, d \in started : JobOf(c, started, 0) = JobOf(d, started, 0) => c = d
      BY <2>1, <1>1, JobNumbers
  <2> QED BY <2>2, <1>1, <1>2
<1>6. new \subseteq Nat \ {0}
    BY <1>5
<1>7. /\ DOMAIN jobs' = new
      /\ \A c \in started : /\ JobOf(c, started, 0) \in new
                            /\ jobs'[JobOf(c, started, 0)] = c
    BY <1>2, <1>5
<1>8. \A j \in new : \E c \in started : j = JobOf(c, started, 0)
    OBVIOUS
<1>9. /\ DOMAIN registry' = new /\ registry' \in Registries(new)
      /\ \A j \in new : ~registry'[j].terminal
    BY <1>2 DEF Register, Registries, Empty
<1> HIDE DEF new
<1>10. Binding(checks', jobs', jobCounter')
  <2>1. ASSUME NEW c \in p
        PROVE  /\ ledger[c].phase = "running" =>
                    ledger[c].job \in DOMAIN jobs' /\ jobs'[ledger[c].job] = c
               /\ ledger[c].phase # "running" => ledger[c].job = NoJob
      BY <1>3, <1>4, <1>7
  <2>2. ASSUME NEW j \in new
        PROVE  /\ j \in 1..jobCounter' /\ jobs'[j] \in p
               /\ ledger[jobs'[j]].phase = "running" /\ ledger[jobs'[j]].job = j
      BY <1>1, <1>3, <1>5, <1>7, <1>8
  <2>3. checks' = ledger /\ DOMAIN ledger = p
      BY <1>2, <1>3
  <2> QED BY <2>1, <2>2, <2>3, <1>7 DEF Binding
<1>11. Watched(checks', registry', timers')
  <2> SUFFICES ASSUME NEW c \in p, ledger[c].phase = "running"
               PROVE  ledger[c].job \in new
      BY <1>2, <1>3, <1>9 DEF Watched, Running
  <2> QED BY <1>3, <1>4, <1>7
<1>12. IsFiniteSet(outbox') /\ outbox' \subseteq Intents
  <2> DEFINE D == [c \in started |-> Intent("dispatch", JobOf(c, started, 0), c, 0)]
  <2>1. \A c \in started : D[c] \in Intents
      BY <1>1, <1>5 DEF Intents, Intent
  <2>2. outbox' = {D[c] : c \in started}
      BY <1>2
  <2>3. IsFiniteSet({D[c] : c \in started})
    <3>1. D = [c \in started |-> D[c]]
        OBVIOUS
    <3> HIDE DEF D
    <3> QED BY <3>1, <1>1, FiniteImage
  <2> HIDE DEF D
  <2> QED BY <2>1, <2>2, <2>3
<1>13. jobs' \in [DOMAIN jobs' -> p]
    BY <1>2, <1>7, <1>10, <1>3 DEF Binding
<1> QED BY <1>1, <1>2, <1>3, <1>6, <1>7, <1>9, <1>10, <1>11, <1>12, <1>13

(***************************************************************************)
(* A message that settles the check its job serves.                        *)
(***************************************************************************)

\* Only a running run binds and admits jobs.
LEMMA AdmittedRuns ==
    ASSUME IInv, NEW m \in Traffic, Admit(m), m.job \in DOMAIN jobs
    PROVE  /\ fileState = "running"
           /\ jobs[m.job] \in plan /\ checks[jobs[m.job]] \in Records
           /\ checks[jobs[m.job]].phase = "running"
           /\ checks[jobs[m.job]].job = m.job
           /\ m.job \in DOMAIN registry
           /\ m.gen \in Nat /\ m.seq \in Nat
<1>1. /\ jobs[m.job] \in plan /\ DOMAIN checks = plan
      /\ checks[jobs[m.job]] \in Records
      /\ checks[jobs[m.job]].phase = "running"
      /\ checks[jobs[m.job]].job = m.job
    BY DEF IInv, TypeOK, Binding
<1>2. fileState \in {"preparing_assets", "running"}
    BY DEF IInv, SettledIsQuiet, Admit
<1>3. Running(checks) # {}
    BY <1>1 DEF Running
<1>4. fileState = "running"
    BY <1>2, <1>3 DEF IInv, NothingRunsYet
<1>5. m.gen \in Nat /\ m.seq \in Nat
    BY DEF Traffic
<1> QED BY <1>1, <1>4, <1>5 DEF Admit

LEMMA SeenType ==
    ASSUME IInv, NEW m \in Traffic, Admit(m), m.job \in DOMAIN jobs
    PROVE  /\ Seen(m) \in Registries(DOMAIN registry)
           /\ \A j \in DOMAIN registry : Seen(m)[j].terminal = registry[j].terminal
<1>1. /\ registry \in Registries(DOMAIN registry) /\ m.seq \in Nat
      /\ m.job \in DOMAIN registry
    BY AdmittedRuns DEF IInv, TypeOK, Registries
<1>2. /\ [registry[m.job] EXCEPT !.last = m.seq] \in [last : Nat \cup {-1}, terminal : BOOLEAN]
      /\ [registry[m.job] EXCEPT !.last = m.seq].terminal = registry[m.job].terminal
    BY <1>1 DEF Registries
<1>3. Seen(m) = [registry EXCEPT ![m.job] = [registry[m.job] EXCEPT !.last = m.seq]]
    BY DEF Seen
<1> QED BY <1>1, <1>2, <1>3 DEF Registries

LEMMA CheckSettled ==
    ASSUME IInv, NEW m \in Traffic, Admit(m), m.job \in DOMAIN jobs,
           NEW r \in Records, r.phase = "terminal", r.job = NoJob,
           NEW cl \in ClaimsOf(plan),
           SettleCheck(m, r, cl),
           UNCHANGED settleFrame, UNCHANGED <<occurrences, runProduced>>
    PROVE  IInv'
<1> DEFINE c == jobs[m.job]
           ck == [checks EXCEPT ![c] = r]
           kept == [j \in DOMAIN jobs \ {m.job} |-> jobs[j]]
<1>1. /\ fileState = "running" /\ c \in plan
      /\ checks[c].phase = "running" /\ checks[c].job = m.job
    BY AdmittedRuns
<1>2. /\ checks \in [plan -> Records] /\ ck \in [plan -> Records]
      /\ ck[c] = r /\ \A d \in plan \ {c} : ck[d] = checks[d]
    BY <1>1 DEF IInv, TypeOK
<1> HIDE DEF ck, c
<1>3. Binding(ck, kept, jobCounter)
  <2>1. ASSUME NEW d \in plan, ck[d].phase = "running"
        PROVE  ck[d].job \in DOMAIN kept /\ kept[ck[d].job] = d
    <3>1. d # c /\ checks[d].phase = "running" /\ ck[d].job = checks[d].job
        BY <2>1, <1>2
    <3>2. checks[d].job \in DOMAIN jobs /\ jobs[checks[d].job] = d
        BY <3>1, <1>2 DEF IInv, Binding
    <3>3. checks[d].job # m.job
        BY <3>1, <3>2 DEF c
    <3> QED BY <3>1, <3>2, <3>3
  <2>2. ASSUME NEW d \in plan, ck[d].phase # "running"
        PROVE  ck[d].job = NoJob
      BY <2>2, <1>2 DEF IInv, Binding
  <2>3. ASSUME NEW j \in DOMAIN jobs \ {m.job}
        PROVE  /\ j \in 1..jobCounter /\ jobs[j] \in plan
               /\ ck[jobs[j]].phase = "running" /\ ck[jobs[j]].job = j
    <3>1. /\ j \in 1..jobCounter /\ jobs[j] \in plan
          /\ checks[jobs[j]].phase = "running" /\ checks[jobs[j]].job = j
        BY <1>2 DEF IInv, Binding
    <3> QED BY <3>1, <1>1, <1>2
  <2> QED BY <2>1, <2>2, <2>3, <1>2 DEF Binding
<1>4. Watched(ck, Seen(m), timers)
  <2> SUFFICES ASSUME NEW d \in plan, ck[d].phase = "running"
               PROVE  /\ ck[d].job \in timers /\ ck[d].job \in DOMAIN Seen(m)
                      /\ ~Seen(m)[ck[d].job].terminal
      BY <1>2 DEF Watched, Running
  <2>1. ck[d] = checks[d]
      BY <1>2
  <2>2. /\ checks[d].job \in timers /\ checks[d].job \in DOMAIN registry
        /\ ~registry[checks[d].job].terminal
      BY <2>1, <1>2 DEF IInv, Watched, Running
  <2>3. DOMAIN Seen(m) = DOMAIN registry
      BY DEF Seen
  <2> QED BY <2>1, <2>2, <2>3, SeenType
<1>5. AfterTerminalSettled(ck, Seen(m), cl, {m.job}, timers)
    BY DEF SettleCheck, ck, c
<1>6. Seen(m) \in Registries(DOMAIN registry)
    BY SeenType
<1> QED BY <1>1, <1>2, <1>3, <1>4, <1>5, <1>6, SettledInv

(***************************************************************************)
(* Ending every live check at once: the run deadline and cancel.           *)
(***************************************************************************)
LEMMA AllEnded ==
    ASSUME IInv, NEW status \in TerminalStatuses, NEW reason \in RecordedReasons
    PROVE  /\ EndLive(status, reason) \in [plan -> Records]
           /\ \A c \in plan : /\ EndLive(status, reason)[c].phase = "terminal"
                              /\ EndLive(status, reason)[c].job = NoJob
           /\ LiveJobs = DOMAIN jobs
<1>1. /\ checks \in [plan -> Records]
      /\ \A c \in plan : checks[c] \in Records
    BY DEF IInv, TypeOK
<1>2. \A c \in plan : c \notin Live => checks[c].phase = "terminal" /\ checks[c].job = NoJob
    BY <1>1 DEF Live, Terminal, IInv, Binding
<1>3. \A c \in plan :
        /\ Terminalize(checks[c], status, reason) \in Records
        /\ Terminalize(checks[c], status, reason).phase = "terminal"
        /\ Terminalize(checks[c], status, reason).job = NoJob
    BY <1>1, TerminalizeType
<1>4. /\ EndLive(status, reason) \in [plan -> Records]
      /\ \A c \in plan : /\ EndLive(status, reason)[c].phase = "terminal"
                         /\ EndLive(status, reason)[c].job = NoJob
    BY <1>1, <1>2, <1>3 DEF EndLive
<1>5. LiveJobs \subseteq DOMAIN jobs
    BY <1>1 DEF LiveJobs, Live, Terminal, IInv, Binding
<1>6. ASSUME NEW j \in DOMAIN jobs
      PROVE  j \in LiveJobs
  <2>1. /\ jobs[j] \in plan /\ checks[jobs[j]].phase = "running"
        /\ checks[jobs[j]].job = j /\ j # NoJob
      BY <1>1 DEF IInv, Binding, TypeOK, NoJob
  <2>2. jobs[j] \in Live
      BY <1>1, <2>1 DEF Live, Terminal
  <2> QED BY <2>1, <2>2 DEF LiveJobs
<1> QED BY <1>4, <1>5, <1>6

LEMMA RunDeadlineInv == IInv /\ RunDeadline => IInv'
<1> SUFFICES ASSUME IInv, RunDeadline PROVE IInv'
    OBVIOUS
<1> DEFINE ck == EndLive("timeout", "timeout")
           kept == [j \in DOMAIN jobs \ LiveJobs |-> jobs[j]]
<1>1. /\ ck \in [plan -> Records]
      /\ \A c \in plan : ck[c].phase = "terminal" /\ ck[c].job = NoJob
      /\ LiveJobs = DOMAIN jobs
  <2>1. "timeout" \in TerminalStatuses /\ "timeout" \in RecordedReasons
      BY DEF TerminalStatuses, RecordedReasons
  <2> QED BY <2>1, AllEnded
<1> HIDE DEF ck
<1>2. Binding(ck, kept, jobCounter)
    BY <1>1 DEF Binding
<1>3. Watched(ck, registry, timers \ {RunTimer})
    BY <1>1 DEF Watched, Running
<1>4. registry \in Registries(DOMAIN registry) /\ claims \in ClaimsOf(plan)
    BY DEF IInv, TypeOK, Registries, ClaimsOf
<1>5. /\ fileState = "running"
      /\ AfterTerminalSettled(ck, registry, claims, LiveJobs, timers \ {RunTimer})
      /\ UNCHANGED settleFrame /\ UNCHANGED <<occurrences, runProduced>>
    BY DEF RunDeadline, ck
<1>6. LiveJobs \in SUBSET (DOMAIN jobs) /\ timers \ {RunTimer} \in SUBSET timers
    BY <1>1
<1> HIDE DEF kept
<1> QED BY <1>1, <1>2, <1>3, <1>4, <1>5, <1>6, SettledInv DEF kept

LEMMA CheckDeadlineInv ==
    ASSUME IInv, NEW c \in DOMAIN checks, CheckDeadline(c)
    PROVE  IInv'
<1> DEFINE r == Terminalize(checks[c], "timeout", "timeout")
           ck == [checks EXCEPT ![c] = r]
           j0 == checks[c].job
           kept == [j \in DOMAIN jobs \ {j0} |-> jobs[j]]
<1>1. /\ checks \in [plan -> Records] /\ c \in plan /\ checks[c] \in Records
      /\ checks[c].phase = "running" /\ j0 \in DOMAIN jobs /\ jobs[j0] = c
    BY DEF IInv, TypeOK, CheckDeadline, Running, Binding
<1>2. r \in Records /\ r.phase = "terminal" /\ r.job = NoJob
  <2>1. "timeout" \in TerminalStatuses /\ "timeout" \in RecordedReasons
      BY DEF TerminalStatuses, RecordedReasons
  <2> QED BY <1>1, <2>1, TerminalizeType
<1> HIDE DEF r
<1>3. ck \in [plan -> Records] /\ ck[c] = r /\ \A d \in plan \ {c} : ck[d] = checks[d]
    BY <1>1, <1>2
<1>4. /\ fileState = "running"
      /\ AfterTerminalSettled(ck, registry, claims, {j0}, timers \ {j0})
      /\ UNCHANGED settleFrame /\ UNCHANGED <<occurrences, runProduced>>
    BY DEF CheckDeadline, r
<1> HIDE DEF ck
<1>5. \A d \in plan \ {c} : checks[d].phase = "running" =>
        /\ checks[d].job \in DOMAIN jobs \ {j0} /\ jobs[checks[d].job] = d
    BY <1>1 DEF IInv, Binding
<1>6. \A j \in DOMAIN jobs \ {j0} :
        /\ j \in 1..jobCounter /\ jobs[j] \in plan \ {c}
        /\ checks[jobs[j]].phase = "running" /\ checks[jobs[j]].job = j
    BY <1>1 DEF IInv, Binding
<1> HIDE DEF j0
<1>7. Binding(ck, kept, jobCounter)
  <2>1. \A d \in plan : ck[d].phase # "running" => ck[d].job = NoJob
      BY <1>1, <1>2, <1>3 DEF IInv, Binding
  <2>2. \A d \in plan : ck[d].phase = "running" =>
            ck[d].job \in DOMAIN kept /\ kept[ck[d].job] = d
      BY <1>2, <1>3, <1>5
  <2>3. \A j \in DOMAIN kept :
            /\ j \in 1..jobCounter /\ kept[j] \in plan
            /\ ck[kept[j]].phase = "running" /\ ck[kept[j]].job = j
      BY <1>3, <1>6
  <2> QED BY <1>3, <2>1, <2>2, <2>3 DEF Binding
<1>8. Watched(ck, registry, timers \ {j0})
    BY <1>1, <1>2, <1>3, <1>5 DEF Watched, Running, IInv
<1>9. registry \in Registries(DOMAIN registry) /\ claims \in ClaimsOf(plan)
    BY DEF IInv, TypeOK, Registries, ClaimsOf
<1>10. {j0} \in SUBSET (DOMAIN jobs) /\ timers \ {j0} \in SUBSET timers
    BY <1>1 DEF j0
<1> QED BY <1>3, <1>4, <1>7, <1>8, <1>9, <1>10, SettledInv

(***************************************************************************)
(* Messages that settle their check.                                       *)
(***************************************************************************)
LEMMA ClaimedType ==
    ASSUME IInv, NEW m \in Traffic, NEW c \in plan
    PROVE  Claimed(m.slot, c) \in ClaimsOf(plan)
<1>1. m.slot \in {"none", "pdf_bytes", "raster_rgba"}
    BY DEF Traffic
<1>2. claims \in ClaimsOf(plan)
    BY DEF IInv, TypeOK, ClaimsOf
<1> QED BY <1>1, <1>2 DEF Claimed, ClaimsOf

LEMMA SettlingMessages ==
    ASSUME IInv, NEW m \in Traffic,
           \/ ReceiveForeign(m) \/ ReceiveOverclaim(m) \/ ReceiveFlood(m)
           \/ \E status \in ReportedStatuses : ReceiveTerminal(m, status)
           \/ \E reason \in Reasons : ReceiveFailure(m, reason)
    PROVE  IInv'
<1> DEFINE c == jobs[m.job]
<1>1. Admit(m) /\ m.job \in DOMAIN jobs
    BY DEF ReceiveForeign, ReceiveOverclaim, ReceiveFlood, ReceiveTerminal,
           ReceiveFailure, Delivered
<1>2. c \in plan /\ checks[c] \in Records
    BY <1>1, AdmittedRuns
<1>3. claims \in ClaimsOf(plan) /\ Claimed(m.slot, c) \in ClaimsOf(plan)
    BY <1>2, ClaimedType DEF IInv, TypeOK, ClaimsOf
<1>4. UNCHANGED settleFrame /\ UNCHANGED <<occurrences, runProduced>>
    BY DEF ReceiveForeign, ReceiveOverclaim, ReceiveFlood, ReceiveTerminal,
           ReceiveFailure
<1>5. \E status \in TerminalStatuses, reason \in RecordedReasons,
         cl \in {claims, Claimed(m.slot, c)} :
            SettleCheck(m, Terminalize(checks[c], status, reason), cl)
  <2> DEFINE S(status, reason, cl) ==
                SettleCheck(m, Terminalize(checks[c], status, reason), cl)
  <2>1. CASE ReceiveForeign(m)
    <3>1. S("failed", "protocol_violation", claims)
        BY <2>1 DEF ReceiveForeign
    <3> HIDE DEF S
    <3> QED BY <3>1 DEF S, TerminalStatuses, RecordedReasons
  <2>2. CASE ReceiveOverclaim(m)
    <3>1. S("failed", "resource_limit", claims)
        BY <2>2 DEF ReceiveOverclaim
    <3> HIDE DEF S
    <3> QED BY <3>1 DEF S, TerminalStatuses, RecordedReasons
  <2>3. CASE ReceiveFlood(m)
    <3>1. S("failed", "protocol_violation", Claimed(m.slot, c))
        BY <2>3 DEF ReceiveFlood
    <3> HIDE DEF S
    <3> QED BY <3>1 DEF S, TerminalStatuses, RecordedReasons
  <2>4. CASE \E status \in ReportedStatuses : ReceiveTerminal(m, status)
    <3>1. PICK status \in ReportedStatuses : ReceiveTerminal(m, status)
        BY <2>4
    <3>2. S(status, IF status = "completed" THEN "none" ELSE "reported",
            Claimed(m.slot, c))
        BY <3>1 DEF ReceiveTerminal
    <3>3. status \in TerminalStatuses
        BY ReportAssumption
    <3>4. (IF status = "completed" THEN "none" ELSE "reported") \in RecordedReasons
        BY DEF RecordedReasons
    <3> HIDE DEF S
    <3> QED BY <3>2, <3>3, <3>4 DEF S
  <2>5. CASE \E reason \in Reasons : ReceiveFailure(m, reason)
    <3>1. PICK reason \in Reasons : ReceiveFailure(m, reason)
        BY <2>5
    <3>2. S("failed", reason, Claimed(m.slot, c))
        BY <3>1 DEF ReceiveFailure
    <3> HIDE DEF S
    <3> QED BY <3>2 DEF S, TerminalStatuses, RecordedReasons
  <2> QED BY <2>1, <2>2, <2>3, <2>4, <2>5
<1> HIDE DEF c
<1>6. PICK status \in TerminalStatuses, reason \in RecordedReasons,
           cl \in {claims, Claimed(m.slot, c)} :
            SettleCheck(m, Terminalize(checks[c], status, reason), cl)
    BY <1>5
<1>7. /\ Terminalize(checks[c], status, reason) \in Records
      /\ Terminalize(checks[c], status, reason).phase = "terminal"
      /\ Terminalize(checks[c], status, reason).job = NoJob
    BY <1>2, TerminalizeType
<1>8. cl \in ClaimsOf(plan)
    BY <1>3
<1> QED BY <1>1, <1>4, <1>6, <1>7, <1>8, CheckSettled

LEMMA OversizedChunk ==
    ASSUME IInv, NEW m \in Traffic, NEW occs \in Chunks, ReceiveOversized(m, occs)
    PROVE  IInv'
<1> DEFINE c == jobs[m.job]
           r0 == [checks[c] EXCEPT !.unacked = @ + 1]
           r == Terminalize(r0, "failed", "resource_limit")
<1>1. Admit(m) /\ m.job \in DOMAIN jobs
    BY DEF ReceiveOversized, Delivered
<1>2. c \in plan /\ checks[c] \in Records
    BY <1>1, AdmittedRuns
<1>3. r0 \in Records
    BY <1>2 DEF Records
<1>4. /\ SettleCheck(m, r, Claimed(m.slot, c))
      /\ UNCHANGED settleFrame /\ UNCHANGED <<occurrences, runProduced>>
    BY DEF ReceiveOversized
<1> HIDE DEF r0
<1>5. r \in Records /\ r.phase = "terminal" /\ r.job = NoJob
  <2>1. "failed" \in TerminalStatuses /\ "resource_limit" \in RecordedReasons
      BY DEF TerminalStatuses, RecordedReasons
  <2> QED BY <1>3, <2>1, TerminalizeType
<1>6. Claimed(m.slot, c) \in ClaimsOf(plan)
    BY <1>2, ClaimedType
<1> HIDE DEF r, c
<1> QED BY <1>1, <1>4, <1>5, <1>6, CheckSettled

(***************************************************************************)
(* Messages after which their check is still running.                      *)
(***************************************************************************)
LEMMA InertMessage ==
    ASSUME IInv, NEW m \in Traffic, ReceiveInert(m)
    PROVE  IInv'
<1>1. /\ Admit(m) /\ m.job \in DOMAIN jobs
      /\ registry' = Seen(m) /\ claims' = Claimed(m.slot, jobs[m.job])
      /\ UNCHANGED <<lifeVars, active, plan, deps, checks, jobs, jobCounter,
                     occurrences, runProduced, outbox, deadline, cancelRequested,
                     runStatus, timers, runOwned, hostVars>>
    BY DEF ReceiveInert, Delivered
<1>2. fileState = "running" /\ jobs[m.job] \in plan
    BY <1>1, AdmittedRuns
<1>3. /\ registry' \in Registries(DOMAIN registry) /\ DOMAIN registry' = DOMAIN registry
      /\ \A j \in DOMAIN registry : registry'[j].terminal = registry[j].terminal
    BY <1>1, SeenType DEF Registries
<1>4. claims' \in ClaimsOf(plan)
    BY <1>1, <1>2, ClaimedType
<1>5. TypeOK'
    BY <1>1, <1>3, <1>4 DEF IInv, TypeOK, Registries, ClaimsOf, lifeVars, hostVars
<1>6. Watched(checks, registry, timers)'
    BY <1>1, <1>3 DEF IInv, Watched, Running
<1>7. NothingRunsYet' /\ SettledIsQuiet'
    BY <1>1, <1>2 DEF NothingRunsYet, SettledIsQuiet, lifeVars
<1>8. Binding(checks, jobs, jobCounter)' /\ IsFiniteSet(outbox')
    BY <1>1 DEF IInv
<1> QED BY <1>5, <1>6, <1>7, <1>8 DEF IInv

LEMMA ChunkAccepted ==
    ASSUME IInv, NEW m \in Traffic, NEW occs \in Chunks, ReceiveChunk(m, occs)
    PROVE  IInv'
<1> DEFINE c == jobs[m.job]
           ev == Evidence(m, occs)
           u == checks[c].unacked + 1
           t == checks[c].retained \o ev
           b == checks[c].bytes + ChunkBytes[occs]
<1>1. /\ Admit(m) /\ m.job \in DOMAIN jobs
      /\ checks' = [checks EXCEPT ![c].unacked = @ + 1, ![c].retained = @ \o ev,
                                  ![c].bytes = @ + ChunkBytes[occs]]
      /\ occurrences' = occurrences \cup {occs[i] : i \in 1..Len(occs)}
      /\ runProduced' = runProduced + Len(occs)
      /\ outbox' = outbox \cup {Intent("ack", m.job, c, m.seq)}
      /\ registry' = Seen(m)
      /\ claims' = Claimed(m.slot, c)
      /\ UNCHANGED <<lifeVars, active, plan, deps, jobs, jobCounter, deadline,
                     cancelRequested, runStatus, timers, runOwned, hostVars>>
    BY DEF ReceiveChunk, Delivered
<1>2. /\ fileState = "running" /\ c \in plan /\ checks[c] \in Records
      /\ checks[c].phase = "running" /\ checks[c].job = m.job
      /\ m.gen \in Nat /\ m.seq \in Nat
    BY <1>1, AdmittedRuns
<1>3. /\ checks \in [plan -> Records] /\ plan \subseteq Checks
      /\ m.job \in Nat \ {0}
    BY <1>1 DEF IInv, TypeOK
<1>4. occs \in Seq(Occurrences) /\ Len(occs) \in Nat /\ ChunkBytes[occs] \in Nat
    BY ChunkAssumption
<1>5. ev \in Seq(EvidenceItems)
  <2>1. \A i \in 1..Len(occs) :
            [id |-> occs[i], gen |-> m.gen, job |-> m.job] \in EvidenceItems
      BY <1>2, <1>3, <1>4 DEF EvidenceItems
  <2> QED BY <1>4, <2>1 DEF Evidence
<1>6. u \in Int /\ t \in Seq(EvidenceItems) /\ b \in Nat
  <2>1. /\ checks[c].unacked \in Int /\ checks[c].bytes \in Nat
        /\ checks[c].retained \in Seq(EvidenceItems)
      BY <1>2 DEF Records
  <2> HIDE DEF ev
  <2> QED BY <2>1, <1>4, <1>5
<1>7. checks' = [checks EXCEPT ![c] = [checks[c] EXCEPT !.unacked = u, !.retained = t,
                                                      !.bytes = b]]
    BY <1>1, <1>2, <1>3, Zenon DEF Records
<1> DEFINE r == [checks[c] EXCEPT !.unacked = u, !.retained = t, !.bytes = b]
<1> HIDE DEF u, t, b, ev
<1>8. r \in Records /\ r.phase = "running" /\ r.job = m.job
    BY <1>2, <1>6, Zenon DEF Records
<1> HIDE DEF r
<1>9. /\ checks' \in [plan -> Records]
      /\ \A d \in plan : /\ checks'[d].phase = checks[d].phase
                         /\ checks'[d].job = checks[d].job
    BY <1>2, <1>3, <1>7, <1>8 DEF r
<1>10. /\ registry' \in Registries(DOMAIN registry)
       /\ DOMAIN registry' = DOMAIN registry
       /\ \A j \in DOMAIN registry : registry'[j].terminal = registry[j].terminal
    BY <1>1, SeenType DEF Registries
<1>11. claims' \in ClaimsOf(plan)
    BY <1>1, <1>2, ClaimedType
<1>12. outbox' \subseteq Intents /\ IsFiniteSet(outbox')
  <2>1. Intent("ack", m.job, c, m.seq) \in Intents
      BY <1>2, <1>3 DEF Intent, Intents
  <2>2. IsFiniteSet(outbox \cup {Intent("ack", m.job, c, m.seq)})
      BY FS_AddElement DEF IInv
  <2> QED BY <2>1, <2>2, <1>1 DEF IInv, TypeOK
<1>13. occurrences' \subseteq Occurrences /\ runProduced' \in Nat
    BY <1>1, <1>4 DEF IInv, TypeOK
<1>14. Binding(checks', jobs', jobCounter')
  <2>1. DOMAIN checks' = plan /\ jobs' = jobs /\ jobCounter' = jobCounter
      BY <1>1, <1>9
  <2>2. \A d \in plan :
            /\ checks'[d].phase = "running" =>
                    checks'[d].job \in DOMAIN jobs /\ jobs[checks'[d].job] = d
            /\ checks'[d].phase # "running" => checks'[d].job = NoJob
      BY <1>3, <1>9 DEF IInv, Binding
  <2>3. \A j \in DOMAIN jobs :
            /\ j \in 1..jobCounter /\ jobs[j] \in plan
            /\ checks'[jobs[j]].phase = "running" /\ checks'[jobs[j]].job = j
      BY <1>3, <1>9 DEF IInv, Binding
  <2> QED BY <2>1, <2>2, <2>3 DEF Binding
<1>15. Watched(checks', registry', timers')
  <2>1. DOMAIN checks' = plan /\ DOMAIN checks = plan /\ timers' = timers
      BY <1>1, <1>3, <1>9
  <2>2. \A d \in plan : checks[d].phase = "running" =>
            /\ checks[d].job \in timers /\ checks[d].job \in DOMAIN registry
            /\ ~registry[checks[d].job].terminal
      BY <2>1 DEF IInv, Watched, Running
  <2>3. \A d \in plan : checks'[d].phase = "running" =>
            /\ checks'[d].job \in timers' /\ checks'[d].job \in DOMAIN registry'
            /\ ~registry'[checks'[d].job].terminal
      BY <1>9, <1>10, <2>1, <2>2
  <2> QED BY <2>1, <2>3 DEF Watched, Running
<1>16. NothingRunsYet' /\ SettledIsQuiet'
    BY <1>1, <1>2 DEF NothingRunsYet, SettledIsQuiet, lifeVars
<1>17. TypeOK'
    BY <1>1, <1>9, <1>10, <1>11, <1>12, <1>13
    DEF IInv, TypeOK, Registries, ClaimsOf, lifeVars, hostVars
<1> QED BY <1>12, <1>14, <1>15, <1>16, <1>17 DEF IInv

LEMMA CrashRetried ==
    ASSUME IInv, NEW m \in Traffic, NEW reason \in Reasons, ReceiveCrash(m, reason)
    PROVE  IInv'
<1> DEFINE c == jobs[m.job]
           new == jobCounter + 1
           n == checks[c].attempts + 1
           r == [checks[c] EXCEPT !.attempts = n, !.job = new]
<1>1. /\ Admit(m) /\ m.job \in DOMAIN jobs
      /\ checks' = [checks EXCEPT ![c] = Retried(@, new)]
      /\ registry' = Register(CloseJobs(Seen(m), {m.job}), {new})
      /\ jobs' = [j \in (DOMAIN jobs \ {m.job}) \cup {new} |->
                        IF j = new THEN c ELSE jobs[j]]
      /\ jobCounter' = new
      /\ outbox' = outbox \cup {Intent("terminate", m.job, c, 0),
                                Intent("dispatch", new, c, 0)}
      /\ timers' = RetryTimers(new)
      /\ claims' = Claimed(m.slot, c)
      /\ UNCHANGED <<lifeVars, active, plan, deps, occurrences, runProduced,
                     deadline, cancelRequested, runStatus, runOwned, hostVars>>
    BY DEF ReceiveCrash, Delivered
<1>2. /\ fileState = "running" /\ c \in plan /\ checks[c] \in Records
      /\ checks[c].phase = "running" /\ checks[c].job = m.job
      /\ m.job \in DOMAIN registry
    BY <1>1, AdmittedRuns
<1>3. /\ checks \in [plan -> Records] /\ plan \subseteq Checks
      /\ jobs \in [DOMAIN jobs -> plan]
      /\ m.job \in Nat \ {0} /\ jobCounter \in Nat
      /\ \A j \in DOMAIN jobs : j \in 1..jobCounter
    BY <1>1 DEF IInv, TypeOK, Binding
<1>4. n \in Nat /\ new \in Nat \ {0}
  <2>1. checks[c].attempts \in Nat
      BY <1>2, Zenon DEF Records
  <2>2. n = checks[c].attempts + 1 /\ new = jobCounter + 1 /\ jobCounter \in Nat
      BY <1>3
  <2> HIDE DEF n, new, c
  <2> QED BY <2>1, <2>2
<1>5. checks' = [checks EXCEPT ![c] = r]
    BY <1>1, <1>2, <1>3, Zenon DEF Retried, Records
<1> HIDE DEF n
<1>6. r \in Records /\ r.phase = "running" /\ r.job = new
    BY <1>2, <1>4, Zenon DEF Records
<1> HIDE DEF r
<1>7. /\ checks' \in [plan -> Records] /\ checks'[c] = r
      /\ \A d \in plan \ {c} : checks'[d] = checks[d]
    BY <1>2, <1>3, <1>5, <1>6
<1>8. /\ DOMAIN jobs' = (DOMAIN jobs \ {m.job}) \cup {new}
      /\ jobs'[new] = c /\ \A j \in DOMAIN jobs \ {m.job} : jobs'[j] = jobs[j]
      /\ new \notin DOMAIN jobs
    BY <1>1, <1>3
<1>9. Binding(checks', jobs', jobCounter')
  <2>1. ASSUME NEW d \in plan, checks'[d].phase = "running"
        PROVE  checks'[d].job \in DOMAIN jobs' /\ jobs'[checks'[d].job] = d
    <3>1. CASE d = c
        BY <3>1, <1>6, <1>7, <1>8
    <3>2. CASE d # c
      <4>1. checks'[d] = checks[d]
          BY <3>2, <1>7
      <4>2. checks[d].job \in DOMAIN jobs /\ jobs[checks[d].job] = d
          BY <2>1, <4>1, <1>3 DEF IInv, Binding
      <4> QED BY <3>2, <4>1, <4>2, <1>8
    <3> QED BY <3>1, <3>2
  <2>2. ASSUME NEW d \in plan, checks'[d].phase # "running"
        PROVE  checks'[d].job = NoJob
    <3>1. d # c
        BY <2>2, <1>6, <1>7
    <3>2. checks'[d] = checks[d]
        BY <3>1, <1>7
    <3> QED BY <2>2, <3>2, <1>3 DEF IInv, Binding
  <2>3. ASSUME NEW j \in DOMAIN jobs'
        PROVE  /\ j \in 1..jobCounter' /\ jobs'[j] \in plan
               /\ checks'[jobs'[j]].phase = "running" /\ checks'[jobs'[j]].job = j
    <3>1. CASE j = new
        BY <3>1, <1>1, <1>2, <1>4, <1>6, <1>7, <1>8
    <3>2. CASE j # new
      <4>1. j \in DOMAIN jobs \ {m.job} /\ jobs'[j] = jobs[j]
          BY <3>2, <1>8
      <4>2. /\ j \in 1..jobCounter /\ jobs[j] \in plan
            /\ checks[jobs[j]].phase = "running" /\ checks[jobs[j]].job = j
          BY <4>1, <1>3 DEF IInv, Binding
      <4>3. jobs[j] # c
          BY <4>1, <4>2, <1>2
      <4> QED BY <4>1, <4>2, <4>3, <1>1, <1>3, <1>7
    <3> QED BY <3>1, <3>2
  <2>4. DOMAIN checks' = plan
      BY <1>7
  <2> QED BY <2>1, <2>2, <2>3, <2>4 DEF Binding
<1>10. /\ DOMAIN registry' = DOMAIN registry \cup {new}
       /\ registry' \in Registries(DOMAIN registry')
       /\ ~registry'[new].terminal
       /\ \A j \in DOMAIN registry \ {new, m.job} :
                registry'[j].terminal = registry[j].terminal
  <2>1. /\ Seen(m) \in Registries(DOMAIN registry)
        /\ \A j \in DOMAIN registry : Seen(m)[j].terminal = registry[j].terminal
      BY <1>1, SeenType
  <2>2. \A j \in DOMAIN registry :
            [Seen(m)[j] EXCEPT !.terminal = TRUE] \in [last : Nat \cup {-1}, terminal : BOOLEAN]
      BY <2>1 DEF Registries
  <2> DEFINE closed == CloseJobs(Seen(m), {m.job})
  <2>3. /\ closed \in Registries(DOMAIN registry)
        /\ \A j \in DOMAIN registry \ {m.job} : closed[j] = Seen(m)[j]
      BY <2>1, <2>2 DEF CloseJobs, Registries
  <2> HIDE DEF closed
  <2>4. [last |-> -1, terminal |-> FALSE] \in [last : Nat \cup {-1}, terminal : BOOLEAN]
      OBVIOUS
  <2>5. registry' = Register(closed, {new})
      BY <1>1 DEF closed
  <2> QED BY <2>1, <2>3, <2>4, <2>5 DEF Register, Registries
<1>11. Watched(checks', registry', timers')
  <2> SUFFICES ASSUME NEW d \in plan, checks'[d].phase = "running"
               PROVE  /\ checks'[d].job \in timers'
                      /\ checks'[d].job \in DOMAIN registry'
                      /\ ~registry'[checks'[d].job].terminal
      BY <1>7 DEF Watched, Running
  <2>1. timers' = timers \cup {new}
      BY <1>1 DEF RetryTimers
  <2>2. CASE d = c
      BY <2>1, <2>2, <1>6, <1>7, <1>10
  <2>3. CASE d # c
    <3>1. checks'[d] = checks[d]
        BY <2>3, <1>7
    <3>2. checks[d].job \in DOMAIN jobs /\ jobs[checks[d].job] = d
        BY <3>1, <1>3 DEF IInv, Binding
    <3>3. checks[d].job \notin {new, m.job}
        BY <2>3, <3>2, <1>8
    <3>4. /\ checks[d].job \in timers /\ checks[d].job \in DOMAIN registry
          /\ ~registry[checks[d].job].terminal
        BY <3>1, <1>3 DEF IInv, Watched, Running
    <3> QED BY <2>1, <3>1, <3>3, <3>4, <1>10
  <2> QED BY <2>2, <2>3
<1>12. outbox' \subseteq Intents /\ IsFiniteSet(outbox')
  <2>1. Intent("terminate", m.job, c, 0) \in Intents /\ Intent("dispatch", new, c, 0) \in Intents
      BY <1>2, <1>3, <1>4 DEF Intent, Intents
  <2>2. IsFiniteSet((outbox \cup {Intent("terminate", m.job, c, 0)})
                        \cup {Intent("dispatch", new, c, 0)})
      BY FS_AddElement DEF IInv
  <2>3. outbox' = (outbox \cup {Intent("terminate", m.job, c, 0)})
                        \cup {Intent("dispatch", new, c, 0)}
      BY <1>1
  <2> QED BY <2>1, <2>2, <2>3 DEF IInv, TypeOK
<1>13. claims' \in ClaimsOf(plan)
    BY <1>1, <1>2, ClaimedType
<1>14. NothingRunsYet' /\ SettledIsQuiet'
    BY <1>1, <1>2 DEF NothingRunsYet, SettledIsQuiet, lifeVars
<1>15. TypeOK'
  <2>1. jobs' \in [DOMAIN jobs' -> plan] /\ DOMAIN jobs' \subseteq Nat \ {0}
      BY <1>1, <1>2, <1>3, <1>4, <1>8 DEF IInv, TypeOK
  <2>2. DOMAIN registry' \subseteq Nat \ {0} /\ timers' \subseteq Nat
      BY <1>1, <1>4, <1>10 DEF RetryTimers, IInv, TypeOK
  <2> QED BY <2>1, <2>2, <1>1, <1>4, <1>7, <1>10, <1>12, <1>13
          DEF IInv, TypeOK, Registries, ClaimsOf, lifeVars, hostVars
<1> QED BY <1>9, <1>11, <1>12, <1>14, <1>15 DEF IInv

(***************************************************************************)
(* Cancel, clear, new run.                                                 *)
(***************************************************************************)
LEMMA NothingHeld ==
    /\ Empty \in Registries({}) /\ DOMAIN Empty = {}
    /\ Inactive \in [gen : Nat, doc : Documents \cup {NoDoc}, key : SUBSET Checks]
BY DEF Empty, Registries, Inactive

LEMMA RequestCancelInv == IInv /\ RequestCancel => IInv'
<1> SUFFICES ASSUME IInv, RequestCancel PROVE IInv'
    OBVIOUS
<1> DEFINE ck == EndLive("cancelled", "user_cancel")
<1>1. /\ ck \in [plan -> Records]
      /\ \A c \in plan : ck[c].phase = "terminal" /\ ck[c].job = NoJob
      /\ LiveJobs = DOMAIN jobs
  <2>1. "cancelled" \in TerminalStatuses /\ "user_cancel" \in RecordedReasons
      BY DEF TerminalStatuses, RecordedReasons
  <2> QED BY <2>1, AllEnded
<1> HIDE DEF ck
<1>2. /\ fileState' = "cancelled" /\ cancelRequested' = TRUE
      /\ runStatus' = "cancelled" /\ checks' = ck
      /\ outbox' = outbox \cup TerminateIntents(LiveJobs)
                       \cup {Intent("cancel", j, jobs[j], 0) : j \in LiveJobs}
      /\ jobs' = [j \in DOMAIN jobs \ LiveJobs |-> jobs[j]]
      /\ timers' = {} /\ runOwned' = {} /\ open' = open \ runOwned
      /\ generation' = generation + 1
      /\ active' = Inactive /\ registry' = Empty
      /\ UNCHANGED <<document, plan, deps, jobCounter, occurrences, runProduced,
                     claims, deadline, fileOwned, pendingIntents, late>>
    BY DEF RequestCancel, TeardownRun, Invalidate, ck
<1>3. DOMAIN jobs' = {}
    BY <1>1, <1>2
<1>4. Binding(checks', jobs', jobCounter') /\ Watched(checks', registry', timers')
    BY <1>1, <1>2, <1>3 DEF Binding, Watched, Running
<1>5. outbox' \subseteq Intents /\ IsFiniteSet(outbox')
  <2> DEFINE T == [j \in LiveJobs |-> Intent("terminate", j, jobs[j], 0)]
             D == [j \in LiveJobs |-> Intent("cancel", j, jobs[j], 0)]
  <2>1. \A j \in LiveJobs : /\ j \in Nat \ {0} /\ jobs[j] \in Checks
                            /\ j \in 1..jobCounter
      BY <1>1 DEF IInv, TypeOK, Binding
  <2>2. \A j \in LiveJobs : T[j] \in Intents /\ D[j] \in Intents
      BY <2>1 DEF Intents, Intent
  <2>3. IsFiniteSet(LiveJobs)
    <3>1. jobCounter \in Nat
        BY DEF IInv, TypeOK
    <3>2. 1 \in Int /\ jobCounter \in Int
        BY <3>1
    <3>3. IsFiniteSet(1..jobCounter)
        BY <3>2, FS_Interval, Zenon
    <3>4. LiveJobs \in SUBSET (1..jobCounter)
        BY <2>1
    <3> QED BY <3>3, <3>4, FS_Subset
  <2>4. T = [j \in LiveJobs |-> T[j]] /\ D = [j \in LiveJobs |-> D[j]]
      OBVIOUS
  <2>5. outbox' = outbox \cup {T[j] : j \in LiveJobs} \cup {D[j] : j \in LiveJobs}
      BY <1>2 DEF TerminateIntents
  <2> HIDE DEF T, D
  <2>6. IsFiniteSet({T[j] : j \in LiveJobs}) /\ IsFiniteSet({D[j] : j \in LiveJobs})
      BY <2>3, <2>4, FiniteImage
  <2>7. IsFiniteSet(outbox')
      BY <2>5, <2>6, FS_Union DEF IInv
  <2>8. outbox' \subseteq Intents
      BY <2>2, <2>5 DEF IInv, TypeOK
  <2> QED BY <2>7, <2>8
<1>6. NothingRunsYet' /\ SettledIsQuiet'
    BY <1>2, <1>3, NothingHeld DEF NothingRunsYet, SettledIsQuiet, RunStates
<1>7. TypeOK'
    BY <1>1, <1>2, <1>3, <1>5, NothingHeld
    DEF IInv, TypeOK, Registries, FileStates, RunStates
<1> QED BY <1>4, <1>5, <1>6, <1>7 DEF IInv

\* this.run = null leaves nothing of the run.
LEMMA RunDropped ==
    ASSUME DropRun
    PROVE  /\ plan' = {} /\ checks' = Empty /\ jobs' = Empty /\ DOMAIN jobs' = {}
           /\ checks' \in [plan' -> Records] /\ jobs' \in [DOMAIN jobs' -> plan']
           /\ DOMAIN deps' \subseteq plan' /\ deps' \in [DOMAIN deps' -> SUBSET plan']
           /\ claims' \in [plan' -> {"none", "pdf_bytes", "raster_rgba"}]
           /\ jobCounter' = 0 /\ runProduced' = 0 /\ occurrences' = {}
           /\ outbox' = {} /\ IsFiniteSet(outbox') /\ deadline' = "none"
           /\ cancelRequested' = FALSE /\ runStatus' = "none"
           /\ Running(checks') = {}
           /\ Binding(checks', jobs', jobCounter')
           /\ \A reg, armed : Watched(checks', reg, armed)
<1>1. DOMAIN Empty = {} /\ \A T : Empty \in [{} -> T]
    BY DEF Empty
<1> QED BY <1>1, FS_EmptySet DEF DropRun, Running, Binding, Watched

LEMMA RequestClearInv ==
    ASSUME IInv, NEW next \in {"idle", "replace"}, RequestClear(next)
    PROVE  IInv'
<1>1. /\ DropRun /\ generation' = generation + 1
      /\ active' = Inactive /\ registry' = Empty
      /\ pendingIntents' = pendingIntents \cup TerminateIntents(DOMAIN jobs)
      /\ timers' = {} /\ runOwned' = {} /\ fileOwned' = {}
      /\ open' = open \ (runOwned \cup fileOwned)
      /\ document' = NoDoc /\ late' = late
      /\ fileState' \in {"validating_file", "idle"}
    BY DEF RequestClear, Invalidate
<1>2. TerminateIntents(DOMAIN jobs) \subseteq Intents
  <2>1. \A j \in DOMAIN jobs : j \in Nat \ {0} /\ jobs[j] \in Checks
      BY DEF IInv, TypeOK
  <2> QED BY <2>1 DEF TerminateIntents, Intents, Intent
<1>3. TypeOK'
    BY <1>1, <1>2, RunDropped, NothingHeld
    DEF IInv, TypeOK, Registries, FileStates, RunStates
<1>4. NothingRunsYet' /\ SettledIsQuiet'
    BY <1>1, RunDropped, NothingHeld DEF NothingRunsYet, SettledIsQuiet
<1> QED BY <1>1, <1>3, <1>4, RunDropped DEF IInv

LEMMA PrepareNewRunInv == IInv /\ PrepareNewRun => IInv'
<1> SUFFICES ASSUME IInv, PrepareNewRun PROVE IInv'
    OBVIOUS
<1>1. /\ DropRun /\ runOwned' = {} /\ fileState \in RunStates
      /\ fileState' = "selecting"
      /\ UNCHANGED <<generation, document, authorityVars, timers, hostVars>>
    BY DEF PrepareNewRun
<1>2. SettledIsQuiet'
    BY <1>1, RunDropped
    DEF IInv, SettledIsQuiet, RunStates, authorityVars
<1>3. TypeOK'
    BY <1>1, RunDropped
    DEF IInv, TypeOK, FileStates, RunStates, authorityVars, hostVars
<1>4. NothingRunsYet'
    BY <1>1 DEF NothingRunsYet
<1>5. /\ IsFiniteSet(outbox') /\ Binding(checks', jobs', jobCounter')
      /\ Watched(checks', registry', timers')
    BY <1>1, RunDropped
<1> QED BY <1>2, <1>3, <1>4, <1>5 DEF IInv

(***************************************************************************)
(* Starting a run.                                                         *)
(***************************************************************************)
LEMMA FreshLedger ==
    ASSUME NEW p
    PROVE  /\ BuildRecords(p) \in [p -> Records]
           /\ \A c \in p : /\ BuildRecords(p)[c].phase = "queued"
                           /\ BuildRecords(p)[c].job = NoJob
<1>1. NewRecord \in Records
  <2>1. <<>> \in Seq(EvidenceItems)
      OBVIOUS
  <2>2. "none" \in RecordedReasons
      BY DEF RecordedReasons
  <2> QED BY <2>1, <2>2 DEF NewRecord, Records, Phases, NoJob
<1> QED BY <1>1 DEF BuildRecords, NewRecord

LEMMA StartRunInv ==
    ASSUME IInv, NEW p \in Plans, NEW budget \in BOOLEAN, NEW needsAssets \in BOOLEAN,
           NEW dep \in DependencyChoices(p), StartRun(p, dep, budget, needsAssets)
    PROVE  IInv'
<1> DEFINE armed == timers \cup (IF budget THEN {RunTimer} ELSE {})
<1>1. /\ fileState = "selecting" /\ document # NoDoc
      /\ ValidateDependencies(dep, p)
      /\ generation' = generation + 1
      /\ active' = [gen |-> generation + 1, doc |-> document, key |-> p]
      /\ plan' = p /\ deps' = dep
      /\ deadline' = IF budget THEN "ahead" ELSE "none"
      /\ occurrences' = {} /\ runProduced' = 0 /\ claims' = [c \in p |-> "none"]
      /\ cancelRequested' = FALSE /\ runStatus' = "none" /\ runOwned' = {}
      /\ UNCHANGED <<document, hostVars>>
      /\ IF needsAssets
         THEN /\ fileState' = "preparing_assets"
              /\ checks' = BuildRecords(p) /\ jobs' = Empty /\ jobCounter' = 0
              /\ registry' = Empty /\ outbox' = {} /\ timers' = armed
         ELSE EnterRunning(BuildRecords(p), dep, armed)
    BY DEF StartRun
<1>2. p \in SUBSET Checks
    BY PlanAssumption
<1>3. DOMAIN dep \subseteq p /\ dep \in [DOMAIN dep -> SUBSET p]
  <2>1. DOMAIN dep \subseteq p /\ \A c \in DOMAIN dep : dep[c] \subseteq p
      BY <1>1 DEF ValidateDependencies
  <2>2. dep = [c \in DOMAIN dep |-> dep[c]]
      BY PlanAssumption DEF DependencyChoices, DeriveDependencies
  <2> QED BY <2>1, <2>2
<1>4. armed \in SUBSET Nat
    BY DEF IInv, TypeOK, RunTimer
<1> HIDE DEF armed
<1>5. /\ fileState' \in {"preparing_assets", "running"}
      /\ checks' \in [p -> Records]
      /\ jobs' \in [DOMAIN jobs' -> p] /\ DOMAIN jobs' \subseteq Nat \ {0}
      /\ jobCounter' \in Nat
      /\ Binding(checks', jobs', jobCounter')
      /\ Watched(checks', registry', timers')
      /\ DOMAIN registry' \subseteq Nat \ {0}
      /\ registry' \in Registries(DOMAIN registry')
      /\ timers' \subseteq Nat
      /\ IsFiniteSet(outbox') /\ outbox' \subseteq Intents
      /\ NothingRunsYet'
  <2>1. CASE needsAssets
    <3>1. /\ fileState' = "preparing_assets"
          /\ checks' = BuildRecords(p) /\ jobs' = Empty /\ jobCounter' = 0
          /\ registry' = Empty /\ outbox' = {} /\ timers' = armed
        BY <1>1, <2>1
    <3>2. /\ checks' \in [p -> Records]
          /\ \A c \in p : checks'[c].phase = "queued" /\ checks'[c].job = NoJob
        BY <3>1, FreshLedger
    <3>3. jobs' \in [DOMAIN jobs' -> p] /\ DOMAIN jobs' = {}
        BY <3>1 DEF Empty
    <3>4. Running(checks') = {}
        BY <3>2 DEF Running
    <3>5. Binding(checks', jobs', jobCounter')
        BY <3>2, <3>3 DEF Binding
    <3>6. Watched(checks', registry', timers') /\ NothingRunsYet'
        BY <3>4 DEF Watched, NothingRunsYet
    <3> QED BY <3>1, <3>2, <3>3, <3>5, <3>6, <1>4, NothingHeld, FS_EmptySet
  <2>2. CASE ~needsAssets
    <3>1. EnterRunning(BuildRecords(p), dep, armed)
        BY <1>1, <2>2
    <3>2. /\ BuildRecords(p) \in [p -> Records]
          /\ \A c \in p : /\ BuildRecords(p)[c].phase # "running"
                          /\ BuildRecords(p)[c].job = NoJob
        BY FreshLedger
    <3> QED BY <3>1, <3>2, <1>2, <1>4, Entered DEF NothingRunsYet
  <2> QED BY <2>1, <2>2
<1>6. active' \in [gen : Nat, doc : Documents \cup {NoDoc}, key : SUBSET Checks]
    BY <1>1, <1>2 DEF IInv, TypeOK
<1>7. TypeOK'
    BY <1>1, <1>2, <1>3, <1>5, <1>6
    DEF IInv, TypeOK, Registries, FileStates, RunStates, hostVars
<1>8. SettledIsQuiet'
    BY <1>5 DEF SettledIsQuiet
<1> QED BY <1>5, <1>7, <1>8 DEF IInv

LEMMA AssetsReadyInv == IInv /\ AssetsReady => IInv'
<1> SUFFICES ASSUME IInv, AssetsReady PROVE IInv'
    OBVIOUS
<1>1. /\ fileState = "preparing_assets" /\ EnterRunning(checks, deps, timers)
      /\ UNCHANGED <<generation, document, active, plan, deps, occurrences,
                     runProduced, claims, deadline, cancelRequested, runStatus,
                     runOwned, hostVars>>
    BY DEF AssetsReady
<1>2. /\ plan \in SUBSET Checks /\ checks \in [plan -> Records]
      /\ timers \in SUBSET Nat
    BY DEF IInv, TypeOK
<1>3. \A c \in plan : checks[c].phase # "running" /\ checks[c].job = NoJob
  <2>1. Running(checks) = {}
      BY <1>1 DEF IInv, NothingRunsYet
  <2>2. \A c \in plan : checks[c].phase # "running"
      BY <2>1, <1>2 DEF Running
  <2> QED BY <2>2, <1>2 DEF IInv, Binding
<1>4. /\ fileState' = "running"
      /\ checks' \in [plan -> Records]
      /\ jobs' \in [DOMAIN jobs' -> plan] /\ DOMAIN jobs' \subseteq Nat \ {0}
      /\ jobCounter' \in Nat
      /\ Binding(checks', jobs', jobCounter')
      /\ Watched(checks', registry', timers')
      /\ DOMAIN registry' \subseteq Nat \ {0}
      /\ registry' \in Registries(DOMAIN registry')
      /\ timers' \subseteq Nat
      /\ IsFiniteSet(outbox') /\ outbox' \subseteq Intents
    BY <1>1, <1>2, <1>3, Entered
<1>5. NothingRunsYet' /\ SettledIsQuiet'
    BY <1>4 DEF NothingRunsYet, SettledIsQuiet
<1>6. TypeOK'
    BY <1>1, <1>4 DEF IInv, TypeOK, Registries, FileStates, hostVars
<1> QED BY <1>4, <1>5, <1>6 DEF IInv

(***************************************************************************)
(* Draining hands out acks, which only lowers the window counters.         *)
(***************************************************************************)
LEMMA DrainOutboxInv == IInv /\ DrainOutbox => IInv'
<1> SUFFICES ASSUME IInv, DrainOutbox PROVE IInv'
    OBVIOUS
<1> DEFINE u(c) == checks[c].unacked - Cardinality(AcksFor(c))
<1>1. /\ outbox' = {} /\ pendingIntents' = {}
      /\ checks' = [c \in DOMAIN checks |->
                        [checks[c] EXCEPT !.unacked = @ - Cardinality(AcksFor(c))]]
      /\ UNCHANGED <<lifeVars, authorityVars, plan, deps, jobs, jobCounter,
                     occurrences, runProduced, claims, deadline, cancelRequested,
                     runStatus, timers, runOwned, fileOwned, open, late>>
    BY DEF DrainOutbox
<1>2. checks \in [plan -> Records]
    BY DEF IInv, TypeOK
<1>3. ASSUME NEW c \in plan
      PROVE  u(c) \in Int
  <2>1. checks[c].unacked \in Int
      BY <1>2 DEF Records
  <2>2. AcksFor(c) \in SUBSET outbox
      BY DEF AcksFor
  <2>3. Cardinality(AcksFor(c)) \in Nat
      BY <2>2, FS_Subset, FS_CardinalityType DEF IInv
  <2> QED BY <2>1, <2>3
<1>4. checks' = [c \in plan |-> [checks[c] EXCEPT !.unacked = u(c)]]
  <2>1. \A c \in plan :
            [checks[c] EXCEPT !.unacked = @ - Cardinality(AcksFor(c))] =
                [checks[c] EXCEPT !.unacked = u(c)]
      BY <1>2 DEF Records
  <2> QED BY <1>1, <1>2, <2>1
<1> HIDE DEF u
<1>5. ASSUME NEW c \in plan
      PROVE  /\ [checks[c] EXCEPT !.unacked = u(c)] \in Records
             /\ [checks[c] EXCEPT !.unacked = u(c)].phase = checks[c].phase
             /\ [checks[c] EXCEPT !.unacked = u(c)].job = checks[c].job
  <2>1. checks[c] \in Records /\ u(c) \in Int
      BY <1>2, <1>3
  <2> QED BY <2>1 DEF Records
<1>6. /\ checks' \in [plan -> Records]
      /\ \A c \in plan : /\ checks'[c].phase = checks[c].phase
                         /\ checks'[c].job = checks[c].job
    BY <1>4, <1>5
<1>7. Binding(checks', jobs', jobCounter')
  <2>1. DOMAIN checks' = plan /\ jobs' = jobs /\ jobCounter' = jobCounter
      BY <1>1, <1>6
  <2>2. \A d \in plan :
            /\ checks'[d].phase = "running" =>
                    checks'[d].job \in DOMAIN jobs /\ jobs[checks'[d].job] = d
            /\ checks'[d].phase # "running" => checks'[d].job = NoJob
      BY <1>2, <1>6 DEF IInv, Binding
  <2>3. \A j \in DOMAIN jobs :
            /\ j \in 1..jobCounter /\ jobs[j] \in plan
            /\ checks'[jobs[j]].phase = "running" /\ checks'[jobs[j]].job = j
      BY <1>2, <1>6 DEF IInv, Binding
  <2> QED BY <2>1, <2>2, <2>3 DEF Binding
<1>8. Watched(checks', registry', timers')
  <2>1. timers' = timers /\ registry' = registry /\ DOMAIN checks' = plan
      BY <1>1, <1>6 DEF authorityVars
  <2>2. \A c \in plan : checks[c].phase = "running" =>
            /\ checks[c].job \in timers /\ checks[c].job \in DOMAIN registry
            /\ ~registry[checks[c].job].terminal
      BY <1>2 DEF IInv, Watched, Running
  <2> QED BY <2>1, <2>2, <1>6 DEF Watched, Running
<1>9. NothingRunsYet'
  <2>1. Running(checks') = Running(checks)
      BY <1>2, <1>6 DEF Running
  <2> QED BY <2>1, <1>1 DEF IInv, NothingRunsYet, lifeVars
<1>10. SettledIsQuiet'
    BY <1>1 DEF IInv, SettledIsQuiet, lifeVars, authorityVars
<1>11. TypeOK'
    BY <1>1, <1>6 DEF IInv, TypeOK, lifeVars, authorityVars
<1>12. IsFiniteSet(outbox')
    BY <1>1, FS_EmptySet
<1> QED BY <1>7, <1>8, <1>9, <1>10, <1>11, <1>12 DEF IInv

(***************************************************************************)
(* Steps that leave the ledger and its jobs alone.                         *)
(***************************************************************************)
LEMMA LedgerUntouched ==
    ASSUME IInv, UNCHANGED <<active, registry, checks, jobs, jobCounter, outbox>>,
           TypeOK', SettledIsQuiet',
           fileState' = "preparing_assets" => fileState = "preparing_assets",
           \A c \in Running(checks) : checks[c].job \in timers => checks[c].job \in timers'
    PROVE  IInv'
<1>1. Watched(checks', registry', timers')
  <2>1. checks' = checks /\ registry' = registry
      OBVIOUS
  <2>2. Watched(checks, registry, timers')
      BY DEF IInv, Watched
  <2> QED BY <2>1, <2>2
<1>2. NothingRunsYet' /\ IsFiniteSet(outbox') /\ Binding(checks', jobs', jobCounter')
    BY DEF IInv, NothingRunsYet
<1> QED BY <1>1, <1>2 DEF IInv

LEMMA OpenFileInv == IInv /\ OpenFile => IInv'
<1> SUFFICES ASSUME IInv, OpenFile PROVE IInv'
    OBVIOUS
<1>1. TypeOK' /\ SettledIsQuiet'
    BY DEF IInv, TypeOK, SettledIsQuiet, OpenFile, FileStates, RunStates,
           authorityVars, runVars, hostVars
<1> QED BY <1>1, LedgerUntouched DEF OpenFile, authorityVars, runVars

LEMMA FileValidatedInv == IInv /\ FileValidated => IInv'
<1> SUFFICES ASSUME IInv, FileValidated PROVE IInv'
    OBVIOUS
<1>1. TypeOK' /\ SettledIsQuiet'
    BY DEF IInv, TypeOK, SettledIsQuiet, FileValidated, FileStates, RunStates,
           authorityVars, runVars, hostVars
<1> QED BY <1>1, LedgerUntouched DEF FileValidated, authorityVars, runVars

LEMMA MetadataLoadedInv ==
    ASSUME IInv, NEW doc \in Documents, MetadataLoaded(doc)
    PROVE  IInv'
<1>1. TypeOK' /\ SettledIsQuiet'
    BY DEF IInv, TypeOK, SettledIsQuiet, MetadataLoaded, FileStates, RunStates,
           authorityVars, runVars, hostVars
<1> QED BY <1>1, LedgerUntouched DEF MetadataLoaded, authorityVars, runVars

LEMMA BudgetElapsesInv == IInv /\ BudgetElapses => IInv'
<1> SUFFICES ASSUME IInv, BudgetElapses PROVE IInv'
    OBVIOUS
<1>1. TypeOK' /\ SettledIsQuiet'
    BY DEF IInv, TypeOK, SettledIsQuiet, BudgetElapses, lifeVars, authorityVars,
           hostVars
<1> QED BY <1>1, LedgerUntouched DEF BudgetElapses, lifeVars, authorityVars

LEMMA IgnoredDeadlineInv ==
    ASSUME IInv, NEW t \in timers, IgnoredDeadline(t)
    PROVE  IInv'
<1>1. /\ timers' = timers \ {t}
      /\ UNCHANGED <<lifeVars, authorityVars, plan, deps, checks, jobs,
                     jobCounter, occurrences, runProduced, outbox, claims,
                     deadline, cancelRequested, runStatus, runOwned, hostVars>>
      /\ \/ t = RunTimer
         \/ ~\E c \in Running(checks) : checks[c].job = t
    BY DEF IgnoredDeadline
<1>2. TypeOK'
    BY <1>1 DEF IInv, TypeOK, lifeVars, authorityVars, hostVars
<1>3. SettledIsQuiet'
    BY <1>1 DEF IInv, SettledIsQuiet, lifeVars, authorityVars
<1>4. ASSUME NEW c \in Running(checks)
      PROVE  checks[c].job # RunTimer
  <2>1. checks[c].job \in DOMAIN jobs
      BY DEF IInv, Binding, Running
  <2> QED BY <2>1 DEF IInv, TypeOK, RunTimer
<1> QED BY <1>1, <1>2, <1>3, <1>4, LedgerUntouched DEF lifeVars, authorityVars

LEMMA OwnInv ==
    ASSUME IInv, NEW r \in Resources, Own(r) \/ OwnRunResource(r)
    PROVE  IInv'
<1>1. TypeOK'
    BY DEF IInv, TypeOK, Own, OwnRunResource, lifeVars, authorityVars, runVars
<1>2. SettledIsQuiet'
    BY DEF IInv, SettledIsQuiet, TypeOK, Own, OwnRunResource, lifeVars, authorityVars, runVars
<1> QED BY <1>1, <1>2, LedgerUntouched
        DEF Own, OwnRunResource, lifeVars, authorityVars, runVars

(***************************************************************************)
(* The invariant holds in every reachable state.                           *)
(***************************************************************************)
LEMMA InitInv == Init => IInv
<1> SUFFICES ASSUME Init PROVE IInv
    OBVIOUS
<1>1. DOMAIN Empty = {} /\ \A T : Empty \in [{} -> T]
    BY DEF Empty
<1>2. TypeOK
    BY <1>1, NothingHeld DEF Init, TypeOK, FileStates, Registries
<1>3. Binding(checks, jobs, jobCounter) /\ Watched(checks, registry, timers)
    BY <1>1 DEF Init, Binding, Watched, Running
<1>4. NothingRunsYet /\ SettledIsQuiet /\ IsFiniteSet(outbox)
    BY <1>1, FS_EmptySet DEF Init, NothingRunsYet, SettledIsQuiet
<1> QED BY <1>2, <1>3, <1>4 DEF IInv

LEMMA ReceiveInv ==
    ASSUME IInv, NEW m \in Traffic, Receive(m)
    PROVE  IInv'
<1>1. CASE ReceiveInert(m)
    BY <1>1, InertMessage
<1>2. CASE \E occs \in Chunks : ReceiveOversized(m, occs)
    BY <1>2, OversizedChunk
<1>3. CASE \E occs \in Chunks : ReceiveChunk(m, occs)
    BY <1>3, ChunkAccepted
<1>4. CASE \E reason \in Reasons : ReceiveCrash(m, reason)
    BY <1>4, CrashRetried
<1>5. CASE \/ ReceiveForeign(m) \/ ReceiveOverclaim(m) \/ ReceiveFlood(m)
           \/ \E status \in ReportedStatuses : ReceiveTerminal(m, status)
           \/ \E reason \in Reasons : ReceiveFailure(m, reason)
    BY <1>5, SettlingMessages
<1> QED BY <1>1, <1>2, <1>3, <1>4, <1>5 DEF Receive

LEMMA BoundedTraffic == IInv => Messages \subseteq Traffic
<1> SUFFICES ASSUME IInv, NEW m \in Messages PROVE m \in Traffic
    OBVIOUS
<1>1. /\ m.gen \in Nat /\ m.doc \in Documents /\ m.key \in SUBSET Checks /\ m.job \in Nat
      /\ m.seq \in Nat /\ m.check \in Checks \cup {NoCheck}
      /\ m.slot \in {"none", "pdf_bytes", "raster_rgba"}
    BY PlanAssumption, SlotAssumption, LimitAssumption DEF Messages, IInv, TypeOK
<1>2. m = [gen |-> m.gen, doc |-> m.doc, key |-> m.key, job |-> m.job, seq |-> m.seq,
           check |-> m.check, slot |-> m.slot]
    BY DEF Messages
<1> QED BY <1>1, <1>2 DEF Traffic

LEMMA StepInv == IInv /\ [Step]_vars => IInv'
<1> SUFFICES ASSUME IInv, [Step]_vars PROVE IInv'
    OBVIOUS
<1>1. CASE OpenFile
    BY <1>1, OpenFileInv
<1>2. CASE FileValidated
    BY <1>2, FileValidatedInv
<1>3. CASE \E doc \in Documents : MetadataLoaded(doc)
    BY <1>3, MetadataLoadedInv
<1>4. CASE \E p \in Plans, budget \in BOOLEAN, needsAssets \in BOOLEAN :
                \E dep \in DependencyChoices(p) : StartRun(p, dep, budget, needsAssets)
    BY <1>4, StartRunInv
<1>5. CASE AssetsReady
    BY <1>5, AssetsReadyInv
<1>6. CASE BudgetElapses
    BY <1>6, BudgetElapsesInv
<1>7. CASE RunDeadline
    BY <1>7, RunDeadlineInv
<1>8. CASE \E c \in DOMAIN checks : CheckDeadline(c)
    BY <1>8, CheckDeadlineInv
<1>9. CASE \E t \in timers : IgnoredDeadline(t)
    BY <1>9, IgnoredDeadlineInv
<1>10. CASE \E m \in Traffic : Receive(m)
    BY <1>10, ReceiveInv
<1>11. CASE RequestCancel
    BY <1>11, RequestCancelInv
<1>12. CASE \E next \in {"idle", "replace"} : RequestClear(next)
    BY <1>12, RequestClearInv
<1>13. CASE PrepareNewRun
    BY <1>13, PrepareNewRunInv
<1>14. CASE \E r \in Resources : Own(r) \/ OwnRunResource(r)
    BY <1>14, OwnInv
<1>15. CASE DrainOutbox
    BY <1>15, DrainOutboxInv
<1>16. CASE UNCHANGED vars
  <2>1. TypeOK' /\ SettledIsQuiet'
      BY <1>16 DEF IInv, TypeOK, SettledIsQuiet, vars, lifeVars, authorityVars,
                   runVars, hostVars
  <2> QED BY <1>16, <2>1, LedgerUntouched DEF vars, lifeVars, authorityVars, runVars
<1> QED BY <1>1, <1>2, <1>3, <1>4, <1>5, <1>6, <1>7, <1>8, <1>9, <1>10, <1>11,
           <1>12, <1>13, <1>14, <1>15, <1>16, BoundedTraffic DEF Step, Next

THEOREM Invariance == Spec => []IInv
<1>1. IInv /\ [Next]_vars => IInv'
    BY StepInv DEF Step
<1> QED BY <1>1, InitInv, PTL DEF Spec

(***************************************************************************)
(* Every variable keeps its shape, for all plans, limits and messages.     *)
(***************************************************************************)
THEOREM TypeCorrect == Spec => []TypeOK
<1>1. IInv => TypeOK
    BY DEF IInv
<1> QED BY <1>1, Invariance, PTL

LEMMA BoundIsWatched == IInv => EveryJobWatched
<1> SUFFICES ASSUME IInv PROVE EveryJobWatched
    OBVIOUS
<1>1. \A c \in Running(checks) :
          /\ checks[c].job \in DOMAIN jobs /\ jobs[checks[c].job] = c
    BY DEF IInv, Binding, Running
<1>2. \A j \in DOMAIN jobs : jobs[j] \in Running(checks) /\ checks[jobs[j]].job = j
    BY DEF IInv, Binding, Running
<1>3. \A c \in Running(checks) :
          /\ checks[c].job \in timers /\ checks[c].job \in DOMAIN registry
          /\ ~registry[checks[c].job].terminal
    BY DEF IInv, Watched
<1>4. DOMAIN jobs = {checks[c].job : c \in Running(checks)}
  <2>1. {checks[c].job : c \in Running(checks)} \subseteq DOMAIN jobs
      BY <1>1
  <2>2. \A j \in DOMAIN jobs : \E c \in Running(checks) : j = checks[c].job
      BY <1>2
  <2> QED BY <2>1, <2>2
<1> QED BY <1>1, <1>3, <1>4 DEF EveryJobWatched

(***************************************************************************)
(* No running check is ever without its one job, admitted and watched:     *)
(* retries, skips, timeouts and cancels leave none behind.                 *)
(***************************************************************************)
THEOREM RunningChecksWatched == Spec => []EveryJobWatched
BY BoundIsWatched, Invariance, PTL

(***************************************************************************)
(* A settled, cancelled or cleared run leaves no watchdog, bound job, open *)
(* admission or run resource for a later run to trip over.                 *)
(***************************************************************************)
THEOREM SettledRunsQuiet == Spec => []SettledIsQuiet
<1>1. IInv => SettledIsQuiet
    BY DEF IInv
<1> QED BY <1>1, Invariance, PTL

---------------------------------------------------------------------------
(***************************************************************************)
(* The run coordinator implements RunLifecycle and loses no resource.      *)
(*                                                                         *)
(* Most steps touch neither the lifecycle nor a resource, or settle the    *)
(* run; the lemmas Settles and StepEffect sort the actions accordingly.    *)
(* What is left is small: the two owners are disjoint, and before a file   *)
(* is selected there is no document.                                       *)
(***************************************************************************)
Undocumented == {"idle", "validating_file", "loading_metadata"}

OwnersApart == runOwned \cap fileOwned = {}

NoDocumentYet == fileState \in Undocumented => document = NoDoc

LInv == NothingLeaks /\ OwnersApart /\ NoDocumentYet

\* Nothing of the lifecycle and no resource changes.
Quiet == UNCHANGED <<lifeVars, runOwned, fileOwned, open, late>>

\* The run settles and what it owned is torn down.
Finishes ==
    /\ UNCHANGED <<generation, document, fileOwned, late>>
    /\ fileState = "running" /\ fileState' \in RunStates
    /\ runOwned' = {} /\ open' = open \ runOwned

LEMMA Settles ==
    ASSUME NEW ck, NEW reg, NEW cl, NEW gone, NEW armed,
           AfterTerminalSettled(ck, reg, cl, gone, armed), UNCHANGED settleFrame
    PROVE  Quiet \/ Finishes
<1> DEFINE skipped  == PropagateSkips(ck, deps)
           started  == IF fileState = "running" THEN Startable(skipped, deps) ELSE {}
           ledger   == Start(skipped, started, jobCounter)
           finished == Terminal(ledger) = DOMAIN ledger /\ fileState = "running"
           status   == ComputeRunStatus(ledger, cancelRequested)
<1>1. IF finished
      THEN /\ fileState' = status /\ TeardownRun
      ELSE UNCHANGED <<fileState, runOwned, open>>
    BY DEF AfterTerminalSettled
<1>2. status \in RunStates
    BY DEF ComputeRunStatus, RunStates
<1>3. UNCHANGED <<generation, document, fileOwned, late>>
    BY DEF settleFrame
<1> HIDE DEF status, ledger
<1>4. CASE finished
    BY <1>1, <1>2, <1>3, <1>4 DEF Finishes, TeardownRun
<1>5. CASE ~finished
    BY <1>1, <1>3, <1>5 DEF Quiet, lifeVars
<1> QED BY <1>4, <1>5

LEMMA MessageEffect ==
    ASSUME NEW m, Receive(m)
    PROVE  Quiet \/ Finishes
<1>1. CASE ReceiveForeign(m) \/ ReceiveOverclaim(m) \/ ReceiveFlood(m)
    BY <1>1, Settles DEF ReceiveForeign, ReceiveOverclaim, ReceiveFlood, SettleCheck
<1>2. CASE ReceiveInert(m)
    BY <1>2 DEF ReceiveInert, Quiet, hostVars
<1>3. ASSUME NEW occs, ReceiveOversized(m, occs) PROVE Quiet \/ Finishes
    BY <1>3, Settles DEF ReceiveOversized, SettleCheck
<1>4. ASSUME NEW occs, ReceiveChunk(m, occs) PROVE Quiet \/ Finishes
    BY <1>4 DEF ReceiveChunk, Quiet, hostVars
<1>5. ASSUME NEW status, ReceiveTerminal(m, status) PROVE Quiet \/ Finishes
    BY <1>5, Settles DEF ReceiveTerminal, SettleCheck
<1>6. ASSUME NEW reason, ReceiveFailure(m, reason) PROVE Quiet \/ Finishes
    BY <1>6, Settles DEF ReceiveFailure, SettleCheck
<1>7. ASSUME NEW reason, ReceiveCrash(m, reason) PROVE Quiet \/ Finishes
    BY <1>7 DEF ReceiveCrash, Quiet, hostVars
<1> QED BY <1>1, <1>2, <1>3, <1>4, <1>5, <1>6, <1>7 DEF Receive

\* The steps that come to one of the two effects.
LEMMA StepEffect ==
    ASSUME \/ BudgetElapses \/ RunDeadline
           \/ \E c \in DOMAIN checks : CheckDeadline(c)
           \/ \E t \in timers : IgnoredDeadline(t)
           \/ \E m \in Traffic : Receive(m)
           \/ DrainOutbox
           \/ UNCHANGED vars
    PROVE  Quiet \/ Finishes
<1>1. CASE BudgetElapses
    BY <1>1 DEF BudgetElapses, Quiet, hostVars
<1>2. CASE RunDeadline
    BY <1>2, Settles DEF RunDeadline
<1>3. ASSUME NEW c, CheckDeadline(c) PROVE Quiet \/ Finishes
    BY <1>3, Settles DEF CheckDeadline
<1>4. ASSUME NEW t, IgnoredDeadline(t) PROVE Quiet \/ Finishes
    BY <1>4 DEF IgnoredDeadline, Quiet, hostVars
<1>5. CASE DrainOutbox
    BY <1>5 DEF DrainOutbox, Quiet
<1>6. CASE UNCHANGED vars
    BY <1>6 DEF vars, runVars, hostVars, Quiet
<1> QED BY <1>1, <1>2, <1>3, <1>4, <1>5, <1>6, MessageEffect

\* One step of the lifecycle, in the words of RunLifecycle.
LifeStep == [Life!Advance \/ Life!Hold \/ Life!Work \/ Life!Retire]_(Life!lifeVars)

LEMMA QuietKeeps == LInv /\ Quiet => LInv' /\ LifeStep
BY DEF LInv, NothingLeaks, OwnersApart, NoDocumentYet, Quiet, LifeStep, lifeVars,
       Life!lifeVars

LEMMA FinishKeeps == LInv /\ Finishes => LInv' /\ LifeStep
<1> SUFFICES ASSUME LInv, Finishes PROVE LInv' /\ LifeStep
    OBVIOUS
<1>1. NothingLeaks' /\ OwnersApart'
    BY DEF LInv, NothingLeaks, OwnersApart, Finishes
<1>2. NoDocumentYet'
    BY DEF NoDocumentYet, Finishes, RunStates, Undocumented
<1>3. Life!Work
    BY DEF Finishes, RunStates, Life!Work, Life!RunMoves, Life!Ended
<1> QED BY <1>1, <1>2, <1>3 DEF LInv, LifeStep

(***************************************************************************)
(* The steps that move the file on, start a run, or retire the generation. *)
(***************************************************************************)

LEMMA FileKeeps ==
    ASSUME LInv, OpenFile \/ FileValidated \/ \E doc \in Documents : MetadataLoaded(doc)
    PROVE  LInv' /\ LifeStep
<1>1. UNCHANGED <<generation, runOwned, fileOwned, open, late>>
    BY DEF OpenFile, FileValidated, MetadataLoaded, runVars, hostVars
<1>2. \/ fileState = "idle" /\ fileState' = "validating_file" /\ document' = document
      \/ fileState = "validating_file" /\ fileState' = "loading_metadata" /\ document' = document
      \/ fileState = "loading_metadata" /\ fileState' = "selecting"
    BY DEF OpenFile, FileValidated, MetadataLoaded
<1>3. NothingLeaks' /\ OwnersApart'
    BY <1>1, <1>2 DEF LInv, NothingLeaks, OwnersApart, RunStates
<1>4. NoDocumentYet'
    BY <1>2 DEF LInv, NoDocumentYet, Undocumented
<1>5. fileState \in Undocumented /\ document = NoDoc
    BY <1>2 DEF LInv, NoDocumentYet, Undocumented
<1>6. Life!Advance
    BY <1>1, <1>2, <1>5 DEF Life!Advance, Life!Rank
<1> QED BY <1>3, <1>4, <1>6 DEF LInv, LifeStep

LEMMA RunKeeps ==
    ASSUME IInv, LInv,
           \/ \E p \in Plans, budget \in BOOLEAN, needsAssets \in BOOLEAN :
                \E dep \in DependencyChoices(p) : StartRun(p, dep, budget, needsAssets)
           \/ AssetsReady \/ RequestCancel \/ PrepareNewRun
    PROVE  LInv' /\ LifeStep
<1>1. /\ UNCHANGED <<document, fileOwned>>
      /\ generation' \in {generation, generation + 1}
      /\ <<fileState, fileState'>> \in Life!RunMoves
  <2>1. ASSUME NEW p, NEW dep, NEW budget, NEW needsAssets,
               StartRun(p, dep, budget, needsAssets)
        PROVE  /\ UNCHANGED <<document, fileOwned>> /\ generation' = generation + 1
               /\ fileState = "selecting" /\ fileState' \in {"preparing_assets", "running"}
      BY <2>1 DEF StartRun, EnterRunning, hostVars
  <2>2. CASE AssetsReady
    <3>1. /\ UNCHANGED <<document, fileOwned, generation>>
          /\ fileState = "preparing_assets" /\ fileState' = "running"
        BY <2>2 DEF AssetsReady, EnterRunning, hostVars
    <3> QED BY <3>1 DEF Life!RunMoves
  <2>3. CASE RequestCancel
    <3>1. /\ UNCHANGED <<document, fileOwned>> /\ generation' = generation + 1
          /\ fileState = "running" /\ fileState' = "cancelled"
        BY <2>3 DEF RequestCancel
    <3> QED BY <3>1 DEF Life!RunMoves, Life!Ended
  <2>4. CASE PrepareNewRun
    <3>1. /\ UNCHANGED <<document, fileOwned, generation>>
          /\ fileState \in RunStates /\ fileState' = "selecting"
        BY <2>4 DEF PrepareNewRun, hostVars
    <3> QED BY <3>1 DEF Life!RunMoves, Life!Ended, RunStates
  <2>5. ASSUME NEW p, NEW dep, NEW budget, NEW needsAssets,
               StartRun(p, dep, budget, needsAssets)
        PROVE  <<fileState, fileState'>> \in Life!RunMoves
      BY <2>1, <2>5 DEF Life!RunMoves
  <2> QED BY <2>1, <2>2, <2>3, <2>4, <2>5
<1>2. /\ UNCHANGED late
      /\ \/ runOwned' = {} /\ open' = open \ runOwned
         \/ UNCHANGED <<runOwned, open>> /\ fileState' \notin RunStates
         \/ runOwned' = {} /\ UNCHANGED open /\ runOwned \subseteq late
  <2>1. fileState = "selecting" => runOwned = {}
      BY DEF IInv, SettledIsQuiet, RunStates
  <2>2. CASE RequestCancel
      BY <2>2 DEF RequestCancel, TeardownRun
  <2>3. CASE AssetsReady
      BY <2>3 DEF AssetsReady, EnterRunning, RunStates, hostVars
  <2>4. ASSUME NEW p, NEW dep, NEW budget, NEW needsAssets,
               StartRun(p, dep, budget, needsAssets)
        PROVE  UNCHANGED <<runOwned, open, late>> /\ fileState' \notin RunStates
      BY <2>1, <2>4 DEF StartRun, EnterRunning, RunStates, hostVars
  <2>5. CASE PrepareNewRun
      BY <2>5 DEF PrepareNewRun, LInv, NothingLeaks, hostVars
  <2> QED BY <2>2, <2>3, <2>4, <2>5
<1>3. NothingLeaks' /\ OwnersApart'
    BY <1>1, <1>2 DEF LInv, NothingLeaks, OwnersApart
<1>4. fileState' \notin Undocumented
    BY <1>1 DEF Life!RunMoves, Life!Ended, Undocumented
<1>5. Life!Work
    BY <1>1 DEF Life!Work
<1> QED BY <1>3, <1>4, <1>5 DEF LInv, NoDocumentYet, LifeStep

LEMMA ClearKeeps ==
    ASSUME IInv, LInv, NEW next \in {"idle", "replace"}, RequestClear(next)
    PROVE  LInv' /\ LifeStep
<1>1. NothingLeaks' /\ OwnersApart'
    BY DEF LInv, NothingLeaks, OwnersApart, RequestClear, RunStates
<1>2. NoDocumentYet'
    BY DEF NoDocumentYet, RequestClear
<1>3. generation \in Nat
    BY DEF IInv, TypeOK
<1>4. Life!Retire
    BY <1>3 DEF RequestClear, Life!Retire, Life!Rank
<1> QED BY <1>1, <1>2, <1>4 DEF LInv, LifeStep

LEMMA OwnKeeps ==
    ASSUME LInv, NEW r \in Resources, Own(r) \/ OwnRunResource(r)
    PROVE  LInv' /\ LifeStep
<1>1. CASE Own(r)
  <2>1. NothingLeaks' /\ OwnersApart'
      BY <1>1 DEF LInv, NothingLeaks, OwnersApart, Own, runVars, lifeVars
  <2>2. NoDocumentYet'
      BY <1>1 DEF LInv, NoDocumentYet, Own, lifeVars
  <2>3. Life!Hold
      BY <1>1 DEF Own, lifeVars, Life!Hold
  <2> QED BY <2>1, <2>2, <2>3 DEF LInv, LifeStep
<1>2. CASE OwnRunResource(r)
  <2>1. NothingLeaks' /\ OwnersApart'
      BY <1>2 DEF LInv, NothingLeaks, OwnersApart, OwnRunResource, lifeVars
  <2>2. NoDocumentYet' /\ UNCHANGED Life!lifeVars
      BY <1>2 DEF LInv, NoDocumentYet, OwnRunResource, lifeVars, Life!lifeVars
  <2> QED BY <2>1, <2>2 DEF LInv, LifeStep
<1> QED BY <1>1, <1>2

LEMMA StepKeeps == IInv /\ LInv /\ [Step]_vars => LInv' /\ LifeStep
<1> SUFFICES ASSUME IInv, LInv, [Step]_vars PROVE LInv' /\ LifeStep
    OBVIOUS
<1>1. CASE Quiet \/ Finishes
    BY <1>1, QuietKeeps, FinishKeeps
<1>2. CASE OpenFile \/ FileValidated \/ \E doc \in Documents : MetadataLoaded(doc)
    BY <1>2, FileKeeps
<1>3. CASE \/ \E p \in Plans, budget \in BOOLEAN, needsAssets \in BOOLEAN :
                \E dep \in DependencyChoices(p) : StartRun(p, dep, budget, needsAssets)
           \/ AssetsReady \/ RequestCancel \/ PrepareNewRun
    BY <1>3, RunKeeps
<1>4. CASE \E next \in {"idle", "replace"} : RequestClear(next)
    BY <1>4, ClearKeeps
<1>5. CASE \E r \in Resources : Own(r) \/ OwnRunResource(r)
    BY <1>5, OwnKeeps
<1>6. CASE \/ BudgetElapses \/ RunDeadline
           \/ \E c \in DOMAIN checks : CheckDeadline(c)
           \/ \E t \in timers : IgnoredDeadline(t)
           \/ \E m \in Traffic : Receive(m)
           \/ DrainOutbox
           \/ UNCHANGED vars
    BY <1>1, <1>6, StepEffect
<1> QED BY <1>2, <1>3, <1>4, <1>5, <1>6, BoundedTraffic DEF Step, Next

LEMMA LInvHolds == Spec => []LInv
<1>1. Init => LInv
    BY DEF Init, LInv, NothingLeaks, OwnersApart, NoDocumentYet
<1>2. IInv /\ LInv /\ [Next]_vars => LInv'
    BY StepKeeps DEF Step
<1> QED BY <1>1, <1>2, Invariance, PTL DEF Spec

(***************************************************************************)
(* Whatever was handed to the coordinator is owned by the file or the run, *)
(* or has been torn down, unless it was handed to a run after that had     *)
(* settled.                                                                *)
(***************************************************************************)
THEOREM ResourcesConserved == Spec => []NothingLeaks
<1>1. LInv => NothingLeaks
    BY DEF LInv
<1> QED BY <1>1, LInvHolds, PTL

(***************************************************************************)
(* The coordinator implements RunLifecycle: document and file resources    *)
(* change only when a clear retires the generation.                        *)
(***************************************************************************)
THEOREM GenerationKept == Spec => GenerationFirst
<1>1. Init => Life!LifeInit
    BY DEF Init, Life!LifeInit
<1>2. IInv /\ LInv /\ [Next]_vars =>
        [Life!Advance \/ Life!Hold \/ Life!Work \/ Life!Retire]_(Life!lifeVars)
    BY StepKeeps DEF Step, LifeStep
<1> QED BY <1>1, <1>2, Invariance, LInvHolds, PTL DEF Spec, GenerationFirst, Life!LifeSpec

---------------------------------------------------------------------------
(***************************************************************************)
(* What the messages of a run leave behind, and who waits for what.        *)
(*                                                                         *)
(* Most steps only do bookkeeping: evidence, queued acks and credit stay   *)
(* as they are, finished records too, and new jobs get new numbers         *)
(* (Bookkeeping).  Accepting a chunk, draining the outbox, starting and    *)
(* dropping a run are taken one by one.                                    *)
(***************************************************************************)

(***************************************************************************)
(* The inductive invariant.                                                *)
(***************************************************************************)

\* Until a run is started there is none.
NoRunYet ==
    fileState \in {"idle", "validating_file", "loading_metadata", "selecting"} =>
        plan = {} /\ occurrences = {}

\* A run that may still receive messages is admitted under its own generation.
RunIsCurrent ==
    fileState \in {"preparing_assets", "running"} =>
        active.gen = generation /\ ~cancelRequested

NothingDoneYet ==
    fileState = "preparing_assets" =>
        jobCounter = 0 /\ \A c \in DOMAIN checks : checks[c].phase = "queued"

\* A job that is still bound has contributed to the check it serves only.
EvidenceByServer ==
    \A c \in DOMAIN checks : \A i \in DOMAIN checks[c].retained :
        checks[c].retained[i].job \in DOMAIN jobs => jobs[checks[c].retained[i].job] = c

\* The window of every check that may still receive counts its queued acks.
Credit ==
    \A c \in DOMAIN checks :
        checks[c].phase # "terminal" => checks[c].unacked = Cardinality(AcksFor(c))

\* An ack answers a message the registry has seen: the next one is new.
AcksSeen ==
    \A i \in outbox : i.type = "ack" =>
        /\ i.job \in 1..jobCounter
        /\ i.job \in DOMAIN registry => i.seq <= registry[i.job].last

\* The parts of WithinLimits.
CapsFit ==
    \A cap \in Bounded :
        Cardinality(ActiveByCapability(checks, cap)) <= CapabilityLimit(cap)

RastersFit(cl) == Cardinality(RasterHolders(cl)) <= MaxLiveRasters

AmountsFit ==
    /\ \A c \in DOMAIN checks :
        /\ checks[c].unacked <= MaxUnacked
        /\ Len(checks[c].retained) <= MaxOccurrencesPerCheck
    /\ runProduced <= MaxOccurrencesPerRun

\* What the messages leave, and what the schedule promises.
Accounted ==
    /\ OwnEvidenceOnly /\ EvidenceByServer
    /\ Credit /\ AcksSeen
    /\ RastersFit(claims) /\ AmountsFit

Scheduled == CapsFit /\ QueuedHasCause

\* What each stage of the file lifecycle means for the run.
Staged == NoRunYet /\ RunIsCurrent /\ NothingDoneYet

EInv == IInv /\ Staged /\ Accounted /\ Scheduled

(***************************************************************************)
(* Steps that only do bookkeeping.                                         *)
(***************************************************************************)

\* Record a may become b.
Follows(a, b) ==
    /\ b.retained = a.retained
    /\ b.phase # "terminal" => a.phase # "terminal" /\ b.unacked = a.unacked
    /\ a.unacked <= MaxUnacked => b.unacked <= MaxUnacked
    /\ a.phase = "terminal" => b = a

Acks(ob) == {i \in ob : i.type = "ack"}

Bookkeeping ==
    /\ plan' = plan /\ UNCHANGED <<occurrences, runProduced>>
    /\ RunGeneration' = RunGeneration
    /\ jobCounter' >= jobCounter
    /\ \A c \in plan : Follows(checks[c], checks'[c])
    /\ \A j \in DOMAIN jobs' : (j \in DOMAIN jobs /\ jobs'[j] = jobs[j]) \/ j > jobCounter
    /\ Acks(outbox') = Acks(outbox)
    /\ \A j \in DOMAIN registry' :
        (j \in DOMAIN registry /\ registry[j].last <= registry'[j].last) \/ j > jobCounter
    /\ RastersFit(claims) => RastersFit(claims')

LEMMA BookkeepingKeeps ==
    ASSUME IInv, IInv', Accounted, Bookkeeping
    PROVE  Accounted'
<1>1. /\ checks \in [plan -> Records] /\ checks' \in [plan -> Records]
      /\ jobCounter \in Nat /\ jobCounter' \in Nat /\ jobCounter' >= jobCounter
      /\ plan' = plan
    BY DEF IInv, TypeOK, Bookkeeping
<1>2. ASSUME NEW c \in plan
      PROVE  /\ checks'[c].retained = checks[c].retained
             /\ checks'[c].phase # "terminal" =>
                    checks[c].phase # "terminal" /\ checks'[c].unacked = checks[c].unacked
             /\ checks[c].unacked <= MaxUnacked => checks'[c].unacked <= MaxUnacked
    BY DEF Bookkeeping, Follows
<1>3. OwnEvidenceOnly'
  <2> SUFFICES ASSUME NEW c \in plan, NEW i \in DOMAIN checks[c].retained
               PROVE  LET e == checks[c].retained[i] IN
                      /\ e.gen = RunGeneration'
                      /\ e.job \in 1..jobCounter'
                      /\ \A d \in plan \ {c} : \A k \in DOMAIN checks[d].retained :
                            checks[d].retained[k].job # e.job
      BY <1>1, <1>2 DEF OwnEvidenceOnly
  <2>1. LET e == checks[c].retained[i] IN
        /\ e.gen = RunGeneration
        /\ e.job \in 1..jobCounter
        /\ \A d \in plan \ {c} : \A k \in DOMAIN checks[d].retained :
                checks[d].retained[k].job # e.job
      BY <1>1 DEF Accounted, OwnEvidenceOnly
  <2>2. RunGeneration' = RunGeneration
      BY DEF Bookkeeping
  <2>3. checks[c].retained[i].job \in 1..jobCounter'
      BY <2>1, <1>1
  <2> QED BY <2>1, <2>2, <2>3
<1>4. EvidenceByServer'
  <2> SUFFICES ASSUME NEW c \in plan, NEW i \in DOMAIN checks[c].retained,
                      checks[c].retained[i].job \in DOMAIN jobs'
               PROVE  jobs'[checks[c].retained[i].job] = c
      BY <1>1, <1>2 DEF EvidenceByServer
  <2>1. checks[c].retained[i].job \in 1..jobCounter
      BY <1>1 DEF Accounted, OwnEvidenceOnly
  <2>2. ~(checks[c].retained[i].job > jobCounter)
      BY <2>1, <1>1
  <2>3. /\ checks[c].retained[i].job \in DOMAIN jobs
        /\ jobs'[checks[c].retained[i].job] = jobs[checks[c].retained[i].job]
      BY <2>2 DEF Bookkeeping
  <2> QED BY <2>3, <1>1 DEF Accounted, EvidenceByServer
<1>5. Credit'
  <2> SUFFICES ASSUME NEW c \in plan, checks'[c].phase # "terminal"
               PROVE  checks'[c].unacked = Cardinality(AcksFor(c)')
      BY <1>1 DEF Credit
  <2>1. checks[c].unacked = Cardinality(AcksFor(c))
      BY <1>1, <1>2 DEF Accounted, Credit
  <2>2. AcksFor(c)' = AcksFor(c)
    <3>1. /\ AcksFor(c) = {i \in Acks(outbox) : i.check = c}
          /\ AcksFor(c)' = {i \in Acks(outbox') : i.check = c}
        BY DEF AcksFor, Acks
    <3> QED BY <3>1 DEF Bookkeeping
  <2> QED BY <2>1, <2>2, <1>2
<1>6. AcksSeen'
  <2> SUFFICES ASSUME NEW i \in outbox', i.type = "ack"
               PROVE  /\ i.job \in 1..jobCounter'
                      /\ i.job \in DOMAIN registry' => i.seq <= registry'[i.job].last
      BY DEF AcksSeen
  <2>1. i \in Acks(outbox)
      BY DEF Bookkeeping, Acks
  <2>2. /\ i.job \in 1..jobCounter
        /\ i.job \in DOMAIN registry => i.seq <= registry[i.job].last
        /\ i \in Intents
      BY <2>1 DEF Acks, Accounted, AcksSeen, IInv, TypeOK
  <2>3. ASSUME i.job \in DOMAIN registry'
        PROVE  i.seq <= registry'[i.job].last
    <3>1. i.job \in DOMAIN registry /\ registry[i.job].last <= registry'[i.job].last
        BY <2>2, <2>3, <1>1 DEF Bookkeeping
    <3>2. registry[i.job].last \in Int /\ registry'[i.job].last \in Int /\ i.seq \in Nat
        BY <2>2, <2>3, <3>1 DEF IInv, TypeOK, Intents
    <3> QED BY <2>2, <3>1, <3>2
  <2> QED BY <2>2, <2>3, <1>1
<1>7. RastersFit(claims)' /\ AmountsFit'
    BY <1>1, <1>2 DEF Bookkeeping, Accounted, AmountsFit
<1> QED BY <1>3, <1>4, <1>5, <1>6, <1>7 DEF Accounted

(***************************************************************************)
(* Settling: every step that calls afterTerminalSettled leaves a ledger ck *)
(* in which some live checks have ended and nothing else has changed; only *)
(* those in `by` may have completed.                                       *)
(***************************************************************************)
EndsAs(a, b) ==
    \/ b = a
    \/ /\ a.phase # "terminal" /\ b.phase = "terminal"
       /\ b.retained = a.retained
       /\ a.unacked <= MaxUnacked => b.unacked <= MaxUnacked

SettlesWith(ck, reg, cl, gone, armed, by) ==
    /\ AfterTerminalSettled(ck, reg, cl, gone, armed)
    /\ UNCHANGED settleFrame /\ UNCHANGED <<occurrences, runProduced>>
    /\ fileState = "running"
    /\ ck \in [plan -> Records] /\ \A c \in plan : EndsAs(checks[c], ck[c])
    /\ DOMAIN reg = DOMAIN registry
    /\ \A j \in DOMAIN registry : registry[j].last <= reg[j].last
    /\ cl \in ClaimsOf(plan)
    /\ RastersFit(claims) => RastersFit(cl)
    /\ gone \subseteq DOMAIN jobs
    /\ \A c \in plan : ck[c] # checks[c] /\ ck[c].status = "completed" => c \in by

LEMMA TerminalizeEnds ==
    ASSUME NEW r \in Records, r.phase # "terminal",
           NEW status \in TerminalStatuses, NEW reason \in RecordedReasons
    PROVE  /\ EndsAs(r, Terminalize(r, status, reason))
           /\ Terminalize(r, status, reason).unacked = r.unacked
           /\ Terminalize(r, status, reason).retained = r.retained
           /\ Terminalize(r, status, reason).status = status
<1> DEFINE n == IF r.job # NoJob THEN r.attempts + 1 ELSE r.attempts
           t == Terminalize(r, status, reason)
<1>1. t = [r EXCEPT !.phase = "terminal", !.status = status, !.reason = reason,
                    !.attempts = n, !.job = NoJob]
    BY DEF Terminalize, Records
<1> HIDE DEF n, t
<1>2. /\ t.phase = "terminal" /\ t.retained = r.retained
      /\ t.unacked = r.unacked /\ t.status = status
    BY <1>1, Zenon DEF Records
<1> QED BY <1>2 DEF t, EndsAs

\* What skipping does to a record.
LEMMA SkipsFollow ==
    ASSUME NEW p, NEW ck \in [p -> Records], NEW dep, NEW c \in p
    PROVE  \/ c \notin Skips(ck, dep) /\ PropagateSkips(ck, dep)[c] = ck[c]
           \/ /\ c \in Skips(ck, dep) /\ ck[c].phase = "queued"
              /\ EndsAs(ck[c], PropagateSkips(ck, dep)[c])
              /\ PropagateSkips(ck, dep)[c].phase = "terminal"
              /\ PropagateSkips(ck, dep)[c].status = "skipped"
<1>1. PropagateSkips(ck, dep)[c] =
        IF c \in Skips(ck, dep) THEN Terminalize(ck[c], "skipped", "dependency_unmet")
        ELSE ck[c]
    BY DEF PropagateSkips
<1>2. CASE c \in Skips(ck, dep)
  <2>1. ck[c].phase = "queued" /\ ck[c] \in Records
      BY <1>2, SkipsQueued DEF Queued
  <2>2. "skipped" \in TerminalStatuses /\ "dependency_unmet" \in RecordedReasons
      BY DEF TerminalStatuses, RecordedReasons
  <2>3. /\ EndsAs(ck[c], Terminalize(ck[c], "skipped", "dependency_unmet"))
        /\ Terminalize(ck[c], "skipped", "dependency_unmet").status = "skipped"
        /\ Terminalize(ck[c], "skipped", "dependency_unmet").phase = "terminal"
      BY <2>1, <2>2, TerminalizeEnds, TerminalizeType
  <2> QED BY <1>1, <1>2, <2>1, <2>3
<1>3. CASE c \notin Skips(ck, dep)
    BY <1>1, <1>3
<1> QED BY <1>2, <1>3

\* What starting does to a record.
Begins(a, b) ==
    /\ a.phase = "queued" /\ b.phase = "running"
    /\ b.retained = a.retained /\ b.unacked = a.unacked

LEMMA StartFollows ==
    ASSUME NEW p \in SUBSET Checks, NEW ck \in [p -> Records],
           NEW started \in SUBSET Queued(ck), NEW n \in Nat, NEW c \in p
    PROVE  \/ Start(ck, started, n)[c] = ck[c]
           \/ Begins(ck[c], Start(ck, started, n)[c])
<1>1. Start(ck, started, n)[c] =
        IF c \in started
            THEN [ck[c] EXCEPT !.phase = "running", !.job = JobOf(c, started, n)]
            ELSE ck[c]
    BY DEF Start
<1>2. ck[c] \in Records
    OBVIOUS
<1>3. /\ [ck[c] EXCEPT !.phase = "running", !.job = JobOf(c, started, n)].phase = "running"
      /\ [ck[c] EXCEPT !.phase = "running", !.job = JobOf(c, started, n)].retained
            = ck[c].retained
      /\ [ck[c] EXCEPT !.phase = "running", !.job = JobOf(c, started, n)].unacked
            = ck[c].unacked
    BY <1>2, Zenon DEF Records
<1>4. c \in started => ck[c].phase = "queued"
    BY DEF Queued
<1> QED BY <1>1, <1>3, <1>4 DEF Begins

LEMMA SettledBookkeeping ==
    ASSUME IInv, NEW ck, NEW reg, NEW cl, NEW gone, NEW armed, NEW by,
           SettlesWith(ck, reg, cl, gone, armed, by)
    PROVE  Bookkeeping
<1> DEFINE skipped == PropagateSkips(ck, deps)
           started == Startable(skipped, deps)
           ledger == Start(skipped, started, jobCounter)
           new == NewJobs(started)
<1>1. /\ plan \in SUBSET Checks /\ jobCounter \in Nat /\ ck \in [plan -> Records]
      /\ fileState = "running" /\ jobs \in [DOMAIN jobs -> plan]
      /\ claims \in ClaimsOf(plan)
    BY DEF IInv, TypeOK, SettlesWith, ClaimsOf
<1>2. skipped \in [plan -> Records]
    BY <1>1, SkipsType
<1>3. /\ started \in SUBSET Queued(skipped) /\ started \subseteq Checks
      /\ IsFiniteSet(started) /\ Cardinality(started) \in Nat
  <2> HIDE DEF skipped
  <2>1. started \subseteq Queued(skipped) /\ started \subseteq DOMAIN skipped
      BY StartableQueued
  <2> HIDE DEF started
  <2> QED BY <1>1, <1>2, <2>1, FiniteChecks
<1>4. /\ checks' = ledger
      /\ jobs' = Bind(gone, started)
      /\ jobCounter' = jobCounter + Cardinality(started)
      /\ outbox' = outbox \cup TerminateIntents(gone) \cup DispatchIntents(started)
      /\ claims' = [c \in DOMAIN cl |-> IF c \in Terminal(skipped) THEN "none" ELSE cl[c]]
      /\ plan' = plan /\ UNCHANGED <<occurrences, runProduced, generation, cancelRequested>>
    BY <1>1 DEF SettlesWith, AfterTerminalSettled, settleFrame
<1>5. ASSUME NEW c \in plan PROVE Follows(checks[c], checks'[c])
  <2>1. EndsAs(checks[c], ck[c])
      BY DEF SettlesWith
  <2>2. skipped[c] = ck[c] \/ (ck[c].phase = "queued" /\ EndsAs(ck[c], skipped[c]))
      BY <1>1, SkipsFollow
  <2> HIDE DEF skipped
  <2>3. \/ ledger[c] = skipped[c]
        \/ /\ skipped[c].phase = "queued" /\ ledger[c].phase = "running"
           /\ ledger[c].retained = skipped[c].retained
           /\ ledger[c].unacked = skipped[c].unacked
    <3>1. started \in SUBSET Queued(skipped) /\ ledger = Start(skipped, started, jobCounter)
        BY <1>3
    <3> HIDE DEF started, ledger
    <3>2. \/ Start(skipped, started, jobCounter)[c] = skipped[c]
          \/ Begins(skipped[c], Start(skipped, started, jobCounter)[c])
        BY <1>1, <1>2, <3>1, StartFollows
    <3> QED BY <3>1, <3>2 DEF Begins
  <2> HIDE DEF ledger
  <2>4. checks'[c] = ledger[c]
      BY <1>4
  <2> QED BY <2>1, <2>2, <2>3, <2>4 DEF EndsAs, Follows
<1> HIDE DEF skipped, started, ledger
<1>6. \A c \in started : JobOf(c, started, jobCounter) > jobCounter
  <2>1. \A c \in started : JobOf(c, started, jobCounter) \in
                (jobCounter + 1)..(jobCounter + Cardinality(started))
      BY <1>1, <1>3, JobNumbers
  <2> QED BY <2>1, <1>1, <1>3
<1>7. \A j \in new : j > jobCounter
    BY <1>6 DEF NewJobs
<1>8. \A j \in DOMAIN jobs' : (j \in DOMAIN jobs /\ jobs'[j] = jobs[j]) \/ j > jobCounter
    BY <1>4, <1>7 DEF Bind
<1>9. Acks(outbox') = Acks(outbox)
    BY <1>4 DEF Acks, TerminateIntents, DispatchIntents, Intent
<1>10. \A j \in DOMAIN registry' :
        (j \in DOMAIN registry /\ registry[j].last <= registry'[j].last) \/ j > jobCounter
  <2>1. \/ registry' = Empty
        \/ registry' = Register(CloseJobs(reg, gone), new)
      BY <1>1 DEF SettlesWith, AfterTerminalSettled, Invalidate, skipped, started
  <2>2. CASE registry' = Empty
      BY <2>2 DEF Empty
  <2>3. CASE registry' = Register(CloseJobs(reg, gone), new)
    <3> SUFFICES ASSUME NEW j \in DOMAIN registry', j \notin new
                 PROVE  j \in DOMAIN registry /\ registry[j].last <= registry'[j].last
        BY <1>7
    <3>1. j \in DOMAIN reg /\ registry'[j] = CloseJobs(reg, gone)[j]
        BY <2>3 DEF Register, CloseJobs
    <3>2. CloseJobs(reg, gone)[j].last = reg[j].last
        BY <3>1 DEF CloseJobs
    <3> QED BY <3>1, <3>2 DEF SettlesWith
  <2> QED BY <2>1, <2>2, <2>3
<1>11. RastersFit(claims) => RastersFit(claims')
  <2> SUFFICES ASSUME RastersFit(cl) PROVE RastersFit(claims')
      BY DEF SettlesWith
  <2>1. DOMAIN cl = plan /\ RasterHolders(claims') \subseteq RasterHolders(cl)
      BY <1>4 DEF SettlesWith, ClaimsOf, RasterHolders
  <2>2. IsFiniteSet(RasterHolders(cl)) /\ Cardinality(RasterHolders(cl)) \in Nat
      BY <2>1, <1>1, FiniteChecks DEF RasterHolders
  <2>3. IsFiniteSet(RasterHolders(claims')) /\ Cardinality(RasterHolders(claims')) \in Nat
        /\ Cardinality(RasterHolders(claims')) <= Cardinality(RasterHolders(cl))
      BY <2>1, <2>2, FS_Subset, FS_CardinalityType
  <2>4. MaxLiveRasters \in Nat
      BY LimitAssumption
  <2> QED BY <2>2, <2>3, <2>4 DEF RastersFit
<1> QED BY <1>1, <1>3, <1>4, <1>5, <1>8, <1>9, <1>10, <1>11 DEF Bookkeeping, RunGeneration

(***************************************************************************)
(* The steps that settle.                                                  *)
(***************************************************************************)
LEMMA RunDeadlineSettles ==
    ASSUME IInv, RunDeadline
    PROVE  \E ck, reg, cl, gone, armed : SettlesWith(ck, reg, cl, gone, armed, {})
<1> DEFINE ck == EndLive("timeout", "timeout")
<1>1. checks \in [plan -> Records] /\ claims \in ClaimsOf(plan)
      /\ registry \in Registries(DOMAIN registry)
    BY DEF IInv, TypeOK, ClaimsOf, Registries
<1>2. "timeout" \in TerminalStatuses /\ "timeout" \in RecordedReasons
    BY DEF TerminalStatuses, RecordedReasons
<1>3. ck \in [plan -> Records]
    BY <1>2, AllEnded
<1>4. ASSUME NEW c \in plan
      PROVE  EndsAs(checks[c], ck[c]) /\ (ck[c] # checks[c] => ck[c].status = "timeout")
  <2>1. CASE c \in Live
    <3>1. ck[c] = Terminalize(checks[c], "timeout", "timeout")
        BY <1>1, <2>1 DEF EndLive
    <3>2. checks[c] \in Records /\ checks[c].phase # "terminal"
        BY <1>1, <2>1 DEF Live, Terminal
    <3> HIDE DEF ck
    <3> QED BY <3>1, <3>2, <1>2, TerminalizeEnds
  <2>2. CASE c \notin Live
      BY <1>1, <2>2 DEF EndLive, EndsAs
  <2> QED BY <2>1, <2>2
<1>5. \A j \in DOMAIN registry : registry[j].last <= registry[j].last
    BY <1>1 DEF Registries
<1>6. LiveJobs \subseteq DOMAIN jobs
    BY <1>1 DEF IInv, Binding, LiveJobs, Live, NoJob
<1> HIDE DEF ck
<1>7. SettlesWith(ck, registry, claims, LiveJobs, timers \ {RunTimer}, {})
    BY <1>1, <1>3, <1>4, <1>5, <1>6 DEF RunDeadline, SettlesWith, ck
<1> QED BY <1>7

LEMMA CheckDeadlineSettles ==
    ASSUME IInv, NEW c0 \in DOMAIN checks, CheckDeadline(c0)
    PROVE  \E ck, reg, cl, gone, armed : SettlesWith(ck, reg, cl, gone, armed, {})
<1> DEFINE r == Terminalize(checks[c0], "timeout", "timeout")
           ck == [checks EXCEPT ![c0] = r]
<1>1. checks \in [plan -> Records] /\ claims \in ClaimsOf(plan)
      /\ registry \in Registries(DOMAIN registry)
      /\ c0 \in plan /\ checks[c0] \in Records
    BY DEF IInv, TypeOK, ClaimsOf, Registries
<1>2. "timeout" \in TerminalStatuses /\ "timeout" \in RecordedReasons
    BY DEF TerminalStatuses, RecordedReasons
<1>3. /\ fileState = "running" /\ checks[c0].phase = "running"
      /\ AfterTerminalSettled(ck, registry, claims, {checks[c0].job},
                              timers \ {checks[c0].job})
      /\ UNCHANGED settleFrame /\ UNCHANGED <<occurrences, runProduced>>
    BY DEF CheckDeadline, Running
<1>4. r \in Records /\ EndsAs(checks[c0], r) /\ r.status = "timeout"
    BY <1>1, <1>2, <1>3, TerminalizeEnds, TerminalizeType
<1> HIDE DEF r
<1>5. /\ ck \in [plan -> Records] /\ \A c \in plan : EndsAs(checks[c], ck[c])
      /\ \A c \in plan : ck[c] # checks[c] => ck[c].status = "timeout"
    BY <1>1, <1>4 DEF EndsAs
<1>6. \A j \in DOMAIN registry : registry[j].last <= registry[j].last
    BY <1>1 DEF Registries
<1>7. {checks[c0].job} \subseteq DOMAIN jobs
    BY <1>1, <1>3 DEF IInv, Binding
<1> HIDE DEF ck
<1>8. SettlesWith(ck, registry, claims, {checks[c0].job}, timers \ {checks[c0].job}, {})
    BY <1>1, <1>3, <1>5, <1>6, <1>7 DEF SettlesWith
<1> QED BY <1>8

\* A claim the ledger grants keeps the rasters within their limit.
LEMMA ClaimFits ==
    ASSUME IInv, NEW m \in Traffic, NEW c \in plan, ClaimOk(m.slot, c),
           RastersFit(claims)
    PROVE  RastersFit(Claimed(m.slot, c))
<1> DEFINE cl == Claimed(m.slot, c)
           H == RasterHolders(claims)
<1>1. claims \in ClaimsOf(plan) /\ DOMAIN claims = plan /\ MaxLiveRasters \in Nat
    BY LimitAssumption DEF IInv, TypeOK, ClaimsOf
<1>2. IsFiniteSet(H) /\ Cardinality(H) \in Nat
  <2>1. H \subseteq Checks
      BY <1>1 DEF RasterHolders, IInv, TypeOK
  <2> QED BY <2>1, FiniteChecks
<1>3. Cardinality(H) <= MaxLiveRasters
    BY DEF RastersFit
<1>4. CASE RasterHolders(cl) \subseteq H
  <2>1. Cardinality(RasterHolders(cl)) <= Cardinality(H) /\ Cardinality(RasterHolders(cl)) \in Nat
      BY <1>2, <1>4, FS_Subset, FS_CardinalityType
  <2> QED BY <1>1, <1>2, <1>3, <2>1 DEF RastersFit
<1>5. CASE ~(RasterHolders(cl) \subseteq H)
  <2>1. m.slot = "raster_rgba" /\ claims[c] # "raster_rgba" /\ RasterHolders(cl) = H \cup {c}
      BY <1>1, <1>5 DEF Claimed, RasterHolders
  <2>2. Cardinality(H) < MaxLiveRasters
      BY <2>1 DEF ClaimOk
  <2> HIDE DEF H
  <2>3. Cardinality(H \cup {c}) <= Cardinality(H) + 1 /\ Cardinality(H \cup {c}) \in Nat
    <3>1. Cardinality(H \cup {c}) \in {Cardinality(H), Cardinality(H) + 1}
        BY <1>2, FS_AddElement
    <3> QED BY <1>2, <3>1
  <2>4. Cardinality(H \cup {c}) <= MaxLiveRasters
      BY <1>1, <1>2, <2>2, <2>3
  <2>5. Cardinality(RasterHolders(cl)) <= MaxLiveRasters
      BY <2>1, <2>4
  <2> QED BY <2>5 DEF RastersFit
<1> QED BY <1>4, <1>5

LEMMA MessageSettles ==
    ASSUME IInv, NEW m \in Traffic, Admit(m), m.job \in DOMAIN jobs,
           NEW r \in Records, EndsAs(checks[jobs[m.job]], r),
           NEW cl \in ClaimsOf(plan), RastersFit(claims) => RastersFit(cl),
           SettleCheck(m, r, cl),
           UNCHANGED settleFrame, UNCHANGED <<occurrences, runProduced>>
    PROVE  \E ck, rg, cc, armed : SettlesWith(ck, rg, cc, {m.job}, armed, {jobs[m.job]})
<1> DEFINE c0 == jobs[m.job]
           ck == [checks EXCEPT ![c0] = r]
<1>1. checks \in [plan -> Records] /\ registry \in Registries(DOMAIN registry)
    BY DEF IInv, TypeOK, Registries
<1>2. /\ fileState = "running" /\ c0 \in plan /\ m.job \in DOMAIN registry /\ m.seq \in Nat
    BY AdmittedRuns
<1>3. /\ ck \in [plan -> Records] /\ \A c \in plan : EndsAs(checks[c], ck[c])
      /\ \A c \in plan : ck[c] # checks[c] => c = c0
    BY <1>1, <1>2 DEF EndsAs
<1>4. /\ DOMAIN Seen(m) = DOMAIN registry
      /\ \A j \in DOMAIN registry : registry[j].last <= Seen(m)[j].last
  <2>1. Seen(m) = [registry EXCEPT ![m.job] = [registry[m.job] EXCEPT !.last = m.seq]]
      BY DEF Seen
  <2>2. m.seq > registry[m.job].last
      BY DEF Admit
  <2>3. \A j \in DOMAIN registry : registry[j].last \in Int
      BY <1>1 DEF Registries
  <2>4. [registry[m.job] EXCEPT !.last = m.seq].last = m.seq
      BY <1>1, <1>2 DEF Registries
  <2> QED BY <1>2, <2>1, <2>2, <2>3, <2>4
<1>5. AfterTerminalSettled(ck, Seen(m), cl, {m.job}, timers)
    BY DEF SettleCheck
<1> HIDE DEF ck
<1>6. SettlesWith(ck, Seen(m), cl, {m.job}, timers, {c0})
    BY <1>2, <1>3, <1>4, <1>5 DEF SettlesWith
<1> QED BY <1>6

LEMMA ReceiveSettles ==
    ASSUME IInv, NEW m \in Traffic,
           \/ ReceiveForeign(m) \/ ReceiveOverclaim(m) \/ ReceiveFlood(m)
           \/ \E occs \in Chunks : ReceiveOversized(m, occs)
           \/ \E status \in ReportedStatuses : ReceiveTerminal(m, status)
           \/ \E reason \in Reasons : ReceiveFailure(m, reason)
    PROVE  \E ck, reg, cl, armed : SettlesWith(ck, reg, cl, {m.job}, armed, {jobs[m.job]})
<1> DEFINE c == jobs[m.job]
           S(r, cl) == SettleCheck(m, r, cl)
<1>1. Admit(m) /\ m.job \in DOMAIN jobs
    BY DEF ReceiveForeign, ReceiveOverclaim, ReceiveFlood, ReceiveTerminal,
           ReceiveFailure, ReceiveOversized, Delivered
<1>2. c \in plan /\ checks[c] \in Records /\ checks[c].phase = "running"
    BY <1>1, AdmittedRuns
<1>3. claims \in ClaimsOf(plan) /\ Claimed(m.slot, c) \in ClaimsOf(plan)
    BY <1>2, ClaimedType DEF IInv, TypeOK, ClaimsOf
<1>4. UNCHANGED settleFrame /\ UNCHANGED <<occurrences, runProduced>>
    BY DEF ReceiveForeign, ReceiveOverclaim, ReceiveFlood, ReceiveTerminal,
           ReceiveFailure, ReceiveOversized
<1>5. ClaimOk(m.slot, c) => (RastersFit(claims) => RastersFit(Claimed(m.slot, c)))
    BY <1>2, ClaimFits
<1>6. \A status \in TerminalStatuses, reason \in RecordedReasons :
        /\ Terminalize(checks[c], status, reason) \in Records
        /\ EndsAs(checks[c], Terminalize(checks[c], status, reason))
    BY <1>2, TerminalizeType, TerminalizeEnds
<1>7. \E r \in Records, cl \in ClaimsOf(plan) :
        /\ EndsAs(checks[c], r) /\ (RastersFit(claims) => RastersFit(cl)) /\ S(r, cl)
  <2>1. CASE ReceiveForeign(m)
    <3>1. S(Terminalize(checks[c], "failed", "protocol_violation"), claims)
        BY <2>1 DEF ReceiveForeign
    <3>2. "failed" \in TerminalStatuses /\ "protocol_violation" \in RecordedReasons
        BY DEF TerminalStatuses, RecordedReasons
    <3> HIDE DEF S, c
    <3> QED BY <3>1, <3>2, <1>3, <1>6
  <2>2. CASE ReceiveOverclaim(m)
    <3>1. S(Terminalize(checks[c], "failed", "resource_limit"), claims)
        BY <2>2 DEF ReceiveOverclaim
    <3>2. "failed" \in TerminalStatuses /\ "resource_limit" \in RecordedReasons
        BY DEF TerminalStatuses, RecordedReasons
    <3> HIDE DEF S, c
    <3> QED BY <3>1, <3>2, <1>3, <1>6
  <2>3. CASE ReceiveFlood(m)
    <3>1. S(Terminalize(checks[c], "failed", "protocol_violation"), Claimed(m.slot, c))
          /\ ClaimOk(m.slot, c)
        BY <2>3 DEF ReceiveFlood, Delivered
    <3>2. "failed" \in TerminalStatuses /\ "protocol_violation" \in RecordedReasons
        BY DEF TerminalStatuses, RecordedReasons
    <3> HIDE DEF S, c
    <3> QED BY <3>1, <3>2, <1>3, <1>5, <1>6
  <2>4. CASE \E status \in ReportedStatuses : ReceiveTerminal(m, status)
    <3>1. PICK status \in ReportedStatuses : ReceiveTerminal(m, status)
        BY <2>4
    <3> DEFINE reason == IF status = "completed" THEN "none" ELSE "reported"
    <3>2. S(Terminalize(checks[c], status, reason), Claimed(m.slot, c)) /\ ClaimOk(m.slot, c)
        BY <3>1 DEF ReceiveTerminal, Delivered
    <3>3. status \in TerminalStatuses /\ reason \in RecordedReasons
        BY ReportAssumption DEF RecordedReasons
    <3> HIDE DEF S, c, reason
    <3> QED BY <3>2, <3>3, <1>3, <1>5, <1>6
  <2>5. CASE \E reason \in Reasons : ReceiveFailure(m, reason)
    <3>1. PICK reason \in Reasons : ReceiveFailure(m, reason)
        BY <2>5
    <3>2. S(Terminalize(checks[c], "failed", reason), Claimed(m.slot, c)) /\ ClaimOk(m.slot, c)
        BY <3>1 DEF ReceiveFailure, Delivered
    <3>3. "failed" \in TerminalStatuses /\ reason \in RecordedReasons
        BY DEF TerminalStatuses, RecordedReasons
    <3> HIDE DEF S, c
    <3> QED BY <3>2, <3>3, <1>3, <1>5, <1>6
  <2>6. CASE \E occs \in Chunks : ReceiveOversized(m, occs)
    <3>1. PICK occs \in Chunks : ReceiveOversized(m, occs)
        BY <2>6
    <3> DEFINE u == checks[c].unacked + 1
               r0 == [checks[c] EXCEPT !.unacked = u]
               r == Terminalize(r0, "failed", "resource_limit")
    <3>2. S(r, Claimed(m.slot, c)) /\ ClaimOk(m.slot, c) /\ ~WouldOverflow(checks[c])
      <4>1. [checks[c] EXCEPT !.unacked = @ + 1] = r0
          BY <1>2 DEF Records
      <4> QED BY <3>1, <4>1 DEF ReceiveOversized, Delivered
    <3>3. u \in Int /\ u <= MaxUnacked
      <4>1. checks[c].unacked \in Int /\ MaxUnacked \in Nat
          BY <1>2, LimitAssumption DEF Records
      <4> QED BY <3>2, <4>1 DEF WouldOverflow
    <3> HIDE DEF u
    <3>4. /\ r0 \in Records /\ r0.phase = "running" /\ r0.unacked = u
          /\ r0.retained = checks[c].retained
        BY <1>2, <3>3, Zenon DEF Records
    <3>5. "failed" \in TerminalStatuses /\ "resource_limit" \in RecordedReasons
        BY DEF TerminalStatuses, RecordedReasons
    <3> HIDE DEF r0
    <3>6. /\ r \in Records /\ r.phase = "terminal" /\ r.unacked = u
          /\ r.retained = checks[c].retained
        BY <3>4, <3>5, TerminalizeEnds, TerminalizeType
    <3> HIDE DEF r
    <3>7. EndsAs(checks[c], r)
        BY <1>2, <3>3, <3>6 DEF EndsAs
    <3> HIDE DEF S, c
    <3> QED BY <3>2, <3>6, <3>7, <1>3, <1>5
  <2> QED BY <2>1, <2>2, <2>3, <2>4, <2>5, <2>6
<1>8. PICK r \in Records, cl \in ClaimsOf(plan) :
        /\ EndsAs(checks[c], r) /\ (RastersFit(claims) => RastersFit(cl)) /\ S(r, cl)
    BY <1>7
<1> QED BY <1>1, <1>4, <1>8, MessageSettles

(***************************************************************************)
(* The other steps that only do bookkeeping.                               *)
(***************************************************************************)
LEMMA FollowsItself ==
    \A a : Follows(a, a)
BY DEF Follows

LEMMA UntouchedBookkeeping ==
    ASSUME IInv,
           UNCHANGED <<plan, occurrences, runProduced, generation, cancelRequested,
                       jobCounter, checks, jobs, outbox, registry, claims>>
    PROVE  Bookkeeping
<1>1. jobCounter \in Nat /\ \A j \in DOMAIN registry : registry[j].last \in Int
    BY DEF IInv, TypeOK
<1>2. \A j \in DOMAIN registry : registry[j].last <= registry[j].last
    BY <1>1
<1> QED BY <1>1, <1>2, FollowsItself DEF Bookkeeping, RunGeneration

LEMMA SeenLater ==
    ASSUME IInv, NEW m \in Traffic, Admit(m), m.job \in DOMAIN jobs
    PROVE  /\ DOMAIN Seen(m) = DOMAIN registry
           /\ \A j \in DOMAIN registry : registry[j].last <= Seen(m)[j].last
           /\ Seen(m)[m.job].last = m.seq
<1>1. registry \in Registries(DOMAIN registry) /\ m.job \in DOMAIN registry /\ m.seq \in Nat
    BY AdmittedRuns DEF IInv, TypeOK, Registries
<1>2. Seen(m) = [registry EXCEPT ![m.job] = [registry[m.job] EXCEPT !.last = m.seq]]
    BY DEF Seen
<1>3. m.seq > registry[m.job].last
    BY DEF Admit
<1>4. \A j \in DOMAIN registry : registry[j].last \in Int
    BY <1>1 DEF Registries
<1>5. [registry[m.job] EXCEPT !.last = m.seq].last = m.seq
    BY <1>1 DEF Registries
<1>6. \A j \in DOMAIN registry : registry[j].last <= Seen(m)[j].last
    BY <1>1, <1>2, <1>3, <1>4, <1>5
<1>7. DOMAIN Seen(m) = DOMAIN registry /\ Seen(m)[m.job].last = m.seq
    BY <1>1, <1>2, <1>5
<1> QED BY <1>6, <1>7

LEMMA InertBookkeeping ==
    ASSUME IInv, NEW m \in Traffic, ReceiveInert(m)
    PROVE  Bookkeeping
<1>1. /\ Admit(m) /\ m.job \in DOMAIN jobs /\ ClaimOk(m.slot, jobs[m.job])
      /\ registry' = Seen(m) /\ claims' = Claimed(m.slot, jobs[m.job])
      /\ UNCHANGED <<generation, plan, checks, jobs, jobCounter,
                     occurrences, runProduced, outbox, cancelRequested>>
    BY DEF ReceiveInert, Delivered, lifeVars
<1>2. jobs[m.job] \in plan /\ jobCounter \in Nat
    BY <1>1, AdmittedRuns DEF IInv, TypeOK
<1>3. \A j \in DOMAIN registry' :
            j \in DOMAIN registry /\ registry[j].last <= registry'[j].last
    BY <1>1, SeenLater
<1>4. RastersFit(claims) => RastersFit(claims')
    BY <1>1, <1>2, ClaimFits
<1> QED BY <1>1, <1>2, <1>3, <1>4, FollowsItself DEF Bookkeeping, RunGeneration

LEMMA CrashBookkeeping ==
    ASSUME IInv, NEW m \in Traffic, NEW reason \in Reasons, ReceiveCrash(m, reason)
    PROVE  Bookkeeping
<1> DEFINE c == jobs[m.job]
           new == jobCounter + 1
           r == Retried(checks[c], new)
<1>1. /\ Admit(m) /\ m.job \in DOMAIN jobs /\ ClaimOk(m.slot, c)
      /\ checks' = [checks EXCEPT ![c] = Retried(@, new)]
      /\ registry' = Register(CloseJobs(Seen(m), {m.job}), {new})
      /\ jobs' = [j \in (DOMAIN jobs \ {m.job}) \cup {new} |->
                        IF j = new THEN c ELSE jobs[j]]
      /\ jobCounter' = new
      /\ outbox' = outbox \cup {Intent("terminate", m.job, c, 0),
                                Intent("dispatch", new, c, 0)}
      /\ claims' = Claimed(m.slot, c)
      /\ UNCHANGED <<generation, plan, occurrences, runProduced, cancelRequested>>
    BY DEF ReceiveCrash, Delivered, lifeVars
<1>2. /\ c \in plan /\ checks[c] \in Records /\ checks[c].phase = "running"
      /\ checks \in [plan -> Records] /\ jobCounter \in Nat /\ new > jobCounter
    BY <1>1, AdmittedRuns DEF IInv, TypeOK
<1>3. /\ r.retained = checks[c].retained /\ r.unacked = checks[c].unacked
      /\ r.phase = "running"
    BY <1>2, Zenon DEF Retried, Records
<1>4. \A d \in plan : Follows(checks[d], checks'[d])
  <2>1. checks' = [checks EXCEPT ![c] = r]
      BY <1>1, <1>2
  <2> HIDE DEF r
  <2>2. Follows(checks[c], r)
      BY <1>2, <1>3 DEF Follows
  <2> QED BY <1>2, <2>1, <2>2, FollowsItself
<1>5. \A j \in DOMAIN jobs' : (j \in DOMAIN jobs /\ jobs'[j] = jobs[j]) \/ j > jobCounter
    BY <1>1, <1>2
<1>6. Acks(outbox') = Acks(outbox)
    BY <1>1 DEF Acks, Intent
<1>7. \A j \in DOMAIN registry' :
        (j \in DOMAIN registry /\ registry[j].last <= registry'[j].last) \/ j > jobCounter
  <2> SUFFICES ASSUME NEW j \in DOMAIN registry', j # new
               PROVE  j \in DOMAIN registry /\ registry[j].last <= registry'[j].last
      BY <1>2
  <2>1. j \in DOMAIN Seen(m) /\ registry'[j] = CloseJobs(Seen(m), {m.job})[j]
      BY <1>1 DEF Register, CloseJobs
  <2>2. CloseJobs(Seen(m), {m.job})[j].last = Seen(m)[j].last
      BY <2>1 DEF CloseJobs
  <2> QED BY <1>1, <2>1, <2>2, SeenLater
<1>8. RastersFit(claims) => RastersFit(claims')
    BY <1>1, <1>2, ClaimFits
<1>9. RunGeneration' = RunGeneration
    BY <1>1 DEF RunGeneration
<1>10. /\ plan' = plan /\ UNCHANGED <<occurrences, runProduced>> /\ jobCounter' >= jobCounter
    BY <1>1, <1>2
<1> HIDE DEF c, new
<1> QED BY <1>4, <1>5, <1>6, <1>7, <1>8, <1>9, <1>10 DEF Bookkeeping

LEMMA CancelBookkeeping ==
    ASSUME IInv, RunIsCurrent, RequestCancel
    PROVE  Bookkeeping
<1>1. /\ checks' = EndLive("cancelled", "user_cancel")
      /\ outbox' = outbox \cup TerminateIntents(LiveJobs)
                       \cup {Intent("cancel", j, jobs[j], 0) : j \in LiveJobs}
      /\ jobs' = [j \in DOMAIN jobs \ LiveJobs |-> jobs[j]]
      /\ cancelRequested' = TRUE /\ generation' = generation + 1 /\ registry' = Empty
      /\ fileState = "running"
      /\ UNCHANGED <<plan, jobCounter, occurrences, runProduced, claims>>
    BY DEF RequestCancel, Invalidate
<1>2. checks \in [plan -> Records] /\ jobCounter \in Nat /\ generation \in Nat
    BY DEF IInv, TypeOK
<1>3. ASSUME NEW c \in plan PROVE Follows(checks[c], checks'[c])
  <2>1. CASE c \in Live
    <3>1. checks'[c] = Terminalize(checks[c], "cancelled", "user_cancel")
        BY <1>1, <1>2, <2>1 DEF EndLive
    <3>2. checks[c] \in Records /\ checks[c].phase # "terminal"
        BY <1>2, <2>1 DEF Live, Terminal
    <3>3. "cancelled" \in TerminalStatuses /\ "user_cancel" \in RecordedReasons
        BY DEF TerminalStatuses, RecordedReasons
    <3>4. EndsAs(checks[c], checks'[c])
        BY <3>1, <3>2, <3>3, TerminalizeEnds
    <3> QED BY <3>2, <3>4, FollowsItself DEF EndsAs, Follows
  <2>2. CASE c \notin Live
      BY <1>1, <1>2, <2>2, FollowsItself DEF EndLive
  <2> QED BY <2>1, <2>2
<1>4. Acks(outbox') = Acks(outbox)
    BY <1>1 DEF Acks, TerminateIntents, Intent
<1>5. RunGeneration' = RunGeneration
  <2>1. ~cancelRequested
      BY <1>1 DEF RunIsCurrent
  <2> QED BY <1>1, <1>2, <2>1 DEF RunGeneration
<1>6. DOMAIN registry' = {}
    BY <1>1 DEF Empty
<1> QED BY <1>1, <1>2, <1>3, <1>4, <1>5, <1>6 DEF Bookkeeping

LEMMA AssetsBookkeeping ==
    ASSUME IInv, NothingDoneYet, AcksSeen, AssetsReady
    PROVE  Bookkeeping
<1> DEFINE started == Startable(checks, deps)
           ledger == Start(checks, started, 0)
           new == {JobOf(c, started, 0) : c \in started}
<1>1. /\ checks' = ledger
      /\ jobs' = [j \in new |-> CHOOSE c \in started : JobOf(c, started, 0) = j]
      /\ jobCounter' = Cardinality(started)
      /\ registry' = Register(Empty, new)
      /\ outbox' = {Intent("dispatch", JobOf(c, started, 0), c, 0) : c \in started}
      /\ fileState = "preparing_assets"
      /\ UNCHANGED <<generation, plan, occurrences, runProduced, claims, cancelRequested>>
    BY DEF AssetsReady, EnterRunning
<1>2. /\ checks \in [plan -> Records] /\ plan \in SUBSET Checks /\ jobCounter = 0
    BY <1>1 DEF IInv, TypeOK, NothingDoneYet
<1>3. /\ started \in SUBSET Queued(checks) /\ started \subseteq Checks
      /\ Cardinality(started) \in Nat
  <2>1. started \subseteq Queued(checks) /\ started \subseteq DOMAIN checks
      BY StartableQueued
  <2> HIDE DEF started
  <2> QED BY <1>2, <2>1, FiniteChecks
<1> HIDE DEF started
<1>4. ASSUME NEW c \in plan PROVE Follows(checks[c], checks'[c])
  <2> HIDE DEF ledger
  <2>1. 0 \in Nat /\ ledger = Start(checks, started, 0)
      BY DEF ledger
  <2>2. \/ Start(checks, started, 0)[c] = checks[c]
        \/ Begins(checks[c], Start(checks, started, 0)[c])
      BY <1>2, <1>3, <2>1, StartFollows
  <2> QED BY <1>1, <2>1, <2>2, FollowsItself DEF Begins, Follows
<1>5. \A j \in new : j > jobCounter
  <2>1. 0 \in Nat
      OBVIOUS
  <2>2. \A c \in started : JobOf(c, started, 0) \in Nat \ {0}
      BY <1>3, <2>1, JobNumbers
  <2> QED BY <1>2, <2>2
<1>6. DOMAIN jobs' = new /\ DOMAIN registry' = new
    BY <1>1 DEF Register, Empty
<1>7. Acks(outbox') = {} /\ Acks(outbox) = {}
  <2>1. Acks(outbox') = {}
      BY <1>1 DEF Acks, Intent
  <2>2. \A i \in outbox : i.type = "ack" => i.job \in 1..0
      BY <1>2 DEF AcksSeen
  <2>3. Acks(outbox) = {}
      BY <2>2 DEF Acks
  <2> QED BY <2>1, <2>3
<1> HIDE DEF new, ledger
<1> QED BY <1>1, <1>2, <1>3, <1>4, <1>5, <1>6, <1>7 DEF Bookkeeping, RunGeneration

(***************************************************************************)
(* Accepting a chunk.                                                      *)
(***************************************************************************)
LEMMA Appended ==
    ASSUME NEW S, NEW s \in Seq(S), NEW t \in Seq(S)
    PROVE  /\ Len(s \o t) = Len(s) + Len(t)
           /\ \A i \in DOMAIN (s \o t) :
                \/ i \in DOMAIN s /\ (s \o t)[i] = s[i]
                \/ \E k \in DOMAIN t : (s \o t)[i] = t[k]
           /\ SubSeq(s \o t, 1, Len(s)) = s
<1>1. Len(s \o t) = Len(s) + Len(t)
    OBVIOUS
<1>2. ASSUME NEW i \in DOMAIN (s \o t), i \notin DOMAIN s
      PROVE  \E k \in DOMAIN t : (s \o t)[i] = t[k]
  <2>1. i - Len(s) \in DOMAIN t /\ (s \o t)[i] = t[i - Len(s)]
      BY <1>2
  <2> QED BY <2>1
<1>3. \A i \in DOMAIN s : (s \o t)[i] = s[i]
    OBVIOUS
<1>4. SubSeq(s \o t, 1, Len(s)) = s
    BY <1>3
<1> QED BY <1>1, <1>2, <1>3, <1>4

\* What accepting a chunk does to the record of its check and to the rest.
Accepts(m, occs, c, ev) ==
    /\ c \in plan /\ jobs[m.job] = c /\ m.job \in DOMAIN jobs
    /\ m.job \in 1..jobCounter /\ m.gen = RunGeneration
    /\ ev \in Seq(EvidenceItems) /\ Len(ev) = Len(occs)
    /\ \A k \in DOMAIN ev : ev[k].gen = m.gen /\ ev[k].job = m.job
    /\ checks[c].phase = "running"
    /\ checks'[c].retained = checks[c].retained \o ev
    /\ checks'[c].unacked = checks[c].unacked + 1
    /\ checks'[c].phase = "running" /\ checks'[c].status = checks[c].status
    /\ \A d \in plan \ {c} : checks'[d] = checks[d]
    /\ outbox' = outbox \cup {Intent("ack", m.job, c, m.seq)}
    /\ runProduced' = runProduced + Len(occs)
    /\ occurrences \subseteq occurrences'
    /\ registry' = Seen(m) /\ claims' = Claimed(m.slot, c)
    /\ UNCHANGED <<plan, deps, jobs, jobCounter, fileState>>
    /\ RunGeneration' = RunGeneration

LEMMA ChunkAccepts ==
    ASSUME IInv, RunIsCurrent, NEW m \in Traffic, NEW occs \in Chunks, ReceiveChunk(m, occs)
    PROVE  /\ Accepts(m, occs, jobs[m.job], Evidence(m, occs))
           /\ Admit(m) /\ ClaimOk(m.slot, jobs[m.job])
           /\ ~WouldOverflow(checks[jobs[m.job]]) /\ WithinCaps(checks[jobs[m.job]], occs)
<1> DEFINE c == jobs[m.job]
           ev == Evidence(m, occs)
           u == checks[c].unacked + 1
           t == checks[c].retained \o ev
           b == checks[c].bytes + ChunkBytes[occs]
           r == [checks[c] EXCEPT !.unacked = u, !.retained = t, !.bytes = b]
<1>1. /\ Admit(m) /\ m.job \in DOMAIN jobs
      /\ ClaimOk(m.slot, c) /\ ~WouldOverflow(checks[c]) /\ WithinCaps(checks[c], occs)
      /\ checks' = [checks EXCEPT ![c].unacked = @ + 1, ![c].retained = @ \o ev,
                                  ![c].bytes = @ + ChunkBytes[occs]]
      /\ occurrences' = occurrences \cup {occs[i] : i \in 1..Len(occs)}
      /\ runProduced' = runProduced + Len(occs)
      /\ outbox' = outbox \cup {Intent("ack", m.job, c, m.seq)}
      /\ registry' = Seen(m)
      /\ claims' = Claimed(m.slot, c)
      /\ UNCHANGED <<lifeVars, active, plan, deps, jobs, jobCounter, cancelRequested>>
    BY DEF ReceiveChunk, Delivered
<1>2. /\ fileState = "running" /\ c \in plan /\ checks[c] \in Records
      /\ checks[c].phase = "running" /\ m.gen \in Nat /\ m.seq \in Nat
    BY <1>1, AdmittedRuns
<1>3. /\ checks \in [plan -> Records] /\ m.job \in 1..jobCounter
      /\ m.job \in Nat \ {0}
    BY <1>1 DEF IInv, TypeOK, Binding
<1>4. occs \in Seq(Occurrences) /\ Len(occs) \in Nat
    BY ChunkAssumption
<1>5. /\ ev \in Seq(EvidenceItems) /\ Len(ev) = Len(occs)
      /\ \A k \in DOMAIN ev : ev[k].gen = m.gen /\ ev[k].job = m.job
  <2>1. \A i \in 1..Len(occs) :
            [id |-> occs[i], gen |-> m.gen, job |-> m.job] \in EvidenceItems
      BY <1>2, <1>3, <1>4 DEF EvidenceItems
  <2> QED BY <1>4, <2>1 DEF Evidence
<1>6. checks' = [checks EXCEPT ![c] = r]
    BY <1>1, <1>2, <1>3, Zenon DEF Records
<1> HIDE DEF u, t, b, ev
<1>7. /\ r.unacked = u /\ r.retained = t /\ r.phase = "running"
      /\ r.status = checks[c].status
    BY <1>2, Zenon DEF Records
<1> HIDE DEF r
<1>8. /\ checks'[c].unacked = u /\ checks'[c].retained = t
      /\ checks'[c].phase = "running" /\ checks'[c].status = checks[c].status
      /\ \A d \in plan \ {c} : checks'[d] = checks[d]
    BY <1>2, <1>3, <1>6, <1>7
<1>9. m.gen = RunGeneration /\ RunGeneration' = RunGeneration
    BY <1>1, <1>2 DEF Admit, RunIsCurrent, RunGeneration, lifeVars
<1>10. /\ occurrences \subseteq occurrences'
       /\ UNCHANGED <<plan, deps, jobs, jobCounter, fileState>>
    BY <1>1 DEF lifeVars
<1>11. Accepts(m, occs, c, ev)
    BY <1>1, <1>2, <1>3, <1>5, <1>8, <1>9, <1>10 DEF Accepts, u, t
<1> QED BY <1>1, <1>11 DEF ev

LEMMA ChunkKeeps ==
    ASSUME IInv, IInv', RunIsCurrent, Accounted,
           NEW m \in Traffic, NEW occs \in Chunks, ReceiveChunk(m, occs)
    PROVE  Accounted'
<1> DEFINE c == jobs[m.job]
           ev == Evidence(m, occs)
<1>1. /\ Accepts(m, occs, c, ev) /\ Admit(m) /\ ClaimOk(m.slot, c)
      /\ ~WouldOverflow(checks[c]) /\ WithinCaps(checks[c], occs)
    BY ChunkAccepts
<1> HIDE DEF c, ev
<1>2. /\ checks \in [plan -> Records] /\ checks' \in [plan -> Records]
      /\ plan' = plan /\ jobs' = jobs /\ jobCounter' = jobCounter
      /\ c \in plan /\ m.job \in DOMAIN jobs /\ jobs[m.job] = c /\ checks[c] \in Records
    BY <1>1 DEF IInv, TypeOK, Accepts
<1>3. ASSUME NEW d \in plan, NEW i \in DOMAIN checks'[d].retained
      PROVE  \/ i \in DOMAIN checks[d].retained /\ checks'[d].retained[i] = checks[d].retained[i]
             \/ /\ d = c /\ checks'[d].retained[i].gen = m.gen
                /\ checks'[d].retained[i].job = m.job
  <2>1. CASE d = c
    <3>1. checks[c].retained \in Seq(EvidenceItems) /\ ev \in Seq(EvidenceItems)
        BY <1>1, <1>2 DEF Records, Accepts
    <3>2. checks'[d].retained = checks[d].retained \o ev
        BY <1>1, <2>1 DEF Accepts
    <3>3. \A k \in DOMAIN ev : ev[k].gen = m.gen /\ ev[k].job = m.job
        BY <1>1 DEF Accepts
    <3> QED BY <1>3, <2>1, <3>1, <3>2, <3>3, Appended
  <2>2. CASE d # c
      BY <1>1, <2>2 DEF Accepts
  <2> QED BY <2>1, <2>2
<1>4. ASSUME NEW d \in plan, NEW i \in DOMAIN checks[d].retained
      PROVE  LET e == checks[d].retained[i] IN
             /\ e.gen = RunGeneration /\ e.job \in 1..jobCounter
             /\ e.job \in DOMAIN jobs => jobs[e.job] = d
             /\ \A d2 \in plan \ {d} : \A k \in DOMAIN checks[d2].retained :
                    checks[d2].retained[k].job # e.job
    BY <1>2 DEF Accounted, OwnEvidenceOnly, EvidenceByServer
<1>5. RunGeneration' = RunGeneration /\ m.gen = RunGeneration /\ m.job \in 1..jobCounter
    BY <1>1 DEF Accepts
<1>6. OwnEvidenceOnly'
  <2> SUFFICES ASSUME NEW d \in plan, NEW i \in DOMAIN checks'[d].retained
               PROVE  LET e == checks'[d].retained[i] IN
                      /\ e.gen = RunGeneration'
                      /\ e.job \in 1..jobCounter
                      /\ \A d2 \in plan \ {d} : \A k \in DOMAIN checks'[d2].retained :
                            checks'[d2].retained[k].job # e.job
      BY <1>2 DEF OwnEvidenceOnly
  <2>1. /\ checks'[d].retained[i].gen = RunGeneration'
        /\ checks'[d].retained[i].job \in 1..jobCounter
      BY <1>3, <1>4, <1>5
  <2>2. ASSUME NEW d2 \in plan \ {d}, NEW k \in DOMAIN checks'[d2].retained
        PROVE  checks'[d2].retained[k].job # checks'[d].retained[i].job
    <3>1. CASE d = c /\ i \notin DOMAIN checks[d].retained
      <4>1. /\ checks'[d].retained[i].job = m.job
            /\ k \in DOMAIN checks[d2].retained
            /\ checks'[d2].retained[k] = checks[d2].retained[k]
          BY <1>3, <3>1
      <4>2. checks[d2].retained[k].job # m.job
          BY <1>2, <1>4, <3>1, <4>1
      <4> QED BY <4>1, <4>2
    <3>2. CASE d2 = c /\ k \notin DOMAIN checks[d2].retained
      <4>1. /\ checks'[d2].retained[k].job = m.job
            /\ i \in DOMAIN checks[d].retained
            /\ checks'[d].retained[i] = checks[d].retained[i]
          BY <1>3, <3>2
      <4>2. checks[d].retained[i].job # m.job
          BY <1>2, <1>4, <3>2, <4>1
      <4> QED BY <4>1, <4>2
    <3>3. CASE i \in DOMAIN checks[d].retained /\ k \in DOMAIN checks[d2].retained
      <4>1. \A x \in plan : \A l \in DOMAIN checks[x].retained :
                checks'[x].retained[l] = checks[x].retained[l]
        <5> SUFFICES ASSUME NEW x \in plan, NEW l \in DOMAIN checks[x].retained
                     PROVE  checks'[x].retained[l] = checks[x].retained[l]
            OBVIOUS
        <5>1. CASE x = c
          <6>1. checks[c].retained \in Seq(EvidenceItems) /\ ev \in Seq(EvidenceItems)
                /\ checks'[c].retained = checks[c].retained \o ev
              BY <1>1, <1>2 DEF Records, Accepts
          <6> QED BY <5>1, <6>1
        <5>2. CASE x # c
            BY <1>1, <5>2 DEF Accepts
        <5> QED BY <5>1, <5>2
      <4> QED BY <3>3, <4>1, <1>4
    <3> QED BY <1>3, <3>1, <3>2, <3>3
  <2> QED BY <2>1, <2>2
<1>7. EvidenceByServer'
  <2> SUFFICES ASSUME NEW d \in plan, NEW i \in DOMAIN checks'[d].retained,
                      checks'[d].retained[i].job \in DOMAIN jobs
               PROVE  jobs[checks'[d].retained[i].job] = d
      BY <1>2 DEF EvidenceByServer
  <2> QED BY <1>2, <1>3, <1>4
<1>8. /\ DOMAIN registry' = DOMAIN registry /\ registry'[m.job].last = m.seq
      /\ \A j \in DOMAIN registry : registry[j].last <= registry'[j].last
      /\ m.seq > registry[m.job].last /\ m.job \in DOMAIN registry /\ m.seq \in Nat
    BY <1>1, <1>2, SeenLater, AdmittedRuns DEF Accepts, Admit
<1> DEFINE ack == Intent("ack", m.job, c, m.seq)
<1>9. ack \notin outbox
  <2>1. ack.type = "ack" /\ ack.job = m.job /\ ack.seq = m.seq
      BY DEF Intent
  <2>2. registry[m.job].last \in Int
      BY <1>8 DEF IInv, TypeOK
  <2> HIDE DEF ack
  <2> QED BY <2>1, <2>2, <1>8 DEF Accounted, AcksSeen
<1>10. outbox' = outbox \cup {ack}
    BY <1>1 DEF Accepts
<1>11. Credit'
  <2> SUFFICES ASSUME NEW d \in plan, checks'[d].phase # "terminal"
               PROVE  checks'[d].unacked = Cardinality(AcksFor(d)')
      BY <1>2 DEF Credit
  <2>1. CASE d = c
    <3>1. AcksFor(d)' = AcksFor(d) \cup {ack} /\ ack \notin AcksFor(d)
        BY <2>1, <1>9, <1>10 DEF AcksFor, Intent
    <3>2. IsFiniteSet(AcksFor(d)) /\ Cardinality(AcksFor(d)) \in Nat
      <4>1. AcksFor(d) \in SUBSET outbox
          BY DEF AcksFor
      <4> QED BY <4>1, FS_Subset, FS_CardinalityType DEF IInv
    <3>3. Cardinality(AcksFor(d)') = Cardinality(AcksFor(d)) + 1
        BY <3>1, <3>2, FS_AddElement
    <3>4. checks[d].unacked = Cardinality(AcksFor(d))
        BY <1>1, <1>2, <2>1 DEF Accepts, Accounted, Credit
    <3> QED BY <1>1, <2>1, <3>3, <3>4 DEF Accepts
  <2>2. CASE d # c
    <3>1. AcksFor(d)' = AcksFor(d)
        BY <2>2, <1>10 DEF AcksFor, Intent
    <3>2. checks'[d] = checks[d]
        BY <1>1, <2>2 DEF Accepts
    <3> QED BY <1>2, <3>1, <3>2 DEF Accounted, Credit
  <2> QED BY <2>1, <2>2
<1>12. AcksSeen'
  <2> SUFFICES ASSUME NEW i \in outbox', i.type = "ack"
               PROVE  /\ i.job \in 1..jobCounter
                      /\ i.job \in DOMAIN registry => i.seq <= registry'[i.job].last
      BY <1>2, <1>8 DEF AcksSeen
  <2>1. CASE i = ack
      BY <2>1, <1>5, <1>8 DEF Intent
  <2>2. CASE i \in outbox
    <3>1. /\ i.job \in 1..jobCounter
          /\ i.job \in DOMAIN registry => i.seq <= registry[i.job].last
          /\ i.seq \in Nat
        BY <2>2 DEF Accounted, AcksSeen, IInv, TypeOK, Intents
    <3>2. i.job \in DOMAIN registry =>
                registry[i.job].last \in Int /\ registry'[i.job].last \in Int
        BY <1>8 DEF IInv, TypeOK
    <3> QED BY <3>1, <3>2, <1>8
  <2> QED BY <2>1, <2>2, <1>10
<1>13. RastersFit(claims)'
  <2>1. RastersFit(Claimed(m.slot, c))
      BY <1>1, <1>2, ClaimFits DEF Accounted
  <2> QED BY <2>1, <1>1 DEF Accepts
<1>14. AmountsFit'
  <2>1. /\ Len(checks[c].retained) + Len(occs) <= MaxOccurrencesPerCheck
        /\ runProduced + Len(occs) <= MaxOccurrencesPerRun
        /\ ~(checks[c].unacked >= MaxUnacked)
      BY <1>1 DEF WithinCaps, WouldOverflow
  <2>2. /\ Len(checks'[c].retained) = Len(checks[c].retained) + Len(occs)
        /\ checks'[c].unacked = checks[c].unacked + 1
    <3>1. /\ checks[c].retained \in Seq(EvidenceItems) /\ ev \in Seq(EvidenceItems)
          /\ checks'[c].retained = checks[c].retained \o ev /\ Len(ev) = Len(occs)
        BY <1>1, <1>2 DEF Records, Accepts
    <3>2. checks'[c].unacked = checks[c].unacked + 1
        BY <1>1 DEF Accepts
    <3>3. Len(checks[c].retained \o ev) = Len(checks[c].retained) + Len(ev)
        BY <3>1, Appended
    <3> QED BY <3>1, <3>2, <3>3
  <2>3. checks[c].unacked \in Int /\ MaxUnacked \in Nat
      BY <1>2, LimitAssumption DEF Records
  <2>4. \A d \in plan \ {c} : /\ checks'[d].unacked <= MaxUnacked
                              /\ Len(checks'[d].retained) <= MaxOccurrencesPerCheck
      BY <1>1, <1>2 DEF Accepts, Accounted, AmountsFit
  <2>5. checks'[c].unacked <= MaxUnacked /\ Len(checks'[c].retained) <= MaxOccurrencesPerCheck
      BY <2>1, <2>2, <2>3
  <2>6. runProduced' <= MaxOccurrencesPerRun
      BY <2>1, <1>1 DEF Accepts
  <2> QED BY <1>2, <2>4, <2>5, <2>6 DEF AmountsFit
<1> QED BY <1>6, <1>7, <1>11, <1>12, <1>13, <1>14 DEF Accounted

(***************************************************************************)
(* Draining the outbox.                                                    *)
(***************************************************************************)
\* A drain lowers windows and leaves everything else of the records.
Drains ==
    /\ outbox' = {}
    /\ UNCHANGED <<fileState, generation, plan, deps, jobs, jobCounter, occurrences,
                   runProduced, claims, cancelRequested, active, registry>>
    /\ \A c \in plan :
        /\ checks'[c].unacked = checks[c].unacked - Cardinality(AcksFor(c))
        /\ Cardinality(AcksFor(c)) \in Nat
        /\ checks'[c].retained = checks[c].retained
        /\ checks'[c].phase = checks[c].phase
        /\ checks'[c].status = checks[c].status
        /\ checks'[c].reason = checks[c].reason
        /\ checks'[c].attempts = checks[c].attempts

LEMMA DrainLeaves ==
    ASSUME IInv, DrainOutbox
    PROVE  Drains
<1>1. /\ outbox' = {}
      /\ checks' = [c \in DOMAIN checks |->
                        [checks[c] EXCEPT !.unacked = @ - Cardinality(AcksFor(c))]]
      /\ UNCHANGED <<fileState, generation, plan, deps, jobs, jobCounter, occurrences,
                     runProduced, claims, cancelRequested, active, registry>>
    BY DEF DrainOutbox, lifeVars, authorityVars
<1>2. checks \in [plan -> Records]
    BY DEF IInv, TypeOK
<1>3. ASSUME NEW c \in plan
      PROVE  /\ checks'[c].unacked = checks[c].unacked - Cardinality(AcksFor(c))
             /\ Cardinality(AcksFor(c)) \in Nat
             /\ checks'[c].retained = checks[c].retained
             /\ checks'[c].phase = checks[c].phase
             /\ checks'[c].status = checks[c].status
             /\ checks'[c].reason = checks[c].reason
             /\ checks'[c].attempts = checks[c].attempts
  <2>1. AcksFor(c) \in SUBSET outbox
      BY DEF AcksFor
  <2>2. Cardinality(AcksFor(c)) \in Nat
      BY <2>1, FS_Subset, FS_CardinalityType DEF IInv
  <2> DEFINE u == checks[c].unacked - Cardinality(AcksFor(c))
  <2>3. checks[c] \in Records /\ checks'[c] = [checks[c] EXCEPT !.unacked = u]
      BY <1>1, <1>2 DEF Records
  <2> HIDE DEF u
  <2>4. /\ checks'[c].unacked = u /\ checks'[c].retained = checks[c].retained
        /\ checks'[c].phase = checks[c].phase /\ checks'[c].status = checks[c].status
        /\ checks'[c].reason = checks[c].reason /\ checks'[c].attempts = checks[c].attempts
      BY <2>3 DEF Records
  <2> QED BY <2>2, <2>4 DEF u
<1> QED BY <1>1, <1>3 DEF Drains

LEMMA DrainKeeps ==
    ASSUME IInv, IInv', Accounted, DrainOutbox
    PROVE  Accounted'
<1>1. Drains
    BY DrainLeaves
<1>2. /\ checks \in [plan -> Records] /\ checks' \in [plan -> Records] /\ plan' = plan
      /\ outbox' = {} /\ UNCHANGED <<jobs, jobCounter, claims, runProduced>>
      /\ RunGeneration' = RunGeneration
    BY <1>1 DEF IInv, TypeOK, Drains, RunGeneration
<1>3. \A c \in plan : checks'[c].retained = checks[c].retained
    BY <1>1 DEF Drains
<1>4. OwnEvidenceOnly' /\ EvidenceByServer'
  <2>1. OwnEvidenceOnly'
      BY <1>2, <1>3 DEF Accounted, OwnEvidenceOnly
  <2>2. EvidenceByServer'
      BY <1>2, <1>3 DEF Accounted, EvidenceByServer
  <2> QED BY <2>1, <2>2
<1>5. Credit'
  <2> SUFFICES ASSUME NEW c \in plan, checks'[c].phase # "terminal"
               PROVE  checks'[c].unacked = Cardinality(AcksFor(c)')
      BY <1>2 DEF Credit
  <2>1. AcksFor(c)' = {}
      BY <1>2 DEF AcksFor
  <2>2. checks[c].unacked = Cardinality(AcksFor(c))
      BY <1>1, <1>2 DEF Drains, Accounted, Credit
  <2>3. checks'[c].unacked = 0
      BY <1>1, <2>2 DEF Drains
  <2> QED BY <2>1, <2>3, FS_EmptySet
<1>6. AcksSeen'
    BY <1>2 DEF AcksSeen
<1>7. RastersFit(claims)'
    BY <1>2 DEF Accounted, RastersFit
<1>8. AmountsFit'
  <2> SUFFICES ASSUME NEW c \in plan
               PROVE  checks'[c].unacked <= MaxUnacked
      BY <1>2, <1>3 DEF AmountsFit, Accounted
  <2>1. /\ checks'[c].unacked = checks[c].unacked - Cardinality(AcksFor(c))
        /\ Cardinality(AcksFor(c)) \in Nat
      BY <1>1 DEF Drains
  <2>2. checks[c].unacked \in Int /\ checks[c].unacked <= MaxUnacked /\ MaxUnacked \in Nat
      BY <1>2, LimitAssumption DEF Records, Accounted, AmountsFit
  <2> QED BY <2>1, <2>2
<1> QED BY <1>4, <1>5, <1>6, <1>7, <1>8 DEF Accounted

(***************************************************************************)
(* Starting and dropping a run.                                            *)
(***************************************************************************)
\* A ledger nobody has reported to accounts for itself.
LEMMA FreshAccounts ==
    ASSUME \A c \in DOMAIN checks' : checks'[c].retained = <<>> /\ checks'[c].unacked = 0,
           \A i \in outbox' : i.type # "ack",
           RasterHolders(claims') = {}, runProduced' = 0
    PROVE  Accounted'
<1>1. OwnEvidenceOnly' /\ EvidenceByServer'
    BY DEF OwnEvidenceOnly, EvidenceByServer
<1>2. Credit'
  <2> SUFFICES ASSUME NEW c \in DOMAIN checks' PROVE Cardinality(AcksFor(c)') = 0
      BY DEF Credit
  <2>1. AcksFor(c)' = {}
      BY DEF AcksFor
  <2> QED BY <2>1, FS_EmptySet
<1>3. AcksSeen'
    BY DEF AcksSeen
<1>4. RastersFit(claims)' /\ AmountsFit'
    BY FS_EmptySet, LimitAssumption DEF RastersFit, AmountsFit
<1> QED BY <1>1, <1>2, <1>3, <1>4 DEF Accounted

LEMMA StartRunKeeps ==
    ASSUME NEW p \in Plans, NEW dep, NEW budget, NEW needsAssets \in BOOLEAN,
           StartRun(p, dep, budget, needsAssets)
    PROVE  Accounted'
<1> DEFINE started == Startable(BuildRecords(p), dep)
<1>1. p \in SUBSET Checks
    BY PlanAssumption
<1>2. \A c \in p : BuildRecords(p)[c].retained = <<>> /\ BuildRecords(p)[c].unacked = 0
    BY DEF BuildRecords, NewRecord
<1>3. BuildRecords(p) \in [p -> Records]
    BY FreshLedger
<1>4. started \in SUBSET Queued(BuildRecords(p))
    BY StartableQueued
<1>5. /\ DOMAIN checks' = p
      /\ \A c \in p : checks'[c].retained = <<>> /\ checks'[c].unacked = 0
  <2>1. CASE needsAssets
      BY <2>1, <1>2, <1>3 DEF StartRun
  <2>2. CASE ~needsAssets
    <3>1. checks' = Start(BuildRecords(p), started, 0)
        BY <2>2 DEF StartRun, EnterRunning
    <3> HIDE DEF started
    <3>2. 0 \in Nat /\ DOMAIN checks' = p
        BY <1>3, <3>1 DEF Start
    <3>3. ASSUME NEW c \in p
          PROVE  checks'[c].retained = <<>> /\ checks'[c].unacked = 0
      <4>1. \/ Start(BuildRecords(p), started, 0)[c] = BuildRecords(p)[c]
            \/ Begins(BuildRecords(p)[c], Start(BuildRecords(p), started, 0)[c])
          BY <1>1, <1>3, <1>4, <3>2, StartFollows
      <4> QED BY <1>2, <3>1, <4>1 DEF Begins
    <3> QED BY <3>2, <3>3
  <2> QED BY <2>1, <2>2
<1>6. \A i \in outbox' : i.type # "ack"
  <2>1. CASE needsAssets
      BY <2>1 DEF StartRun
  <2>2. CASE ~needsAssets
      BY <2>2 DEF StartRun, EnterRunning, Intent
  <2> QED BY <2>1, <2>2
<1>7. RasterHolders(claims') = {} /\ runProduced' = 0
    BY DEF StartRun, RasterHolders
<1> QED BY <1>5, <1>6, <1>7, FreshAccounts

LEMMA DropKeeps ==
    ASSUME DropRun
    PROVE  Accounted'
<1>1. DOMAIN checks' = {} /\ outbox' = {} /\ DOMAIN claims' = {} /\ runProduced' = 0
    BY DEF DropRun, Empty
<1> QED BY <1>1, FreshAccounts DEF RasterHolders

(***************************************************************************)
(* The schedule: slots stay within their limits and are not left empty     *)
(* while somebody waits for one.                                           *)
(***************************************************************************)
LEMMA LimitNat ==
    \A cap : CapabilityLimit(cap) \in Nat
BY CheckAssumption DEF CapabilityLimit

\* A check waits for a prerequisite that has not settled, or for a slot.
Waits(L, dep, c) ==
    \/ \E d \in Needs(dep, c) : L[d].phase # "terminal"
    \/ /\ Capability[c] \in Bounded
       /\ Cardinality(ActiveByCapability(L, Capability[c])) = CapabilityLimit(Capability[c])

\* One walk over a ledger whose skips have been propagated.
LEMMA DispatchSchedules ==
    ASSUME NEW p \in SUBSET Checks, NEW sk \in [p -> Records], NEW dep, NEW n \in Nat,
           \A c \in p : Needs(dep, c) \subseteq p,
           \A cap \in Bounded :
                Cardinality(ActiveByCapability(sk, cap)) <= CapabilityLimit(cap),
           \A c \in Queued(sk) : \A d \in Needs(dep, c) :
                d \in Terminal(sk) => d \in Completed(sk)
    PROVE  /\ \A cap \in Bounded :
                Cardinality(ActiveByCapability(Start(sk, Startable(sk, dep), n), cap))
                    <= CapabilityLimit(cap)
           /\ \A c \in Queued(Start(sk, Startable(sk, dep), n)) :
                Waits(Start(sk, Startable(sk, dep), n), dep, c)
<1> DEFINE go == Startable(sk, dep)
           L == Start(sk, go, n)
<1>1. go \in SUBSET Queued(sk) /\ go \subseteq p
    BY StartableQueued
<1>2. /\ DOMAIN L = p /\ \A c \in go : L[c].phase = "running"
      /\ \A c \in p \ go : L[c] = sk[c]
  <2>1. DOMAIN L = p
      BY DEF Start
  <2> HIDE DEF go
  <2>2. \A c \in go : L[c].phase = "running" /\ L[c].job = JobOf(c, go, n)
      BY <1>1, StartType
  <2>3. \A c \in p : c \notin go => L[c] = sk[c]
      BY DEF Start
  <2> QED BY <2>1, <2>2, <2>3
<1> HIDE DEF L
<1>3. /\ \A cap \in Bounded : Cardinality(ActiveByCapability(L, cap)) <= CapabilityLimit(cap)
      /\ \A c \in Queued(L) : Needs(dep, c) \subseteq Completed(sk) =>
            /\ Capability[c] \in Bounded
            /\ Cardinality(ActiveByCapability(L, Capability[c])) = CapabilityLimit(Capability[c])
    BY <1>2, DispatchFits
<1>4. ASSUME NEW c \in Queued(L) PROVE Waits(L, dep, c)
  <2>1. CASE Needs(dep, c) \subseteq Completed(sk)
      BY <1>3, <2>1 DEF Waits
  <2>2. CASE ~(Needs(dep, c) \subseteq Completed(sk))
    <3>1. PICK d \in Needs(dep, c) : d \notin Completed(sk)
        BY <2>2
    <3>2. c \in p /\ c \in Queued(sk)
        BY <1>2 DEF Queued
    <3>3. d \in p /\ d \notin Terminal(sk)
        BY <3>1, <3>2
    <3>4. sk[d].phase # "terminal"
        BY <3>3 DEF Terminal
    <3>5. L[d].phase # "terminal"
        BY <1>2, <3>3, <3>4
    <3> QED BY <3>1, <3>5 DEF Waits
  <2> QED BY <2>1, <2>2
<1> QED BY <1>3, <1>4 DEF L

LEMMA ScheduledBy ==
    ASSUME \A cap \in Bounded :
                Cardinality(ActiveByCapability(checks', cap)) <= CapabilityLimit(cap),
           fileState' = "running" => \A c \in Queued(checks') : Waits(checks', deps', c)
    PROVE  Scheduled'
<1>1. CapsFit'
    BY DEF CapsFit
<1>2. QueuedHasCause'
    BY DEF QueuedHasCause, Waits, ActiveByCapability
<1> QED BY <1>1, <1>2 DEF Scheduled

\* Nothing runs and no run is on.
LEMMA IdleSchedule ==
    ASSUME Running(checks') = {}, fileState' # "running"
    PROVE  Scheduled'
<1>1. \A cap \in Bounded : Cardinality(ActiveByCapability(checks', cap)) = 0
    BY FS_EmptySet DEF ActiveByCapability
<1>2. \A cap \in Bounded :
            Cardinality(ActiveByCapability(checks', cap)) <= CapabilityLimit(cap)
    BY <1>1, LimitNat
<1> QED BY <1>2, ScheduledBy

\* Steps that move no check from one phase to another.
LEMMA SamePhases ==
    ASSUME IInv, IInv', Scheduled, UNCHANGED <<plan, deps>>,
           fileState' = "running" => fileState = "running",
           \A c \in plan : checks'[c].phase = checks[c].phase
    PROVE  Scheduled'
<1>1. DOMAIN checks = plan /\ DOMAIN checks' = plan
    BY DEF IInv, TypeOK
<1>2. Running(checks') = Running(checks) /\ Queued(checks') = Queued(checks)
    BY <1>1 DEF Running, Queued
<1>3. \A cap : ActiveByCapability(checks', cap) = ActiveByCapability(checks, cap)
    BY <1>2 DEF ActiveByCapability
<1>4. \A cap \in Bounded :
            Cardinality(ActiveByCapability(checks', cap)) <= CapabilityLimit(cap)
    BY <1>3 DEF Scheduled, CapsFit
<1>5. ASSUME fileState' = "running", NEW c \in Queued(checks')
      PROVE  Waits(checks', deps', c)
  <2>1. Waits(checks, deps, c)
      BY <1>2, <1>5 DEF Scheduled, QueuedHasCause, Waits, ActiveByCapability
  <2>2. \A d \in Needs(deps, c) : d \in plan
    <3>1. c \in plan /\ deps \in [DOMAIN deps -> SUBSET plan]
        BY <1>1, <1>5 DEF Queued, IInv, TypeOK
    <3> QED BY <3>1 DEF Needs
  <2> QED BY <2>1, <2>2, <1>3 DEF Waits
<1> QED BY <1>4, <1>5, ScheduledBy

\* Entering a run: every check is queued, nothing runs and nothing has ended.
LEMMA EnteredSchedule ==
    ASSUME NEW p \in SUBSET Checks, NEW ck \in [p -> Records],
           \A c \in p : ck[c].phase = "queued",
           NEW dep, dep \in [DOMAIN dep -> SUBSET p], NEW armed,
           EnterRunning(ck, dep, armed), deps' = dep
    PROVE  Scheduled'
<1>1. Running(ck) = {} /\ Terminal(ck) = {} /\ 0 \in Nat
    BY DEF Running, Terminal
<1>2. \A cap \in Bounded : Cardinality(ActiveByCapability(ck, cap)) <= CapabilityLimit(cap)
  <2>1. \A cap \in Bounded : Cardinality(ActiveByCapability(ck, cap)) = 0
      BY <1>1, FS_EmptySet DEF ActiveByCapability
  <2> QED BY <2>1, LimitNat
<1>3. \A c \in p : Needs(dep, c) \subseteq p
    BY DEF Needs
<1> DEFINE L == Start(ck, Startable(ck, dep), 0)
<1>4. /\ \A cap \in Bounded : Cardinality(ActiveByCapability(L, cap)) <= CapabilityLimit(cap)
      /\ \A c \in Queued(L) : Waits(L, dep, c)
    BY <1>1, <1>2, <1>3, DispatchSchedules
<1>5. checks' = L
    BY DEF EnterRunning
<1> HIDE DEF L
<1> QED BY <1>4, <1>5, ScheduledBy

\* Settling: what ended frees its slot, dependents are skipped, the rest of
\* the queue is walked.
LEMMA SettledSchedule ==
    ASSUME IInv, Scheduled, NEW ck, NEW reg, NEW cl, NEW gone, NEW armed, NEW by,
           SettlesWith(ck, reg, cl, gone, armed, by)
    PROVE  Scheduled'
<1> DEFINE sk == PropagateSkips(ck, deps)
           L == Start(sk, Startable(sk, deps), jobCounter)
<1>1. /\ plan \in SUBSET Checks /\ ck \in [plan -> Records] /\ jobCounter \in Nat
      /\ fileState = "running" /\ \A c \in plan : EndsAs(checks[c], ck[c])
      /\ checks \in [plan -> Records] /\ deps \in [DOMAIN deps -> SUBSET plan]
    BY DEF IInv, TypeOK, SettlesWith
<1>2. sk \in [plan -> Records]
    BY <1>1, SkipsType
<1>3. \A c \in plan :
        \/ c \notin Skips(ck, deps) /\ sk[c] = ck[c]
        \/ /\ c \in Skips(ck, deps) /\ ck[c].phase = "queued"
           /\ sk[c].phase = "terminal" /\ sk[c].status = "skipped"
    BY <1>1, SkipsFollow
<1>4. checks' = L /\ deps' = deps
    BY <1>1 DEF SettlesWith, AfterTerminalSettled, settleFrame
<1> HIDE DEF sk
<1>5. \A cap \in Bounded : Cardinality(ActiveByCapability(sk, cap)) <= CapabilityLimit(cap)
  <2> TAKE cap \in Bounded
  <2>1. ActiveByCapability(sk, cap) \subseteq ActiveByCapability(checks, cap)
    <3> SUFFICES ASSUME NEW c \in plan, sk[c].phase = "running"
                 PROVE  checks[c].phase = "running"
        BY <1>1, <1>2 DEF ActiveByCapability, Running
    <3>1. ck[c] = sk[c]
        BY <1>3
    <3> QED BY <3>1, <1>1 DEF EndsAs
  <2>2. ActiveByCapability(checks, cap) \subseteq Checks
      BY <1>1 DEF ActiveByCapability, Running
  <2> DEFINE S == ActiveByCapability(sk, cap)
             T == ActiveByCapability(checks, cap)
  <2>3. Cardinality(T) <= CapabilityLimit(cap)
      BY DEF Scheduled, CapsFit
  <2> HIDE DEF S, T
  <2>4. IsFiniteSet(T) /\ Cardinality(T) \in Nat /\ S \subseteq T
      BY <2>1, <2>2, FiniteChecks DEF S, T
  <2>5. Cardinality(S) <= Cardinality(T) /\ Cardinality(S) \in Nat
      BY <2>4, FS_Subset, FS_CardinalityType
  <2>6. CapabilityLimit(cap) \in Nat
      BY LimitNat
  <2>7. Cardinality(S) <= CapabilityLimit(cap)
      BY <2>3, <2>4, <2>5, <2>6
  <2> QED BY <2>7 DEF S
<1>6. \A c \in Queued(sk) : \A d \in Needs(deps, c) :
            d \in Terminal(sk) => d \in Completed(sk)
  <2> SUFFICES ASSUME NEW c \in Queued(sk), NEW d \in Needs(deps, c), d \in Terminal(sk)
               PROVE  d \in Completed(sk)
      OBVIOUS
  <2>1. c \in plan /\ d \in plan
      BY <1>2 DEF Queued, Terminal
  <2>2. c \notin Skips(ck, deps) /\ c \in Queued(ck)
      BY <1>1, <1>3, <2>1 DEF Queued
  <2>3. d \notin Terminal(ck) \ Completed(ck) /\ d \notin Skips(ck, deps)
      BY <2>2, SkipsReach
  <2>4. sk[d] = ck[d]
      BY <1>3, <2>1, <2>3
  <2> QED BY <1>1, <1>2, <2>1, <2>3, <2>4 DEF Terminal, Completed
<1>7. \A c \in plan : Needs(deps, c) \subseteq plan
    BY <1>1 DEF Needs
<1>8. /\ \A cap \in Bounded : Cardinality(ActiveByCapability(L, cap)) <= CapabilityLimit(cap)
      /\ \A c \in Queued(L) : Waits(L, deps, c)
    BY <1>1, <1>2, <1>5, <1>6, <1>7, DispatchSchedules
<1> HIDE DEF L
<1> QED BY <1>4, <1>8, ScheduledBy

(***************************************************************************)
(* The stages.                                                             *)
(***************************************************************************)
Early == {"idle", "validating_file", "loading_metadata", "selecting"}

LEMMA RunningStaged ==
    ASSUME Staged, fileState \in {"preparing_assets", "running"}, fileState' = "running",
           UNCHANGED <<generation, active, cancelRequested>>
    PROVE  Staged'
BY DEF Staged, NoRunYet, RunIsCurrent, NothingDoneYet

LEMMA UntouchedStaged ==
    ASSUME Staged,
           UNCHANGED <<generation, active, cancelRequested, plan, occurrences,
                       jobCounter, checks>>,
           fileState' = fileState \/ (fileState \in Early /\ fileState' \in Early)
    PROVE  Staged'
BY DEF Staged, NoRunYet, RunIsCurrent, NothingDoneYet, Early

LEMMA EndedStaged ==
    ASSUME fileState' \in RunStates
    PROVE  Staged'
BY DEF Staged, NoRunYet, RunIsCurrent, NothingDoneYet, RunStates

LEMMA DroppedStaged ==
    ASSUME DropRun, fileState' \in Early
    PROVE  Staged'
BY DEF Staged, NoRunYet, RunIsCurrent, NothingDoneYet, DropRun, Early

LEMMA SettledStaged ==
    ASSUME Staged, NEW ck, NEW reg, NEW cl, NEW gone, NEW armed, NEW by,
           SettlesWith(ck, reg, cl, gone, armed, by)
    PROVE  Staged'
<1>1. /\ fileState = "running"
      /\ \/ fileState' \in RunStates
         \/ UNCHANGED <<fileState, active>>
      /\ UNCHANGED <<generation, cancelRequested>>
    BY DEF SettlesWith, AfterTerminalSettled, settleFrame, RunStates, ComputeRunStatus
<1>2. CASE fileState' \in RunStates
    BY <1>2, EndedStaged
<1>3. CASE UNCHANGED <<fileState, active>>
    BY <1>1, <1>3, RunningStaged
<1> QED BY <1>1, <1>2, <1>3

LEMMA StartRunStaged ==
    ASSUME NEW p \in Plans, NEW dep, NEW budget, NEW needsAssets \in BOOLEAN,
           StartRun(p, dep, budget, needsAssets)
    PROVE  Staged'
<1>1. /\ active' = [gen |-> generation + 1, doc |-> document, key |-> p]
      /\ generation' = generation + 1 /\ cancelRequested' = FALSE
      /\ \/ /\ fileState' = "preparing_assets" /\ jobCounter' = 0
            /\ checks' = BuildRecords(p)
         \/ fileState' = "running"
    BY DEF StartRun, EnterRunning
<1>2. \A c \in DOMAIN BuildRecords(p) : BuildRecords(p)[c].phase = "queued"
    BY DEF BuildRecords, NewRecord
<1> QED BY <1>1, <1>2 DEF Staged, NoRunYet, RunIsCurrent, NothingDoneYet

(***************************************************************************)
(* What a step may never do to evidence: the body of EvidenceIsFinal.      *)
(***************************************************************************)
RecordLasts(a, b) ==
    /\ Len(a.retained) <= Len(b.retained)
    /\ SubSeq(b.retained, 1, Len(a.retained)) = a.retained
    /\ a.phase = "terminal" =>
            /\ b.status = a.status /\ b.reason = a.reason
            /\ b.retained = a.retained /\ b.attempts = a.attempts

Lasting ==
    plan' # {} =>
        /\ occurrences \subseteq occurrences'
        /\ \A c \in DOMAIN checks : RecordLasts(checks[c], checks'[c])

LEMMA SamePrefix ==
    ASSUME NEW S, NEW s \in Seq(S)
    PROVE  Len(s) <= Len(s) /\ SubSeq(s, 1, Len(s)) = s
<1>1. Len(s) \in Nat
    OBVIOUS
<1>2. SubSeq(s, 1, Len(s)) = s
    OBVIOUS
<1> QED BY <1>1, <1>2

LEMMA BookkeepingLasts ==
    ASSUME IInv, Bookkeeping
    PROVE  Lasting
<1>1. /\ checks \in [plan -> Records] /\ occurrences' = occurrences
      /\ \A c \in plan : Follows(checks[c], checks'[c])
    BY DEF IInv, TypeOK, Bookkeeping
<1>2. ASSUME NEW c \in plan PROVE RecordLasts(checks[c], checks'[c])
  <2>1. Follows(checks[c], checks'[c]) /\ checks[c].retained \in Seq(EvidenceItems)
      BY <1>1 DEF Records
  <2> QED BY <2>1, SamePrefix DEF Follows, RecordLasts
<1> QED BY <1>1, <1>2 DEF Lasting

LEMMA DrainLasts ==
    ASSUME IInv, Drains
    PROVE  Lasting
<1>1. checks \in [plan -> Records] /\ occurrences' = occurrences
    BY DEF IInv, TypeOK, Drains
<1>2. ASSUME NEW c \in plan PROVE RecordLasts(checks[c], checks'[c])
  <2>1. /\ checks[c].retained \in Seq(EvidenceItems)
        /\ checks'[c].retained = checks[c].retained
        /\ checks'[c].status = checks[c].status /\ checks'[c].reason = checks[c].reason
        /\ checks'[c].attempts = checks[c].attempts
      BY <1>1 DEF Records, Drains
  <2> QED BY <2>1, SamePrefix DEF RecordLasts
<1> QED BY <1>1, <1>2 DEF Lasting

LEMMA ChunkLasts ==
    ASSUME IInv, RunIsCurrent, NEW m \in Traffic, NEW occs \in Chunks, ReceiveChunk(m, occs)
    PROVE  Lasting
<1> DEFINE c0 == jobs[m.job]
           ev == Evidence(m, occs)
<1>1. Accepts(m, occs, c0, ev)
    BY ChunkAccepts
<1>2. checks \in [plan -> Records] /\ occurrences \subseteq occurrences'
    BY <1>1 DEF IInv, TypeOK, Accepts
<1> HIDE DEF c0, ev
<1>3. ASSUME NEW c \in plan PROVE RecordLasts(checks[c], checks'[c])
  <2>1. checks[c].retained \in Seq(EvidenceItems)
      BY <1>2 DEF Records
  <2>2. CASE c = c0
    <3>1. /\ ev \in Seq(EvidenceItems) /\ checks[c].phase = "running"
          /\ checks'[c].retained = checks[c].retained \o ev
        BY <1>1, <2>2 DEF Accepts
    <3>2. /\ Len(checks'[c].retained) = Len(checks[c].retained) + Len(ev)
          /\ SubSeq(checks'[c].retained, 1, Len(checks[c].retained)) = checks[c].retained
        BY <2>1, <3>1, Appended
    <3>3. Len(checks[c].retained) \in Nat /\ Len(ev) \in Nat
        BY <2>1, <3>1
    <3> QED BY <3>1, <3>2, <3>3 DEF RecordLasts
  <2>3. CASE c # c0
    <3>1. checks'[c] = checks[c]
        BY <1>1, <2>3 DEF Accepts
    <3> QED BY <2>1, <3>1, SamePrefix DEF RecordLasts
  <2> QED BY <2>2, <2>3
<1> QED BY <1>2, <1>3 DEF Lasting

LEMMA StartRunLasts ==
    ASSUME IInv, Staged, fileState \in Early
    PROVE  Lasting
<1>1. DOMAIN checks = {} /\ occurrences = {}
    BY DEF IInv, TypeOK, Staged, NoRunYet, Early
<1> QED BY <1>1 DEF Lasting

(***************************************************************************)
(* Every step keeps the invariant and the evidence.                        *)
(***************************************************************************)
Kept == Staged' /\ Accounted' /\ Scheduled' /\ Lasting

LEMMA SettledKeeps ==
    ASSUME EInv, IInv', \E ck, reg, cl, gone, armed, by : SettlesWith(ck, reg, cl, gone, armed, by)
    PROVE  Kept
<1>1. PICK ck, reg, cl, gone, armed, by : SettlesWith(ck, reg, cl, gone, armed, by)
    OBVIOUS
<1>2. Bookkeeping
    BY <1>1, SettledBookkeeping DEF EInv
<1>3. Staged' /\ Scheduled'
    BY <1>1, SettledStaged, SettledSchedule DEF EInv
<1> QED BY <1>2, <1>3, BookkeepingKeeps, BookkeepingLasts DEF EInv, Kept

LEMMA UntouchedKeeps ==
    ASSUME EInv, IInv',
           UNCHANGED <<plan, deps, occurrences, runProduced, generation, cancelRequested,
                       active, jobCounter, checks, jobs, outbox, registry, claims>>,
           fileState' = fileState \/ (fileState \in Early /\ fileState' \in Early)
    PROVE  Kept
<1>1. Bookkeeping
    BY UntouchedBookkeeping DEF EInv
<1>2. Staged'
    BY UntouchedStaged DEF EInv
<1>3. fileState' = "running" => fileState = "running"
    BY DEF Early
<1>4. Scheduled'
    BY <1>3, SamePhases DEF EInv
<1> QED BY <1>1, <1>2, <1>4, BookkeepingKeeps, BookkeepingLasts DEF EInv, Kept

LEMMA ReceiveKeeps ==
    ASSUME EInv, IInv', NEW m \in Traffic, Receive(m)
    PROVE  Kept
<1>1. CASE \/ ReceiveForeign(m) \/ ReceiveOverclaim(m) \/ ReceiveFlood(m)
           \/ \E occs \in Chunks : ReceiveOversized(m, occs)
           \/ \E status \in ReportedStatuses : ReceiveTerminal(m, status)
           \/ \E reason \in Reasons : ReceiveFailure(m, reason)
  <2>1. \E ck, reg, cl, gone, armed, by : SettlesWith(ck, reg, cl, gone, armed, by)
      BY <1>1, ReceiveSettles DEF EInv
  <2> QED BY <2>1, SettledKeeps
<1>2. CASE ReceiveInert(m)
  <2>1. Bookkeeping
      BY <1>2, InertBookkeeping DEF EInv
  <2>2. /\ Admit(m) /\ m.job \in DOMAIN jobs
        /\ UNCHANGED <<fileState, generation, active, plan, deps, checks, cancelRequested>>
      BY <1>2 DEF ReceiveInert, Delivered, lifeVars
  <2>3. fileState = "running"
      BY <2>2, AdmittedRuns DEF EInv
  <2>4. Staged' /\ Scheduled'
      BY <2>2, <2>3, RunningStaged, SamePhases DEF EInv
  <2> QED BY <2>1, <2>4, BookkeepingKeeps, BookkeepingLasts DEF EInv, Kept
<1>3. CASE \E occs \in Chunks : ReceiveChunk(m, occs)
  <2>1. PICK occs \in Chunks : ReceiveChunk(m, occs)
      BY <1>3
  <2>2. IInv /\ Staged /\ Accounted /\ Scheduled /\ RunIsCurrent
      BY DEF EInv, Staged
  <2>3. Accounted' /\ Lasting
      BY <2>1, <2>2, ChunkKeeps, ChunkLasts
  <2>4. /\ Admit(m) /\ m.job \in DOMAIN jobs
        /\ UNCHANGED <<fileState, generation, active, plan, deps, cancelRequested>>
      BY <2>1 DEF ReceiveChunk, Delivered, lifeVars
  <2>5. fileState = "running"
      BY <2>2, <2>4, AdmittedRuns
  <2>6. Accepts(m, occs, jobs[m.job], Evidence(m, occs))
      BY <2>1, <2>2, ChunkAccepts
  <2>7. \A c \in plan : checks'[c].phase = checks[c].phase
      BY <2>6 DEF Accepts
  <2>8. Staged' /\ Scheduled'
      BY <2>2, <2>4, <2>5, <2>7, RunningStaged, SamePhases
  <2> QED BY <2>3, <2>8 DEF Kept
<1>4. CASE \E reason \in Reasons : ReceiveCrash(m, reason)
  <2>1. PICK reason \in Reasons : ReceiveCrash(m, reason)
      BY <1>4
  <2>2. Bookkeeping
      BY <2>1, CrashBookkeeping DEF EInv
  <2>3. /\ Admit(m) /\ m.job \in DOMAIN jobs
        /\ checks' = [checks EXCEPT ![jobs[m.job]] = Retried(@, jobCounter + 1)]
        /\ UNCHANGED <<fileState, generation, active, plan, deps, cancelRequested>>
      BY <2>1 DEF ReceiveCrash, Delivered, lifeVars
  <2>4. fileState = "running" /\ jobs[m.job] \in plan /\ checks[jobs[m.job]] \in Records
      BY <2>3, AdmittedRuns DEF EInv
  <2>5. \A c \in plan : checks'[c].phase = checks[c].phase
    <3>1. \A r \in Records : Retried(r, jobCounter + 1).phase = r.phase
        BY Zenon DEF Retried, Records
    <3>2. checks \in [plan -> Records]
        BY DEF EInv, IInv, TypeOK
    <3> QED BY <2>3, <2>4, <3>1, <3>2
  <2>6. Staged' /\ Scheduled'
      BY <2>3, <2>4, <2>5, RunningStaged, SamePhases DEF EInv
  <2> QED BY <2>2, <2>6, BookkeepingKeeps, BookkeepingLasts DEF EInv, Kept
<1> QED BY <1>1, <1>2, <1>3, <1>4 DEF Receive

LEMMA RequestCancelKeeps ==
    ASSUME EInv, IInv', RequestCancel
    PROVE  Kept
<1>1. Bookkeeping
    BY CancelBookkeeping DEF EInv, Staged
<1>2. fileState' = "cancelled" /\ SettledIsQuiet' /\ IInv'
    BY DEF RequestCancel, IInv
<1>3. Running(checks') = {}
  <2>1. DOMAIN jobs' = {}
      BY <1>2 DEF SettledIsQuiet
  <2>2. Binding(checks', jobs', jobCounter')
      BY DEF IInv
  <2> QED BY <2>1, <2>2 DEF Binding, Running
<1>4. Staged' /\ Scheduled'
    BY <1>2, <1>3, EndedStaged, IdleSchedule DEF RunStates
<1> QED BY <1>1, <1>4, BookkeepingKeeps, BookkeepingLasts DEF EInv, Kept

LEMMA DropRunKeeps ==
    ASSUME DropRun, fileState' \in Early
    PROVE  Kept
<1>1. Running(checks') = {} /\ plan' = {} /\ fileState' # "running"
    BY RunDropped DEF Early
<1> QED BY <1>1, DropKeeps, DroppedStaged, IdleSchedule DEF Kept, Lasting

LEMMA StartRunKept ==
    ASSUME EInv, IInv', NEW p \in Plans, NEW budget \in BOOLEAN, NEW needsAssets \in BOOLEAN,
           NEW dep \in DependencyChoices(p), StartRun(p, dep, budget, needsAssets)
    PROVE  Kept
<1>1. Staged' /\ Accounted'
    BY StartRunStaged, StartRunKeeps
<1>2. Lasting
  <2>1. fileState \in Early
      BY DEF StartRun, Early
  <2> QED BY <2>1, StartRunLasts DEF EInv
<1>3. Scheduled'
  <2>1. p \in SUBSET Checks /\ plan' = p /\ deps' = dep
      BY PlanAssumption DEF StartRun
  <2>2. deps' \in [DOMAIN deps' -> SUBSET p]
      BY <2>1 DEF IInv, TypeOK
  <2>3. /\ BuildRecords(p) \in [p -> Records]
        /\ \A c \in p : BuildRecords(p)[c].phase = "queued"
      BY FreshLedger
  <2>4. CASE needsAssets
    <3>1. fileState' = "preparing_assets" /\ checks' = BuildRecords(p)
        BY <2>4 DEF StartRun
    <3>2. Running(checks') = {}
        BY <2>3, <3>1 DEF Running
    <3> QED BY <3>1, <3>2, IdleSchedule
  <2>5. CASE ~needsAssets
    <3> DEFINE armed == timers \cup (IF budget THEN {RunTimer} ELSE {})
    <3>1. EnterRunning(BuildRecords(p), dep, armed)
        BY <2>5 DEF StartRun
    <3> HIDE DEF armed
    <3>2. dep \in [DOMAIN dep -> SUBSET p]
        BY <2>1, <2>2
    <3> QED BY <2>1, <2>3, <3>1, <3>2, EnteredSchedule
  <2> QED BY <2>4, <2>5
<1> QED BY <1>1, <1>2, <1>3 DEF Kept

LEMMA AssetsReadyKept ==
    ASSUME EInv, IInv', AssetsReady
    PROVE  Kept
<1>1. /\ fileState = "preparing_assets" /\ fileState' = "running"
      /\ EnterRunning(checks, deps, timers)
      /\ UNCHANGED <<generation, active, deps, cancelRequested>>
    BY DEF AssetsReady, EnterRunning
<1>2. Bookkeeping
    BY AssetsBookkeeping DEF EInv, Staged, Accounted
<1>3. Staged'
    BY <1>1, RunningStaged DEF EInv
<1>4. /\ plan \in SUBSET Checks /\ checks \in [plan -> Records]
      /\ \A c \in plan : checks[c].phase = "queued"
      /\ deps \in [DOMAIN deps -> SUBSET plan]
    BY <1>1 DEF EInv, IInv, TypeOK, Staged, NothingDoneYet
<1>5. Scheduled'
    BY <1>1, <1>4, EnteredSchedule
<1> QED BY <1>2, <1>3, <1>5, BookkeepingKeeps, BookkeepingLasts DEF EInv, Kept

LEMMA DrainOutboxKept ==
    ASSUME EInv, IInv', DrainOutbox
    PROVE  Kept
<1>1. Drains
    BY DrainLeaves DEF EInv
<1>2. Accounted' /\ Lasting
    BY <1>1, DrainKeeps, DrainLasts DEF EInv
<1>3. /\ UNCHANGED <<fileState, generation, plan, deps, jobCounter, occurrences,
                     cancelRequested, active>>
      /\ \A c \in plan : checks'[c].phase = checks[c].phase
    BY <1>1 DEF Drains
<1>4. Scheduled'
    BY <1>3, SamePhases DEF EInv
<1>5. DOMAIN checks' = plan /\ DOMAIN checks = plan
    BY <1>3 DEF EInv, IInv, TypeOK
<1>6. Staged'
    BY <1>3, <1>5 DEF EInv, Staged, NoRunYet, RunIsCurrent, NothingDoneYet
<1> QED BY <1>2, <1>4, <1>6 DEF Kept

LEMMA EvidenceInit == Init => EInv
<1> SUFFICES ASSUME Init PROVE EInv
    OBVIOUS
<1>1. IInv
    BY InitInv
<1>2. /\ DOMAIN checks = {} /\ outbox = {} /\ DOMAIN claims = {} /\ runProduced = 0
      /\ plan = {} /\ occurrences = {} /\ fileState = "idle"
    BY DEF Init, Empty
<1>3. Staged
    BY <1>2 DEF Staged, NoRunYet, RunIsCurrent, NothingDoneYet
<1>4. RastersFit(claims)
    BY <1>2, FS_EmptySet, LimitAssumption DEF RastersFit, RasterHolders
<1>5. OwnEvidenceOnly /\ EvidenceByServer /\ Credit /\ AcksSeen /\ AmountsFit
    BY <1>2, LimitAssumption
    DEF OwnEvidenceOnly, EvidenceByServer, Credit, AcksSeen, AmountsFit
<1>6. Scheduled
  <2>1. \A cap \in Bounded : ActiveByCapability(checks, cap) = {}
      BY <1>2 DEF ActiveByCapability, Running
  <2>2. \A cap \in Bounded : Cardinality(ActiveByCapability(checks, cap)) = 0
      BY <2>1, FS_EmptySet
  <2>3. CapsFit
      BY <2>2, LimitNat DEF CapsFit
  <2>4. QueuedHasCause
      BY <1>2 DEF QueuedHasCause
  <2> QED BY <2>3, <2>4 DEF Scheduled
<1> QED BY <1>1, <1>3, <1>4, <1>5, <1>6 DEF EInv, Accounted

LEMMA EvidenceStep == EInv /\ [Step]_vars => IInv' /\ Kept
<1> SUFFICES ASSUME EInv, [Step]_vars PROVE IInv' /\ Kept
    OBVIOUS
<1>1. IInv /\ IInv'
    BY StepInv DEF EInv
<1> DEFINE Still == UNCHANGED <<plan, deps, occurrences, runProduced, generation,
                                cancelRequested, active, jobCounter, checks, jobs,
                                outbox, registry, claims>>
<1>2. CASE OpenFile
  <2>1. Still /\ fileState \in Early /\ fileState' \in Early
      BY <1>2 DEF OpenFile, Early, authorityVars, runVars
  <2> QED BY <1>1, <2>1, UntouchedKeeps
<1>3. CASE FileValidated
  <2>1. Still /\ fileState \in Early /\ fileState' \in Early
      BY <1>3 DEF FileValidated, Early, authorityVars, runVars
  <2> QED BY <1>1, <2>1, UntouchedKeeps
<1>4. CASE \E doc \in Documents : MetadataLoaded(doc)
  <2>1. Still /\ fileState \in Early /\ fileState' \in Early
      BY <1>4 DEF MetadataLoaded, Early, authorityVars, runVars
  <2> QED BY <1>1, <2>1, UntouchedKeeps
<1>5. CASE \E p \in Plans, budget \in BOOLEAN, needsAssets \in BOOLEAN :
                \E dep \in DependencyChoices(p) : StartRun(p, dep, budget, needsAssets)
    BY <1>1, <1>5, StartRunKept
<1>6. CASE AssetsReady
    BY <1>1, <1>6, AssetsReadyKept
<1>7. CASE BudgetElapses
  <2>1. Still /\ fileState' = fileState
      BY <1>7 DEF BudgetElapses, authorityVars, lifeVars
  <2> QED BY <1>1, <2>1, UntouchedKeeps
<1>8. CASE RunDeadline
    BY <1>1, <1>8, RunDeadlineSettles, SettledKeeps
<1>9. CASE \E c \in DOMAIN checks : CheckDeadline(c)
    BY <1>1, <1>9, CheckDeadlineSettles, SettledKeeps
<1>10. CASE \E t \in timers : IgnoredDeadline(t)
  <2>1. Still /\ fileState' = fileState
      BY <1>10 DEF IgnoredDeadline, authorityVars, lifeVars
  <2> QED BY <1>1, <2>1, UntouchedKeeps
<1>11. CASE \E m \in Traffic : Receive(m)
    BY <1>1, <1>11, ReceiveKeeps
<1>12. CASE RequestCancel
    BY <1>1, <1>12, RequestCancelKeeps
<1>13. CASE \E next \in {"idle", "replace"} : RequestClear(next)
  <2>1. DropRun /\ fileState' \in Early
      BY <1>13 DEF RequestClear, Early
  <2> QED BY <1>1, <2>1, DropRunKeeps
<1>14. CASE PrepareNewRun
  <2>1. DropRun /\ fileState' \in Early
      BY <1>14 DEF PrepareNewRun, Early
  <2> QED BY <1>1, <2>1, DropRunKeeps
<1>15. CASE \E r \in Resources : Own(r) \/ OwnRunResource(r)
  <2>1. Still /\ fileState' = fileState
      BY <1>15 DEF Own, OwnRunResource, authorityVars, lifeVars, runVars
  <2> QED BY <1>1, <2>1, UntouchedKeeps
<1>16. CASE DrainOutbox
    BY <1>1, <1>16, DrainOutboxKept
<1>17. CASE UNCHANGED vars
  <2>1. Still /\ fileState' = fileState
      BY <1>17 DEF vars, authorityVars, lifeVars, runVars
  <2> QED BY <1>1, <2>1, UntouchedKeeps
<1> QED BY <1>1, <1>2, <1>3, <1>4, <1>5, <1>6, <1>7, <1>8, <1>9, <1>10, <1>11, <1>12,
           <1>13, <1>14, <1>15, <1>16, <1>17, BoundedTraffic DEF Step, Next

(***************************************************************************)
(* All of it holds in every reachable state.                               *)
(***************************************************************************)
THEOREM EvidenceInvariance == Spec => []EInv
<1>1. EInv /\ [Next]_vars => EInv'
    BY EvidenceStep DEF Step, EInv, Kept
<1> QED BY <1>1, EvidenceInit, PTL DEF Spec

LEMMA LimitsKept == EInv => WithinLimits
BY DEF EInv, Accounted, Scheduled, CapsFit, RastersFit, AmountsFit, WithinLimits,
       ActiveByCapability

LEMMA EvidenceTells == EInv => MessagesAccounted /\ SlotsAreUsed
<1> SUFFICES ASSUME EInv PROVE MessagesAccounted /\ SlotsAreUsed
    OBVIOUS
<1>1. \A c \in Running(checks) : checks[c].unacked = Cardinality(AcksFor(c))
    BY DEF EInv, Accounted, Credit, Running
<1> QED BY <1>1, LimitsKept DEF EInv, Accounted, MessagesAccounted, AcksConserved, Scheduled,
           SlotsAreUsed

(***************************************************************************)
(* What a check retains was sent in this run, under its generation, by a   *)
(* job that served no other check; the window of a running check is the    *)
(* acks still queued for it; no limit is exceeded: whatever is delayed,    *)
(* repeated, reordered or misdirected.                                     *)
(***************************************************************************)
THEOREM MessagesKept == Spec => []MessagesAccounted
BY EvidenceTells, EvidenceInvariance, PTL

(***************************************************************************)
(* A queued check of a running run waits for a prerequisite or for a slot  *)
(* that is taken, and no slot is given out twice: for every dependency map *)
(* and every way checks fail, are skipped or free a slot together.         *)
(***************************************************************************)
THEOREM SlotsKept == Spec => []SlotsAreUsed
BY EvidenceTells, EvidenceInvariance, PTL

(***************************************************************************)
(* Within a run terminal results are final and retained evidence is only   *)
(* appended to.                                                            *)
(***************************************************************************)
THEOREM EvidenceKept == Spec => EvidenceIsFinal
<1>1. EInv /\ [Next]_vars => [plan' # {} =>
        /\ occurrences \subseteq occurrences'
        /\ \A c \in DOMAIN checks :
            /\ Len(checks[c].retained) <= Len(checks'[c].retained)
            /\ SubSeq(checks'[c].retained, 1, Len(checks[c].retained)) =
                    checks[c].retained
            /\ checks[c].phase = "terminal" =>
                    /\ checks'[c].status = checks[c].status
                    /\ checks'[c].reason = checks[c].reason
                    /\ checks'[c].retained = checks[c].retained
                    /\ checks'[c].attempts = checks[c].attempts]_vars
    BY EvidenceStep DEF Step, Kept, Lasting, RecordLasts
<1> QED BY <1>1, EvidenceInvariance, PTL DEF Spec, EvidenceIsFinal

---------------------------------------------------------------------------
(***************************************************************************)
(* The session only takes steps of the coordinator.                        *)
(***************************************************************************)

Composed ==
    /\ EInv
    /\ SessionTypeOK
    /\ preparing \subseteq 1..MaxGeneration

\* What the session sends for a job is a message of the run under way.
LEMMA SessionTraffic ==
    ASSUME IInv, NEW j, NEW c \in Checks, NEW g \in Nat, j \in DOMAIN registry
    PROVE  MessageOf(j, c, g) \in Traffic
<1>1. /\ registry[j].last + 1 \in Nat /\ j \in Nat
      /\ document \in Documents \cup {NoDoc} /\ plan \in SUBSET Checks
    BY DEF IInv, TypeOK
<1> QED BY <1>1 DEF MessageOf, Traffic

\* A message that is admitted.
LEMMA AdmittedTraffic ==
    ASSUME IInv, NEW j, NEW c \in Checks, NEW g \in Nat, Admit(MessageOf(j, c, g))
    PROVE  MessageOf(j, c, g) \in Traffic
<1>1. j \in DOMAIN registry
    BY DEF Admit, MessageOf
<1> QED BY <1>1, SessionTraffic

LEMMA SessionSteps ==
    ASSUME Composed, [SessionNext]_allVars
    PROVE  [Step]_vars
<1>1. IInv /\ SessionTypeOK /\ generation \in Nat
    BY DEF Composed, EInv, IInv, TypeOK
<1>2. ASSUME NEW p, p \in {TextPlan, OcrPlan}, NEW ocr \in BOOLEAN, BeginRun(p, ocr)
      PROVE  Step
  <2>1. p \in Plans /\ StartRun(p, DeriveDependencies(p), TRUE, ocr)
      BY <1>2, SessionAssumption DEF BeginRun
  <2>2. DeriveDependencies(p) \in DependencyChoices(p)
      BY DEF DependencyChoices
  <2> QED BY <2>1, <2>2 DEF Step, Next
<1>3. ASSUME NEW g \in preparing, Prepared(g) PROVE Step
  <2>1. g \in Resources /\ OwnRunResource(g)
      BY <1>3, SessionAssumption DEF Prepared, Composed
  <2> QED BY <2>1 DEF Step, Next
<1>4. ASSUME NEW j, NEW status \in ReportedStatuses, aligning # {}, j \in aligning,
             ReceiveTerminal(MessageOf(j, jobs[j], runGeneration), status)
      PROVE  Step
  <2> DEFINE m == MessageOf(j, jobs[j], runGeneration)
  <2>1. Admit(m) /\ m.job = j /\ m.job \in DOMAIN jobs
      BY <1>4 DEF ReceiveTerminal, Delivered, MessageOf
  <2>2. jobs[j] \in Checks /\ runGeneration \in Nat
      BY <1>1, <2>1 DEF IInv, TypeOK, SessionTypeOK
  <2>3. m \in Traffic
      BY <1>1, <2>1, <2>2, AdmittedTraffic
  <2> HIDE DEF m
  <2> QED BY <1>4, <2>1, <2>3 DEF Step, Receive, m
<1>5. ASSUME NEW e \in executors, NEW m, m = MessageOf(e.job, e.check, e.gen), Admit(m)
      PROVE  m \in Traffic
  <2>1. e.check \in Checks /\ e.gen \in Nat
      BY <1>1 DEF SessionTypeOK
  <2> QED BY <1>1, <1>5, <2>1, AdmittedTraffic
<1>6. CASE BeginRun(TextPlan, FALSE) \/ BeginRun(OcrPlan, TRUE)
    BY <1>2, <1>6
<1>7. CASE Answers
    BY <1>3, <1>7 DEF Answers, PreparedTooLate, NotPrepared, coordinatorVars
<1>8. CASE Continues
  <2>1. CASE Release
      BY <2>1 DEF Release, Step, Next
  <2>2. CASE Pump
      BY <2>2 DEF Pump, Step, Next
  <2>3. CASE \E j \in aligning : Align(j)
    <3>1. PICK j \in aligning : ReceiveTerminal(MessageOf(j, jobs[j], runGeneration), "completed")
        BY <2>3 DEF Align
    <3> QED BY <1>4, <3>1, SessionAssumption
  <2>4. CASE Returns
      BY <2>4 DEF Returns, coordinatorVars
  <2>5. CASE CancelsNow
      BY <2>5 DEF CancelsNow, Step, Next
  <2> QED BY <1>8, <2>1, <2>2, <2>3, <2>4, <2>5 DEF Continues
<1>9. CASE \E e \in executors : \E occs \in Chunks : Streams(e, occs)
  <2>1. PICK e \in executors, occs \in Chunks : Streams(e, occs)
      BY <1>9
  <2> DEFINE m == MessageOf(e.job, e.check, e.gen)
  <2>2. ReceiveChunk(m, occs) \/ ReceiveOversized(m, occs)
      BY <2>1 DEF Streams
  <2>3. Admit(m)
      BY <2>2 DEF ReceiveChunk, ReceiveOversized, Delivered
  <2>4. m \in Traffic
      BY <1>5, <2>3
  <2> HIDE DEF m
  <2> QED BY <2>2, <2>3, <2>4 DEF Step, Receive
<1>10. CASE \E e \in executors : Ends(e)
  <2>1. PICK e \in executors : Ends(e)
      BY <1>10
  <2> DEFINE m == MessageOf(e.job, e.check, e.gen)
  <2>2. \/ \E status \in ReportedStatuses : ReceiveTerminal(m, status)
        \/ \E reason \in Reasons : ReceiveFailure(m, reason) \/ ReceiveCrash(m, reason)
      BY <2>1, SessionAssumption DEF Ends
  <2>3. Admit(m)
      BY <2>2 DEF ReceiveTerminal, ReceiveFailure, ReceiveCrash, Delivered
  <2>4. m \in Traffic
      BY <1>5, <2>3
  <2> HIDE DEF m
  <2> QED BY <2>2, <2>3, <2>4 DEF Step, Receive
<1>11. CASE \E e \in executors : EndsUnheard(e)
    BY <1>11 DEF EndsUnheard, coordinatorVars
<1>12. CASE WatchdogFires
    BY <1>12 DEF WatchdogFires, Step, Next
<1>13. CASE TimePasses
  <2>1. IgnoredDeadline(RunTimer) => RunTimer \in timers
      BY DEF IgnoredDeadline
  <2> QED BY <1>13, <2>1 DEF TimePasses, Step, Next
<1>14. CASE CancelRun
    BY <1>14 DEF CancelRun, Step, Next, coordinatorVars
<1>15. CASE NewRun
    BY <1>15 DEF NewRun, Step, Next
<1>16. CASE \E next \in {"idle", "replace"} : CloseFile(next)
    BY <1>16 DEF CloseFile, Step, Next
<1>17. CASE FileSteps
    BY <1>17 DEF FileSteps, Step, Next
<1>18. CASE UNCHANGED allVars
    BY <1>18 DEF allVars, coordinatorVars
<1> QED BY <1>6, <1>7, <1>8, <1>9, <1>10, <1>11, <1>12, <1>13, <1>14, <1>15, <1>16,
           <1>17, <1>18 DEF SessionNext

LEMMA LeavesTyped ==
    ASSUME SessionTypeOK, NEW e, Leaves(e)
    PROVE  /\ executors' \subseteq executors
           /\ DOMAIN jobSignals' \subseteq Jobs /\ jobSignals' \in [DOMAIN jobSignals' -> Nat]
BY DEF SessionTypeOK, Leaves

ExecutorRecords ==
    [job : Jobs, check : Checks, gen : Nat, reader : Nat, aborted : BOOLEAN, streamed : BOOLEAN]

LEMMA ExecutorsTyped ==
    ASSUME IInv, SessionTypeOK
    PROVE  Executors \subseteq ExecutorRecords
<1> SUFFICES ASSUME NEW x \in Executors PROVE x \in ExecutorRecords
    OBVIOUS
<1>1. PICK i \in outbox :
        x = [job |-> i.job, check |-> i.check, gen |-> runGeneration,
             reader |-> IF Capability[i.check] = "ocr" THEN ocrReader ELSE 0,
             aborted |-> FALSE, streamed |-> FALSE]
    BY DEF Executors, Dispatched
<1>2. i \in Intents /\ runGeneration \in Nat /\ ocrReader \in Nat
    BY DEF IInv, TypeOK, SessionTypeOK
<1> QED BY <1>1, <1>2 DEF ExecutorRecords, Intents, Jobs

LEMMA PumpTyped ==
    ASSUME IInv, SessionTypeOK, Pump
    PROVE  SessionTypeOK'
<1> DEFINE kept == {IF e \in Aborted THEN [e EXCEPT !.aborted = TRUE] ELSE e : e \in executors}
           new == {e.job : e \in Executors}
           gone == JobsOf(Dispatched(Capabilities)) \ new
<1>1. /\ executors' = kept \cup Executors
      /\ jobSignals' = [j \in (DOMAIN jobSignals \cup new) \ gone |->
                            IF j \in new THEN runGeneration ELSE jobSignals[j]]
      /\ aligning' = JobsOf(Dispatched({"alignment"}))
      /\ call' \in {"none", call} /\ UNCHANGED <<runGeneration, ocrVars, resultVars, overlapped>>
    BY DEF Pump
<1>2. Executors \subseteq ExecutorRecords
    BY ExecutorsTyped
<1>3. kept \subseteq ExecutorRecords
    BY DEF SessionTypeOK, ExecutorRecords
<1>4. new \subseteq Jobs
    BY <1>2 DEF ExecutorRecords
<1>5. aligning' \subseteq Jobs
    BY <1>1 DEF JobsOf, Dispatched, IInv, TypeOK, Intents, Jobs
<1> HIDE DEF kept, new, gone
<1>6. DOMAIN jobSignals' \subseteq Jobs /\ jobSignals' \in [DOMAIN jobSignals' -> Nat]
    BY <1>1, <1>4 DEF SessionTypeOK
<1>7. executors' \subseteq ExecutorRecords
    BY <1>1, <1>2, <1>3
<1> QED BY <1>1, <1>5, <1>6, <1>7 DEF SessionTypeOK, ExecutorRecords, ocrVars, resultVars

LEMMA SessionTypes ==
    ASSUME Composed, IInv', [SessionNext]_allVars
    PROVE  SessionTypeOK' /\ preparing' \subseteq 1..MaxGeneration
<1>1. /\ IInv /\ SessionTypeOK /\ generation \in Nat /\ generation' \in Nat
      /\ preparing \subseteq 1..MaxGeneration
    BY DEF Composed, EInv, IInv, TypeOK
<1> DEFINE Same == UNCHANGED <<call, aligning, runGeneration, executors, jobSignals, preparing,
                               ocrReader, cancelPending, alignments, overlapped>>
<1>2. ASSUME NEW p, NEW ocr \in BOOLEAN, BeginRun(p, ocr)
      PROVE  SessionTypeOK' /\ preparing' \subseteq 1..MaxGeneration
  <2>1. generation < MaxGeneration /\ generation' = generation + 1 /\ MaxGeneration \in Nat
      BY <1>2, LimitAssumption DEF BeginRun, StartRun
  <2>2. preparing' \subseteq preparing \cup {generation'}
      BY <1>2 DEF BeginRun
  <2>3. preparing' \subseteq 1..MaxGeneration
      BY <1>1, <2>1, <2>2
  <2>4. /\ call' \in {"none", "pump", "start"} /\ runGeneration' \in {runGeneration, generation'}
        /\ UNCHANGED <<aligning, executors, jobSignals>>
        /\ ocrReader' = 0 /\ cancelPending' = FALSE /\ DOMAIN alignments' = {}
        /\ overlapped' \in BOOLEAN
      BY <1>2 DEF BeginRun, Pumping, workVars, Empty
  <2>5. runGeneration' \in Nat /\ ocrReader' \in Nat /\ preparing' \subseteq Nat
      BY <1>1, <2>3, <2>4 DEF SessionTypeOK
  <2>6. /\ aligning' \subseteq Jobs /\ executors' \subseteq ExecutorRecords
        /\ DOMAIN jobSignals' \subseteq Jobs /\ jobSignals' \in [DOMAIN jobSignals' -> Nat]
      BY <1>1, <2>4 DEF SessionTypeOK, ExecutorRecords
  <2> QED BY <2>3, <2>4, <2>5, <2>6 DEF SessionTypeOK, ExecutorRecords
<1>3. CASE Answers
  <2>1. PICK g \in preparing : Prepared(g) \/ NotPrepared(g) \/ PreparedTooLate(g)
      BY <1>3 DEF Answers
  <2>2. /\ preparing' \subseteq preparing /\ call' \in {call, "release"}
        /\ ocrReader' \in {ocrReader, g, 0}
        /\ UNCHANGED <<aligning, runGeneration, executors, jobSignals, cancelPending,
                       alignments, overlapped>>
      BY <2>1 DEF Prepared, NotPrepared, PreparedTooLate, stackVars, workVars, resultVars
  <2>3. g \in Nat
      BY <1>1
  <2> QED BY <1>1, <2>2, <2>3 DEF SessionTypeOK
<1>4. CASE Continues
  <2>1. CASE Release
      BY <1>1, <2>1 DEF Release, workVars, ocrVars, resultVars, SessionTypeOK
  <2>2. CASE Pump
      BY <1>1, <2>2, PumpTyped DEF Pump, ocrVars
  <2>3. CASE \E j \in aligning : Align(j)
    <3>1. PICK j \in aligning : Align(j)
        BY <2>3
    <3>2. j \in DOMAIN jobs
        BY <3>1 DEF Align, ReceiveTerminal, Delivered, MessageOf
    <3>3. jobs[j] \in Checks
        BY <1>1, <3>2 DEF IInv, TypeOK
    <3>4. /\ aligning' \subseteq aligning
          /\ DOMAIN alignments' = DOMAIN alignments \cup {jobs[j]}
          /\ UNCHANGED <<call, runGeneration, executors, jobSignals, preparing, ocrReader,
                         cancelPending, overlapped>>
        BY <3>1 DEF Align, workVars, ocrVars
    <3> QED BY <1>1, <3>3, <3>4 DEF SessionTypeOK
  <2>4. CASE Returns
      BY <1>1, <2>4 DEF Returns, workVars, ocrVars, resultVars, SessionTypeOK
  <2>5. CASE CancelsNow
      BY <1>1, <2>5 DEF CancelsNow, workVars, resultVars, SessionTypeOK
  <2> QED BY <1>4, <2>1, <2>2, <2>3, <2>4, <2>5 DEF Continues
<1>5. CASE \E e \in executors : \E occs \in Chunks : Streams(e, occs)
  <2>1. PICK e \in executors, occs \in Chunks : Streams(e, occs)
      BY <1>5
  <2>2. /\ executors' = (executors \ {e}) \cup {[e EXCEPT !.streamed = TRUE]}
        /\ call' = "pump"
        /\ UNCHANGED <<aligning, runGeneration, jobSignals, preparing, ocrReader,
                       cancelPending, alignments, overlapped>>
      BY <2>1 DEF Streams, ocrVars, resultVars
  <2>3. executors' \subseteq ExecutorRecords
      BY <1>1, <2>2 DEF SessionTypeOK, ExecutorRecords
  <2> QED BY <1>1, <2>2, <2>3 DEF SessionTypeOK, ExecutorRecords
<1>6. CASE \E e \in executors : Ends(e) \/ EndsUnheard(e)
  <2>1. PICK e \in executors : Ends(e) \/ EndsUnheard(e)
      BY <1>6
  <2>2. /\ Leaves(e) /\ call' \in {call, "pump"}
        /\ UNCHANGED <<aligning, runGeneration, preparing, ocrReader, cancelPending,
                       alignments, overlapped>>
      BY <2>1 DEF Ends, EndsUnheard, stackVars, ocrVars, resultVars
  <2>3. /\ executors' \subseteq executors
        /\ DOMAIN jobSignals' \subseteq Jobs /\ jobSignals' \in [DOMAIN jobSignals' -> Nat]
      BY <1>1, <2>2, LeavesTyped
  <2> QED BY <1>1, <2>2, <2>3 DEF SessionTypeOK
<1>7. CASE WatchdogFires \/ CancelRun
    BY <1>1, <1>7 DEF WatchdogFires, CancelRun, workVars, ocrVars, resultVars, SessionTypeOK
<1>8. CASE \/ TimePasses \/ NewRun \/ FileSteps
           \/ \E next \in {"idle", "replace"} : CloseFile(next)
           \/ UNCHANGED allVars
  <2>1. Same
      BY <1>8 DEF TimePasses, NewRun, CloseFile, FileSteps, allVars, sessionVars, stackVars,
             workVars, ocrVars, resultVars
  <2> QED BY <1>1, <2>1 DEF SessionTypeOK
<1> QED BY <1>2, <1>3, <1>4, <1>5, <1>6, <1>7, <1>8 DEF SessionNext

LEMMA SessionStarts == SessionInit => Composed
<1> SUFFICES ASSUME SessionInit PROVE Composed
    OBVIOUS
<1>1. Init /\ EInv
    BY EvidenceInit DEF SessionInit
<1>2. jobSignals = Empty /\ DOMAIN jobSignals = {} /\ DOMAIN alignments = {}
    BY DEF SessionInit, Empty
<1>3. jobSignals \in [DOMAIN jobSignals -> Nat]
    BY <1>2 DEF Empty
<1>4. SessionTypeOK /\ preparing \subseteq 1..MaxGeneration
    BY <1>2, <1>3 DEF SessionInit, SessionTypeOK
<1> QED BY <1>1, <1>4 DEF Composed

LEMMA SessionKeeps == Composed /\ [SessionNext]_allVars => Composed'
<1> SUFFICES ASSUME Composed, [SessionNext]_allVars PROVE Composed'
    OBVIOUS
<1>1. IInv' /\ Kept
    BY SessionSteps, EvidenceStep DEF Composed
<1> QED BY <1>1, SessionTypes DEF Composed, EInv, Kept

(***************************************************************************)
(* All that is proved of the coordinator holds when the session drives it. *)
(***************************************************************************)
THEOREM SessionKeepsRun == SessionSpec => []Composed
BY SessionStarts, SessionKeeps, PTL DEF SessionSpec

(***************************************************************************)
(* What a step of the run means to those who serve it.                     *)
(***************************************************************************)

\* Check c across a step in which only the checks in `by` may complete.
Advances(c, by) ==
    /\ checks[c].phase = "terminal" => checks'[c] = checks[c]
    /\ c \in Completed(checks') => c \in Completed(checks) \/ c \in by
    /\ checks'[c].phase = "running" =>
        \/ checks[c].phase = "running" /\ checks'[c].job = checks[c].job
        \/ Intent("dispatch", checks'[c].job, c, 0) \in outbox'
    /\ checks'[c].phase = "running" /\ checks[c].phase # "running" =>
        Needs(deps, c) \subseteq Completed(checks')

\* Intent i is new in the outbox.
Announces(i) ==
    \/ /\ i.type = "dispatch" /\ i.job > jobCounter
       /\ i.job \in DOMAIN jobs' /\ jobs'[i.job] = i.check
    \/ i.type = "terminate" /\ i.job \in DOMAIN jobs \ DOMAIN jobs'
    \/ i.type \in {"ack", "cancel"}

Progress(by) ==
    /\ UNCHANGED <<plan, deps, pendingIntents>> /\ jobCounter' >= jobCounter
    /\ \A c \in plan : Advances(c, by)
    /\ outbox \subseteq outbox'
    /\ \A i \in outbox' \ outbox : Announces(i)
    /\ \A j \in DOMAIN jobs \ DOMAIN jobs' :
            \E i \in outbox' : i.type = "terminate" /\ i.job = j
    /\ \A j \in DOMAIN jobs' : (j \in DOMAIN jobs /\ jobs'[j] = jobs[j]) \/ j > jobCounter

LEMMA SettleProgress ==
    ASSUME IInv, IInv', NEW ck, NEW reg, NEW cl, NEW gone, NEW armed, NEW by,
           SettlesWith(ck, reg, cl, gone, armed, by)
    PROVE  Progress(by) /\ DOMAIN jobs \ DOMAIN jobs' = gone
<1> DEFINE skipped == PropagateSkips(ck, deps)
           started == Startable(skipped, deps)
           ledger == Start(skipped, started, jobCounter)
           new == NewJobs(started)
<1>1. /\ plan \in SUBSET Checks /\ jobCounter \in Nat /\ ck \in [plan -> Records]
      /\ fileState = "running" /\ jobs \in [DOMAIN jobs -> plan]
      /\ checks \in [plan -> Records] /\ gone \subseteq DOMAIN jobs
      /\ checks' \in [plan -> Records]
      /\ \A j \in DOMAIN jobs : j \in 1..jobCounter
  <2>1. plan' = plan
      BY DEF SettlesWith, settleFrame
  <2> QED BY <2>1 DEF IInv, TypeOK, SettlesWith, Binding
<1>2. skipped \in [plan -> Records]
    BY <1>1, SkipsType
<1>3. /\ started \in SUBSET Queued(skipped) /\ started \subseteq Checks
      /\ Cardinality(started) \in Nat
  <2> HIDE DEF skipped
  <2>1. started \subseteq Queued(skipped) /\ started \subseteq DOMAIN skipped
      BY StartableQueued
  <2> HIDE DEF started
  <2> QED BY <1>1, <1>2, <2>1, FiniteChecks
<1>4. /\ checks' = ledger
      /\ jobs' = Bind(gone, started)
      /\ jobCounter' = jobCounter + Cardinality(started)
      /\ outbox' = outbox \cup TerminateIntents(gone) \cup DispatchIntents(started)
      /\ UNCHANGED <<plan, deps, pendingIntents>>
    BY <1>1 DEF SettlesWith, AfterTerminalSettled, settleFrame
<1>5. ASSUME NEW c \in started
      PROVE  /\ Needs(deps, c) \subseteq Completed(skipped)
             /\ ledger[c].phase = "running" /\ ledger[c].job = JobOf(c, started, jobCounter)
             /\ skipped[c].phase = "queued" /\ c \in plan
             /\ JobOf(c, started, jobCounter) > jobCounter
             /\ Intent("dispatch", JobOf(c, started, jobCounter), c, 0) \in outbox'
  <2>1. Needs(deps, c) \subseteq Completed(skipped)
      BY DEF Startable, Runnable
  <2> HIDE DEF skipped
  <2>2. skipped[c].phase = "queued" /\ c \in plan
      BY <1>2, <1>3 DEF Queued
  <2> HIDE DEF started, ledger
  <2>3. ledger[c].phase = "running" /\ ledger[c].job = JobOf(c, started, jobCounter)
      BY <1>1, <1>2, <1>3, StartType DEF ledger
  <2>4. JobOf(c, started, jobCounter) \in (jobCounter + 1)..(jobCounter + Cardinality(started))
      BY <1>1, <1>3, JobNumbers
  <2>5. JobOf(c, started, jobCounter) > jobCounter
      BY <2>4, <1>1, <1>3
  <2>6. Intent("dispatch", JobOf(c, started, jobCounter), c, 0) \in outbox'
      BY <1>4 DEF DispatchIntents
  <2> QED BY <2>1, <2>2, <2>3, <2>5, <2>6
<1>6. ASSUME NEW c \in plan
      PROVE  /\ EndsAs(checks[c], ck[c])
             /\ ck[c] # checks[c] /\ ck[c].status = "completed" => c \in by
             /\ \/ skipped[c] = ck[c]
                \/ /\ ck[c].phase = "queued" /\ skipped[c].phase = "terminal"
                   /\ skipped[c].status = "skipped" /\ EndsAs(ck[c], skipped[c])
             /\ c \notin started => ledger[c] = skipped[c]
  <2>1. EndsAs(checks[c], ck[c]) /\ (ck[c] # checks[c] /\ ck[c].status = "completed" => c \in by)
      BY DEF SettlesWith
  <2>2. \/ skipped[c] = ck[c]
        \/ /\ ck[c].phase = "queued" /\ skipped[c].phase = "terminal"
           /\ skipped[c].status = "skipped" /\ EndsAs(ck[c], skipped[c])
      BY <1>1, SkipsFollow
  <2> HIDE DEF skipped, started
  <2>3. c \notin started => ledger[c] = skipped[c]
      BY <1>2 DEF Start
  <2> QED BY <2>1, <2>2, <2>3
<1> HIDE DEF skipped, started, ledger
<1>7. DOMAIN checks = plan /\ DOMAIN checks' = plan /\ DOMAIN skipped = plan
    BY <1>1, <1>2
<1>8. Completed(skipped) \subseteq Completed(checks')
  <2> SUFFICES ASSUME NEW c \in Completed(skipped) PROVE c \in Completed(checks')
      OBVIOUS
  <2>1. c \in plan /\ skipped[c].phase = "terminal" /\ skipped[c].status = "completed"
      BY <1>7 DEF Completed, Terminal
  <2>2. c \notin started
      BY <2>1, <1>5
  <2> QED BY <2>1, <2>2, <1>4, <1>6, <1>7 DEF Completed, Terminal
<1>9. ASSUME NEW c \in plan PROVE Advances(c, by)
  <2>1. ASSUME checks[c].phase = "terminal" PROVE checks'[c] = checks[c]
    <3>1. skipped[c] = checks[c]
        BY <2>1, <1>6 DEF EndsAs
    <3>2. c \notin started
        BY <2>1, <3>1, <1>5
    <3> QED BY <3>1, <3>2, <1>4, <1>6
  <2>2. ASSUME c \in Completed(checks') PROVE c \in Completed(checks) \/ c \in by
    <3>1. ledger[c].phase = "terminal" /\ ledger[c].status = "completed"
        BY <2>2, <1>4 DEF Completed, Terminal
    <3>2. c \notin started
        BY <3>1, <1>5
    <3>3. skipped[c].phase = "terminal" /\ skipped[c].status = "completed"
        BY <3>1, <3>2, <1>6
    <3>4. ck[c].phase = "terminal" /\ ck[c].status = "completed"
        BY <3>3, <1>6
    <3> QED BY <3>4, <1>6, <1>7 DEF Completed, Terminal
  <2>3. ASSUME checks'[c].phase = "running", c \notin started
        PROVE  checks[c].phase = "running" /\ checks'[c].job = checks[c].job
    <3>1. skipped[c] = ck[c] /\ checks'[c] = ck[c]
        BY <2>3, <1>4, <1>6
    <3> QED BY <2>3, <3>1, <1>6 DEF EndsAs
  <2>4. ASSUME checks'[c].phase = "running", c \in started
        PROVE  /\ Intent("dispatch", checks'[c].job, c, 0) \in outbox'
               /\ Needs(deps, c) \subseteq Completed(checks')
      BY <2>4, <1>4, <1>5, <1>8
  <2> QED BY <2>1, <2>2, <2>3, <2>4 DEF Advances
<1>10. \A j \in new : j > jobCounter
    BY <1>5 DEF NewJobs
<1>11. DOMAIN jobs' = (DOMAIN jobs \ gone) \cup new
    BY <1>4 DEF Bind
<1>12. \A j \in gone : j \notin DOMAIN jobs'
  <2> SUFFICES ASSUME NEW j \in gone PROVE j \notin new
      BY <1>11
  <2>1. j \in 1..jobCounter
      BY <1>1
  <2>2. ~(j > jobCounter)
      BY <2>1, <1>1
  <2> QED BY <2>2, <1>10
<1>13. ASSUME NEW i \in outbox' \ outbox PROVE Announces(i)
  <2>1. CASE i \in TerminateIntents(gone)
      BY <2>1, <1>1, <1>12 DEF TerminateIntents, Intent, Announces
  <2>2. CASE i \in DispatchIntents(started)
    <3>1. PICK c \in started : i = Intent("dispatch", JobOf(c, started, jobCounter), c, 0)
        BY <2>2 DEF DispatchIntents
    <3>2. /\ i.type = "dispatch" /\ i.check = c /\ i.job = checks'[c].job /\ i.job > jobCounter
          /\ checks'[c].phase = "running" /\ c \in plan
        BY <3>1, <1>4, <1>5 DEF Intent
    <3>3. i.job \in DOMAIN jobs' /\ jobs'[i.job] = c
        BY <3>2, <1>7 DEF IInv, Binding
    <3> QED BY <3>2, <3>3 DEF Announces
  <2> QED BY <2>1, <2>2, <1>4
<1>14. ASSUME NEW j \in DOMAIN jobs \ DOMAIN jobs'
       PROVE  \E i \in outbox' : i.type = "terminate" /\ i.job = j
  <2>1. j \in gone
      BY <1>11
  <2>2. Intent("terminate", j, jobs[j], 0) \in outbox'
      BY <2>1, <1>4 DEF TerminateIntents
  <2>3. /\ Intent("terminate", j, jobs[j], 0).type = "terminate"
        /\ Intent("terminate", j, jobs[j], 0).job = j
      BY DEF Intent
  <2> QED BY <2>1, <2>2, <2>3
<1>15. \A j \in DOMAIN jobs' : (j \in DOMAIN jobs /\ jobs'[j] = jobs[j]) \/ j > jobCounter
    BY <1>4, <1>10, <1>11 DEF Bind
<1>16. DOMAIN jobs \ DOMAIN jobs' = gone
  <2> HIDE DEF new
  <2> QED BY <1>1, <1>11, <1>12
<1>17. jobCounter' >= jobCounter
    BY <1>1, <1>3, <1>4
<1>18. outbox \subseteq outbox'
    BY <1>4
<1> HIDE DEF new
<1> QED BY <1>4, <1>9, <1>13, <1>14, <1>15, <1>16, <1>17, <1>18 DEF Progress

\* A step of a run under way in which the jobs in `lost` end and only the checks
\* in `by`, which were running, may complete; the run goes on, settles, or is
\* cancelled.
Outcome ==
    \/ fileState' = "running" /\ generation' = generation
    \/ /\ fileState' \in RunStates /\ runStatus' = fileState' /\ generation' = generation
       /\ Terminal(checks') = DOMAIN checks'
    \/ fileState' = "cancelled" /\ generation' = generation + 1 /\ Running(checks') = {}

RunMoves(by, lost) ==
    /\ fileState \in {"preparing_assets", "running"} /\ Outcome
    /\ by \subseteq Running(checks) /\ Progress(by)
    /\ DOMAIN jobs \ DOMAIN jobs' = lost

LEMMA SettleMoves ==
    ASSUME IInv, IInv', NEW ck, NEW reg, NEW cl, NEW gone, NEW armed, NEW by,
           SettlesWith(ck, reg, cl, gone, armed, by), by \subseteq Running(checks)
    PROVE  RunMoves(by, gone)
<1> DEFINE skipped  == PropagateSkips(ck, deps)
           started  == IF fileState = "running" THEN Startable(skipped, deps) ELSE {}
           ledger   == Start(skipped, started, jobCounter)
           finished == Terminal(ledger) = DOMAIN ledger /\ fileState = "running"
           status   == ComputeRunStatus(ledger, cancelRequested)
<1>1. /\ IF finished THEN fileState' = status /\ runStatus' = status
                     ELSE UNCHANGED fileState
      /\ fileState = "running" /\ UNCHANGED generation
      /\ finished => Terminal(checks') = DOMAIN checks'
    BY DEF SettlesWith, AfterTerminalSettled, settleFrame
<1>2. status \in RunStates
    BY DEF ComputeRunStatus, RunStates
<1> HIDE DEF finished, status
<1>3. Outcome
    BY <1>1, <1>2 DEF Outcome
<1> QED BY <1>1, <1>3, SettleProgress DEF RunMoves

LEMMA WatchdogMoves ==
    ASSUME IInv, IInv', RunDeadline \/ \E c \in DOMAIN checks : CheckDeadline(c)
    PROVE  \E lost : RunMoves({}, lost)
<1>1. PICK ck, reg, cl, gone, armed : SettlesWith(ck, reg, cl, gone, armed, {})
    BY RunDeadlineSettles, CheckDeadlineSettles
<1> QED BY <1>1, SettleMoves

LEMMA CancelMoves ==
    ASSUME IInv, IInv', RequestCancel
    PROVE  RunMoves({}, LiveJobs)
<1>1. /\ fileState = "running" /\ fileState' = "cancelled" /\ generation' = generation + 1
      /\ checks' = EndLive("cancelled", "user_cancel")
      /\ outbox' = outbox \cup TerminateIntents(LiveJobs)
                       \cup {Intent("cancel", j, jobs[j], 0) : j \in LiveJobs}
      /\ jobs' = [j \in DOMAIN jobs \ LiveJobs |-> jobs[j]]
      /\ UNCHANGED <<plan, deps, jobCounter, pendingIntents>>
    BY DEF RequestCancel
<1>2. /\ checks \in [plan -> Records] /\ jobCounter \in Nat /\ checks' \in [plan -> Records]
      /\ "cancelled" \in TerminalStatuses /\ "user_cancel" \in RecordedReasons
    BY <1>1 DEF IInv, TypeOK, TerminalStatuses, RecordedReasons
<1>3. LiveJobs \subseteq DOMAIN jobs
    BY <1>2 DEF IInv, Binding, LiveJobs, Live, NoJob
<1>4. ASSUME NEW c \in plan
      PROVE  /\ checks'[c].phase = "terminal"
             /\ checks[c].phase = "terminal" => checks'[c] = checks[c]
             /\ checks[c].phase # "terminal" => checks'[c].status = "cancelled"
  <2>1. CASE c \in Live
    <3>1. checks'[c] = Terminalize(checks[c], "cancelled", "user_cancel")
        BY <1>1, <1>2, <2>1 DEF EndLive
    <3>2. checks[c] \in Records /\ checks[c].phase # "terminal"
        BY <1>2, <2>1 DEF Live, Terminal
    <3> QED BY <3>1, <3>2, <1>2, TerminalizeEnds, TerminalizeType
  <2>2. CASE c \notin Live
      BY <1>1, <1>2, <2>2 DEF EndLive, Live, Terminal
  <2> QED BY <2>1, <2>2
<1>5. \A c \in plan : Advances(c, {})
    BY <1>2, <1>4 DEF Advances, Completed, Terminal
<1>6. Running(checks') = {}
    BY <1>2, <1>4 DEF Running
<1>7. DOMAIN jobs \ DOMAIN jobs' = LiveJobs
    BY <1>1, <1>3
<1>8. \A i \in outbox' \ outbox : Announces(i)
    BY <1>1, <1>7 DEF TerminateIntents, Intent, Announces
<1>9. \A j \in LiveJobs : \E i \in outbox' : i.type = "terminate" /\ i.job = j
  <2> SUFFICES ASSUME NEW j \in LiveJobs
               PROVE  \E i \in outbox' : i.type = "terminate" /\ i.job = j
      OBVIOUS
  <2>1. Intent("terminate", j, jobs[j], 0) \in outbox'
      BY <1>1 DEF TerminateIntents
  <2> QED BY <2>1 DEF Intent
<1>10. \A j \in DOMAIN jobs' : j \in DOMAIN jobs /\ jobs'[j] = jobs[j]
    BY <1>1
<1>11. Progress({})
    BY <1>1, <1>2, <1>5, <1>7, <1>8, <1>9, <1>10 DEF Progress
<1> QED BY <1>1, <1>6, <1>7, <1>11 DEF RunMoves, Outcome

LEMMA MessageMoves ==
    ASSUME IInv, IInv', NEW m \in Traffic,
           \/ \E status \in ReportedStatuses : ReceiveTerminal(m, status)
           \/ \E reason \in Reasons : ReceiveFailure(m, reason)
           \/ \E occs \in Chunks : ReceiveOversized(m, occs)
    PROVE  RunMoves({jobs[m.job]}, {m.job})
<1>1. PICK ck, reg, cl, armed : SettlesWith(ck, reg, cl, {m.job}, armed, {jobs[m.job]})
    BY ReceiveSettles
<1>2. Admit(m) /\ m.job \in DOMAIN jobs
    BY DEF ReceiveTerminal, ReceiveFailure, ReceiveOversized, Delivered
<1>3. {jobs[m.job]} \subseteq Running(checks)
    BY <1>2, AdmittedRuns DEF IInv, TypeOK, Running
<1> QED BY <1>1, <1>3, SettleMoves

LEMMA CrashMoves ==
    ASSUME IInv, IInv', NEW m \in Traffic, NEW reason \in Reasons, ReceiveCrash(m, reason)
    PROVE  RunMoves({jobs[m.job]}, {m.job})
<1> DEFINE c == jobs[m.job]
           new == jobCounter + 1
           r == Retried(checks[c], new)
<1>1. /\ Admit(m) /\ m.job \in DOMAIN jobs
      /\ checks' = [checks EXCEPT ![c] = Retried(@, new)]
      /\ jobs' = [j \in (DOMAIN jobs \ {m.job}) \cup {new} |->
                        IF j = new THEN c ELSE jobs[j]]
      /\ jobCounter' = new
      /\ outbox' = outbox \cup {Intent("terminate", m.job, c, 0),
                                Intent("dispatch", new, c, 0)}
      /\ UNCHANGED <<fileState, generation, plan, deps, pendingIntents>>
    BY DEF ReceiveCrash, Delivered, lifeVars, hostVars
<1>2. /\ fileState = "running" /\ c \in plan /\ checks[c] \in Records
      /\ checks[c].phase = "running"
      /\ checks \in [plan -> Records] /\ jobCounter \in Nat /\ m.job \in 1..jobCounter
    BY <1>1, AdmittedRuns DEF IInv, TypeOK, Binding
<1>3. r.phase = "running" /\ r.job = new
    BY <1>2, Zenon DEF Retried, Records
<1>4. checks' = [checks EXCEPT ![c] = r]
    BY <1>1, <1>2
<1> HIDE DEF r
<1>5. /\ checks'[c] = r /\ \A d \in plan \ {c} : checks'[d] = checks[d]
      /\ DOMAIN checks' = plan /\ DOMAIN checks = plan
    BY <1>2, <1>4
<1>6. Intent("dispatch", new, c, 0) \in outbox' /\ Intent("terminate", m.job, c, 0) \in outbox'
    BY <1>1
<1>7. \A d \in plan : Advances(d, {c})
    BY <1>2, <1>3, <1>5, <1>6 DEF Advances, Completed, Terminal
<1>8. m.job # new /\ new > jobCounter /\ new \notin DOMAIN jobs
    BY <1>2 DEF IInv, Binding
<1>9. DOMAIN jobs \ DOMAIN jobs' = {m.job} /\ new \in DOMAIN jobs' /\ jobs'[new] = c
    BY <1>1, <1>8
<1>10. ASSUME NEW i \in outbox' \ outbox PROVE Announces(i)
  <2>1. CASE i = Intent("terminate", m.job, c, 0)
      BY <2>1, <1>9 DEF Intent, Announces
  <2>2. CASE i = Intent("dispatch", new, c, 0)
      BY <2>2, <1>8, <1>9 DEF Intent, Announces
  <2> QED BY <1>1, <2>1, <2>2
<1>11. \E i \in outbox' : i.type = "terminate" /\ i.job = m.job
    BY <1>6 DEF Intent
<1>12. \A j \in DOMAIN jobs' : (j \in DOMAIN jobs /\ jobs'[j] = jobs[j]) \/ j > jobCounter
    BY <1>1, <1>8
<1>13. {c} \subseteq Running(checks)
    BY <1>2, <1>5 DEF Running
<1>14. outbox \subseteq outbox' /\ jobCounter' >= jobCounter
    BY <1>1, <1>2
<1> HIDE DEF c, new
<1>15. Progress({c})
    BY <1>1, <1>7, <1>9, <1>10, <1>11, <1>12, <1>14 DEF Progress
<1> QED BY <1>1, <1>2, <1>9, <1>13, <1>15 DEF RunMoves, Outcome, c

LEMMA ChunkMoves ==
    ASSUME IInv, RunIsCurrent, NEW m \in Traffic, NEW occs \in Chunks, ReceiveChunk(m, occs)
    PROVE  RunMoves({}, {})
<1> DEFINE c == jobs[m.job]
<1>1. Accepts(m, occs, c, Evidence(m, occs)) /\ Admit(m)
    BY ChunkAccepts
<1> HIDE DEF c
<1>2. /\ c \in plan /\ m.job \in DOMAIN jobs
      /\ checks[c].phase = "running" /\ checks'[c].phase = "running"
      /\ \A d \in plan \ {c} : checks'[d] = checks[d]
      /\ outbox' = outbox \cup {Intent("ack", m.job, c, m.seq)}
      /\ UNCHANGED <<plan, deps, jobs, jobCounter, fileState>>
    BY <1>1 DEF Accepts
<1>3. /\ checks'[c].job = checks[c].job /\ DOMAIN checks' = DOMAIN checks
      /\ UNCHANGED <<generation, pendingIntents>>
  <2> DEFINE u == checks[c].unacked + 1
             t == checks[c].retained \o Evidence(m, occs)
             b == checks[c].bytes + ChunkBytes[occs]
             r == [checks[c] EXCEPT !.unacked = u, !.retained = t, !.bytes = b]
  <2>1. /\ checks' = [checks EXCEPT ![c].unacked = @ + 1,
                                    ![c].retained = @ \o Evidence(m, occs),
                                    ![c].bytes = @ + ChunkBytes[occs]]
        /\ UNCHANGED <<generation, pendingIntents>>
      BY DEF ReceiveChunk, lifeVars, hostVars, c
  <2>2. checks[c] \in Records /\ checks \in [plan -> Records]
      BY <1>2 DEF IInv, TypeOK
  <2>3. checks' = [checks EXCEPT ![c] = r]
      BY <2>1, <2>2, <1>2 DEF Records
  <2> HIDE DEF u, t, b
  <2>4. r.job = checks[c].job
      BY <2>2, Zenon DEF Records
  <2> HIDE DEF r
  <2> QED BY <2>1, <2>2, <2>3, <2>4, <1>2
<1>4. fileState = "running" /\ DOMAIN checks = plan /\ jobCounter \in Nat
    BY <1>1, <1>2, AdmittedRuns DEF IInv, TypeOK
<1>5. \A d \in plan : Advances(d, {})
    BY <1>2, <1>3, <1>4 DEF Advances, Completed, Terminal
<1>6. \A i \in outbox' \ outbox : Announces(i)
    BY <1>2 DEF Intent, Announces
<1>7. Progress({})
    BY <1>2, <1>3, <1>4, <1>5, <1>6 DEF Progress
<1> QED BY <1>2, <1>3, <1>4, <1>7 DEF RunMoves, Outcome

(***************************************************************************)
(* What entering the run dispatches.                                       *)
(***************************************************************************)
Enters(p, dep) ==
    /\ fileState' = "running" /\ DOMAIN checks' = p
    /\ \A c \in p :
        /\ checks'[c].phase # "terminal"
        /\ checks'[c].phase = "running" =>
            /\ Needs(dep, c) = {}
            /\ Intent("dispatch", checks'[c].job, c, 0) \in outbox'
    /\ \A i \in outbox' :
        /\ i.type = "dispatch" /\ i.job \in DOMAIN jobs' /\ jobs'[i.job] = i.check

LEMMA EntersRun ==
    ASSUME IInv', NEW p \in SUBSET Checks, NEW ck \in [p -> Records], NEW dep, NEW armed,
           \A c \in p : ck[c].phase = "queued",
           EnterRunning(ck, dep, armed)
    PROVE  Enters(p, dep)
<1> DEFINE started == Startable(ck, dep)
           ledger == Start(ck, started, 0)
<1>1. /\ fileState' = "running" /\ checks' = ledger
      /\ outbox' = {Intent("dispatch", JobOf(c, started, 0), c, 0) : c \in started}
    BY DEF EnterRunning
<1>2. started \in SUBSET Queued(ck) /\ started \subseteq p
  <2>1. started \subseteq Queued(ck) /\ started \subseteq DOMAIN ck
      BY StartableQueued
  <2> HIDE DEF started
  <2> QED BY <2>1
<1>3. \A c \in started : Needs(dep, c) = {}
  <2>1. \A c \in started : Needs(dep, c) \subseteq Completed(ck)
      BY DEF Startable, Runnable
  <2>2. Completed(ck) = {}
      BY DEF Completed, Terminal
  <2> HIDE DEF started
  <2> QED BY <2>1, <2>2
<1> HIDE DEF started
<1>4. /\ ledger \in [p -> Records]
      /\ \A c \in started : ledger[c].phase = "running" /\ ledger[c].job = JobOf(c, started, 0)
      /\ \A c \in p : c \notin started => ledger[c] = ck[c]
  <2> DEFINE begun == Start(ck, started, 0)
  <2> HIDE DEF ledger, begun
  <2>1. started \in SUBSET Queued(ck) /\ 0 \in Nat /\ p \in SUBSET Checks
      BY <1>2
  <2>2. /\ begun \in [p -> Records]
        /\ \A c \in started : begun[c].phase = "running" /\ begun[c].job = JobOf(c, started, 0)
        /\ \A c \in p : c \notin started => begun[c] = ck[c]
      BY ONLY ck \in [p -> Records], <2>1, StartType DEF begun
  <2> QED BY <2>2 DEF begun, ledger
<1> HIDE DEF ledger
<1>5. Binding(checks', jobs', jobCounter')
    BY DEF IInv
<1>6. ASSUME NEW i \in outbox'
      PROVE  i.type = "dispatch" /\ i.job \in DOMAIN jobs' /\ jobs'[i.job] = i.check
  <2>1. PICK c \in started : i = Intent("dispatch", JobOf(c, started, 0), c, 0)
      BY <1>1
  <2>2. i.type = "dispatch" /\ i.check = c /\ i.job = checks'[c].job
        /\ checks'[c].phase = "running" /\ c \in DOMAIN checks'
      BY <2>1, <1>1, <1>2, <1>4 DEF Intent
  <2> QED BY <2>2, <1>5 DEF Binding
<1>7. ASSUME NEW c \in p
      PROVE  /\ checks'[c].phase # "terminal"
             /\ checks'[c].phase = "running" =>
                /\ Needs(dep, c) = {}
                /\ Intent("dispatch", checks'[c].job, c, 0) \in outbox'
    BY <1>1, <1>3, <1>4
<1> QED BY <1>1, <1>4, <1>6, <1>7 DEF Enters

LEMMA ReleaseMoves ==
    ASSUME IInv, IInv', NothingDoneYet, outbox = {}, AssetsReady
    PROVE  RunMoves({}, {})
<1>1. /\ fileState = "preparing_assets" /\ EnterRunning(checks, deps, timers)
      /\ UNCHANGED <<generation, plan, deps, hostVars>>
    BY DEF AssetsReady
<1>2. /\ plan \in SUBSET Checks /\ checks \in [plan -> Records]
      /\ checks' \in [plan -> Records] /\ jobCounter' \in Nat
    BY <1>1 DEF IInv, TypeOK
<1>3. jobCounter = 0 /\ \A c \in plan : checks[c].phase = "queued"
    BY <1>1, <1>2 DEF NothingDoneYet
<1>4. Enters(plan, deps)
    BY <1>1, <1>2, <1>3, EntersRun
<1>5. DOMAIN jobs = {} /\ \A j \in DOMAIN jobs' : j \in 1..jobCounter'
  <2>1. \A j \in DOMAIN jobs : j \in 1..0
      BY <1>3 DEF IInv, Binding
  <2> QED BY <2>1 DEF IInv, Binding
<1>6. \A j \in DOMAIN jobs' : j > jobCounter
    BY <1>2, <1>3, <1>5
<1>7. \A c \in plan : Advances(c, {})
    BY <1>2, <1>3, <1>4 DEF Enters, Advances, Completed, Terminal
<1>8. \A i \in outbox' \ outbox : Announces(i)
    BY <1>4, <1>6 DEF Enters, Announces
<1>9. Progress({})
    BY <1>1, <1>2, <1>3, <1>5, <1>6, <1>7, <1>8 DEF Progress, hostVars
<1> QED BY <1>1, <1>4, <1>5, <1>9 DEF RunMoves, Outcome, Enters

(***************************************************************************)
(* The inductive invariant: first, what is shown.                          *)
(***************************************************************************)

\* The run is one the session started, and waits for assets only with OCR.
KnownPlan ==
    /\ plan # {} => plan \in {TextPlan, OcrPlan} /\ deps = DeriveDependencies(plan)
    /\ fileState = "preparing_assets" => plan = OcrPlan

\* What a check needs was completed before it ran.
InOrder ==
    \A c \in plan :
        checks[c].phase = "running" \/ c \in Completed(checks) =>
            Needs(deps, c) \subseteq Completed(checks)

\* A completed alignment compared the readings that are there now: they were
\* final when it ran.
AlignmentsMatch ==
    \A c \in Completed(checks) :
        Capability[c] = "alignment" => c \in DOMAIN alignments /\ alignments[c] = Readings(c)

Sealed ==
    /\ fileState \notin Settled => report = NoReport
    /\ fileState \in Settled =>
        /\ fileState = runStatus /\ report = Assembled(generation, runStatus, checks, alignments)
        /\ Terminal(checks) = DOMAIN checks

Shown == KnownPlan /\ InOrder /\ AlignmentsMatch /\ Sealed

\* A step that leaves the run as it is, but perhaps for its windows.
RunRests ==
    /\ UNCHANGED <<plan, deps, generation, runStatus, jobs, jobCounter>>
    /\ fileState' = fileState \/ (fileState \in Early /\ fileState' \in Early)
    /\ DOMAIN checks' = DOMAIN checks
    /\ \A c \in DOMAIN checks :
        /\ checks'[c].phase = checks[c].phase /\ checks'[c].status = checks[c].status
        /\ checks'[c].job = checks[c].job /\ checks'[c].retained = checks[c].retained

LEMMA ReadingsFrozen ==
    ASSUME IInv, KnownPlan, NEW c \in plan, Capability[c] = "alignment",
           Needs(deps, c) \subseteq Completed(checks),
           DOMAIN checks' = DOMAIN checks,
           \A d \in Completed(checks) : checks'[d].retained = checks[d].retained
    PROVE  Readings(c)' = Readings(c)
<1> DEFINE D == {d \in DOMAIN checks : PageOf[d] = PageOf[c]
                        /\ Capability[d] \in {"native_text", "ocr"}}
<1>1. deps = DeriveDependencies(plan) /\ DOMAIN checks = plan
    BY DEF KnownPlan, IInv, TypeOK
<1>2. D \subseteq Needs(deps, c)
    BY <1>1 DEF Needs, DeriveDependencies
<1>3. \A d \in D : checks'[d].retained = checks[d].retained
    BY <1>2
<1> QED BY <1>3 DEF Readings

LEMMA RestsShown ==
    ASSUME IInv, Shown, RunRests, UNCHANGED <<alignments, report>>
    PROVE  Shown'
<1>1. DOMAIN checks = plan /\ DOMAIN checks' = plan /\ plan' = plan /\ deps' = deps
    BY DEF IInv, TypeOK, RunRests
<1>2. Completed(checks') = Completed(checks)
    BY DEF RunRests, Completed, Terminal
<1>3. KnownPlan'
    BY DEF Shown, KnownPlan, RunRests, Early
<1>4. InOrder'
    BY <1>1, <1>2 DEF Shown, InOrder, RunRests
<1>5. AlignmentsMatch'
  <2> SUFFICES ASSUME NEW c \in Completed(checks), Capability[c] = "alignment"
               PROVE  c \in DOMAIN alignments' /\ alignments'[c] = Readings(c)'
      BY <1>2 DEF AlignmentsMatch
  <2>1. c \in plan /\ Needs(deps, c) \subseteq Completed(checks)
      BY <1>1 DEF Shown, InOrder, Completed, Terminal
  <2>2. \A d \in Completed(checks) : checks'[d].retained = checks[d].retained
      BY DEF RunRests, Completed, Terminal
  <2>3. Readings(c)' = Readings(c)
      BY <1>1, <2>1, <2>2, ReadingsFrozen DEF Shown
  <2> QED BY <2>3 DEF Shown, AlignmentsMatch
<1>6. Sealed'
  <2>1. Assembled(generation, runStatus, checks, alignments)' =
            Assembled(generation, runStatus, checks, alignments)
    <3>1. Uncropped(checks') = Uncropped(checks)
        BY DEF Uncropped, RunRests
    <3>2. /\ [c \in DOMAIN checks' |-> checks'[c].status] =
                [c \in DOMAIN checks |-> checks[c].status]
          /\ [c \in DOMAIN checks' |-> checks'[c].retained] =
                [c \in DOMAIN checks |-> checks[c].retained]
        BY DEF RunRests
    <3>3. UNCHANGED <<generation, runStatus, alignments>>
        BY DEF RunRests
    <3> QED BY <3>1, <3>2, <3>3 DEF Assembled, Refusal
  <2>2. fileState' \in Settled <=> fileState \in Settled
      BY DEF RunRests, Early, Settled
  <2>3. fileState' \in Settled => fileState' = fileState
      BY DEF RunRests, Early, Settled
  <2>4. Terminal(checks') = Terminal(checks) /\ DOMAIN checks' = DOMAIN checks
      BY DEF RunRests, Terminal
  <2> QED BY <2>1, <2>2, <2>3, <2>4 DEF Shown, Sealed, RunRests
<1> QED BY <1>3, <1>4, <1>5, <1>6 DEF Shown

\* The alignments of the checks in `by` are computed, the others stay.
Aligned(by) ==
    /\ \A c \in by : Capability[c] = "alignment" =>
            c \in DOMAIN alignments' /\ alignments'[c] = Readings(c)
    /\ \A c \in DOMAIN alignments \ by :
            c \in DOMAIN alignments' /\ alignments'[c] = alignments[c]

\* The report of the run is sealed when it settles.
SealsReport ==
    report' = IF fileState' \in Settled
              THEN Assembled(generation, fileState, checks, alignments)' ELSE report

LEMMA MovesShown ==
    ASSUME IInv, IInv', Shown, NEW by, NEW lost, RunMoves(by, lost), Aligned(by), SealsReport
    PROVE  Shown'
<1>1. /\ DOMAIN checks = plan /\ DOMAIN checks' = plan /\ plan' = plan /\ deps' = deps
      /\ fileState \in {"preparing_assets", "running"}
    BY DEF IInv, TypeOK, RunMoves, Progress
<1>2. \A c \in plan : Advances(c, by)
    BY DEF RunMoves, Progress
<1>3. \A c \in Completed(checks) : c \in plan /\ checks'[c] = checks[c]
    BY <1>1, <1>2 DEF Advances, Completed, Terminal
<1>4. Completed(checks) \subseteq Completed(checks')
    BY <1>1, <1>3 DEF Completed, Terminal
<1>5. KnownPlan'
    BY <1>1 DEF Shown, KnownPlan, RunMoves, Outcome, RunStates
<1>6. by \subseteq plan /\ \A c \in by : Needs(deps, c) \subseteq Completed(checks)
    BY <1>1 DEF RunMoves, Running, Shown, InOrder
<1>7. ASSUME NEW c \in Completed(checks')
      PROVE  c \in plan /\ Needs(deps, c) \subseteq Completed(checks)
             /\ (c \in by \/ c \in Completed(checks))
  <2>1. c \in plan /\ (c \in Completed(checks) \/ c \in by)
      BY <1>1, <1>2 DEF Advances, Completed, Terminal
  <2> QED BY <2>1, <1>6 DEF Shown, InOrder
<1>8. InOrder'
  <2> SUFFICES ASSUME NEW c \in plan, checks'[c].phase = "running"
               PROVE  Needs(deps, c) \subseteq Completed(checks')
      BY <1>1, <1>4, <1>7 DEF InOrder
  <2>1. CASE checks[c].phase = "running"
      BY <2>1, <1>4 DEF Shown, InOrder
  <2>2. CASE checks[c].phase # "running"
      BY <2>2, <1>2 DEF Advances
  <2> QED BY <2>1, <2>2
<1>9. AlignmentsMatch'
  <2> SUFFICES ASSUME NEW c \in Completed(checks'), Capability[c] = "alignment"
               PROVE  c \in DOMAIN alignments' /\ alignments'[c] = Readings(c)'
      BY DEF AlignmentsMatch
  <2>1. Readings(c)' = Readings(c)
      BY <1>1, <1>3, <1>7, ReadingsFrozen DEF Shown
  <2>2. CASE c \in by
      BY <2>1, <2>2 DEF Aligned
  <2>3. CASE c \notin by
    <3>1. c \in Completed(checks)
        BY <2>3, <1>7
    <3>2. c \in DOMAIN alignments /\ alignments[c] = Readings(c)
        BY <3>1 DEF Shown, AlignmentsMatch
    <3> QED BY <2>1, <2>3, <3>2 DEF Aligned
  <2> QED BY <2>2, <2>3
<1>10. Sealed'
  <2>1. report = NoReport
      BY <1>1 DEF Shown, Sealed, Settled
  <2>2. fileState' \in Settled => fileState' = runStatus' /\ Terminal(checks') = DOMAIN checks'
      BY DEF RunMoves, Outcome, Settled
  <2> QED BY <2>1, <2>2 DEF Sealed, SealsReport
<1> QED BY <1>5, <1>8, <1>9, <1>10 DEF Shown

LEMMA DropShown ==
    ASSUME DropRun, fileState' \in Early, report' = NoReport
    PROVE  Shown'
<1>1. plan' = {} /\ DOMAIN checks' = {}
    BY DEF DropRun, Empty
<1> QED BY <1>1 DEF Early, Shown, KnownPlan, InOrder, AlignmentsMatch, Sealed, Completed,
           Terminal, Settled

LEMMA PlansDiffer == TextPlan # OcrPlan /\ OcrPlan # {}
BY SessionAssumption

\* What BeginRun leaves of the run.
LEMMA Begun ==
    ASSUME IInv', NEW p \in {TextPlan, OcrPlan}, NEW ocr \in BOOLEAN,
           ocr => p = OcrPlan, BeginRun(p, ocr)
    PROVE  /\ plan' = p /\ deps' = DeriveDependencies(p) /\ generation' = generation + 1
           /\ UNCHANGED <<document, pendingIntents>>
           /\ ocr => /\ fileState' = "preparing_assets" /\ outbox' = {} /\ jobCounter' = 0
                     /\ DOMAIN checks' = p /\ \A c \in p : checks'[c].phase = "queued"
           /\ ~ocr => Enters(p, DeriveDependencies(p))
<1>1. StartRun(p, DeriveDependencies(p), TRUE, ocr)
    BY DEF BeginRun
<1>2. p \in SUBSET Checks
    BY SessionAssumption, PlanAssumption
<1>3. /\ BuildRecords(p) \in [p -> Records]
      /\ \A c \in p : BuildRecords(p)[c].phase = "queued"
    BY FreshLedger
<1>4. /\ plan' = p /\ deps' = DeriveDependencies(p) /\ generation' = generation + 1
      /\ UNCHANGED <<document, pendingIntents>>
      /\ ocr => /\ fileState' = "preparing_assets" /\ outbox' = {} /\ jobCounter' = 0
                /\ checks' = BuildRecords(p)
      /\ ~ocr => EnterRunning(BuildRecords(p), DeriveDependencies(p),
                              timers \cup (IF TRUE THEN {RunTimer} ELSE {}))
    BY <1>1 DEF StartRun, hostVars
<1>5. CASE ocr
    BY <1>3, <1>4, <1>5
<1>6. CASE ~ocr
    BY <1>2, <1>3, <1>4, <1>6, EntersRun
<1> QED BY <1>4, <1>5, <1>6

LEMMA BegunShown ==
    ASSUME IInv', Shown, NEW p \in {TextPlan, OcrPlan}, NEW ocr \in BOOLEAN,
           ocr => p = OcrPlan, BeginRun(p, ocr)
    PROVE  Shown'
<1>1. /\ plan' = p /\ deps' = DeriveDependencies(p)
      /\ fileState' = (IF ocr THEN "preparing_assets" ELSE "running")
      /\ DOMAIN checks' = p /\ \A c \in p : checks'[c].phase # "terminal"
      /\ \A c \in p : checks'[c].phase = "running" => Needs(deps', c) = {}
    BY Begun DEF Enters
<1>2. report' = NoReport
    BY DEF BeginRun, StartRun, Shown, Sealed, Settled
<1>3. Completed(checks') = {}
    BY <1>1 DEF Completed, Terminal
<1>4. KnownPlan'
    BY <1>1 DEF KnownPlan
<1>5. InOrder'
    BY <1>1, <1>3 DEF InOrder
<1>6. AlignmentsMatch'
    BY <1>3 DEF AlignmentsMatch
<1>7. Sealed'
    BY <1>1, <1>2 DEF Sealed, Settled
<1> QED BY <1>4, <1>5, <1>6, <1>7 DEF Shown

(***************************************************************************)
(* The inductive invariant: second, who serves the run.                    *)
(***************************************************************************)

\* An executor, a reader and the terminations left over by a clear are of the
\* generation they were made under; a run with OCR is the one being served.
Generations ==
    /\ runGeneration <= generation
    /\ runGeneration = generation => ocrReader \in {0, generation}
    /\ call = "start" => ocrReader = 0
    /\ plan = OcrPlan /\ fileState \in {"preparing_assets", "running"} =>
            runGeneration = generation
    /\ \A e \in executors :
        /\ e.gen <= generation
        /\ e.gen = generation => e.reader \in {0, generation}
        /\ Capability[e.check] # "alignment"
        /\ pendingIntents # {} => Stale(e.gen)

\* A call that pumps returns with everything drained.
Returned ==
    /\ call \in {"none", "release"} => outbox = {} /\ aligning = {}
    /\ AtRest /\ fileState \notin Early => pendingIntents = {}

\* What an intent says of its job is true until it is drained.
IntentsName ==
    /\ \A j \in aligning : j <= jobCounter
    /\ \A i \in outbox :
        /\ i.type = "dispatch" =>
            i.job \in DOMAIN jobs /\ jobs[i.job] = i.check /\ i.job \notin aligning
        /\ i.type = "terminate" => i.job \notin DOMAIN jobs /\ i.job <= jobCounter

\* A running check of a run with OCR is executed, or its execution is at hand.
Serving ==
    plan = OcrPlan =>
        \A c \in Running(checks) :
            \/ Served(c)
            \/ checks[c].job \in aligning
            \/ Intent("dispatch", checks[c].job, c, 0) \in outbox

\* An execution not told to stop can still be told: its job is bound, or is
\* about to be terminated, and the session finds it under its job.
InReach(e) ==
    /\ plan # {} => e.job <= jobCounter
    /\ \A i \in outbox : i.type = "dispatch" => i.job # e.job
    /\ ~e.aborted =>
        /\ e.job \in DOMAIN jobSignals /\ jobSignals[e.job] = e.gen
        /\ \/ e.job \in DOMAIN jobs
           \/ \E i \in outbox \cup pendingIntents : i.type = "terminate" /\ i.job = e.job

Reachable ==
    ~overlapped =>
        /\ \A e \in executors : InReach(e)
        /\ \A e, f \in executors : e.job = f.job => e = f

Service == Generations /\ Returned /\ IntentsName /\ Serving /\ Reachable

(***************************************************************************)
(* Steps of a run under way, and steps that leave it alone.                *)
(***************************************************************************)

Alike(e, f) ==
    /\ f.job = e.job /\ f.check = e.check /\ f.gen = e.gen
    /\ f.reader = e.reader /\ f.aborted = e.aborted

\* The executors in `left` end; the others and their controllers stay.
Carries(left) ==
    /\ overlapped' = overlapped
    /\ \A e \in executors : e \in left \/ \E f \in executors' : Alike(e, f)
    /\ \A f \in executors' : \E e \in executors : Alike(e, f)
    /\ ~overlapped => \A e, f \in executors' : e.job = f.job => e = f
    /\ ~overlapped => \A e \in executors' : e.job \in DOMAIN jobSignals =>
            e.job \in DOMAIN jobSignals' /\ jobSignals'[e.job] = jobSignals[e.job]

LEMMA AllCarried ==
    ASSUME Reachable, UNCHANGED <<executors, jobSignals, overlapped>>
    PROVE  Carries({})
<1>1. \A e \in executors : Alike(e, e)
    BY DEF Alike
<1> QED BY <1>1 DEF Reachable, Carries

LEMMA LeaverCarried ==
    ASSUME SessionTypeOK, Reachable, NEW e \in executors, Leaves(e), overlapped' = overlapped
    PROVE  Carries({e})
<1>1. /\ executors' = executors \ {e}
      /\ jobSignals' = [j \in DOMAIN jobSignals \ {e.job} |-> jobSignals[j]]
    BY DEF Leaves
<1>2. \A f \in executors : Alike(f, f)
    BY DEF Alike
<1>3. ~overlapped => \A f \in executors' : f.job # e.job
    BY <1>1 DEF Reachable
<1> QED BY <1>1, <1>2, <1>3 DEF Reachable, Carries

LEMMA StreamerCarried ==
    ASSUME SessionTypeOK, Reachable, NEW e \in executors,
           executors' = (executors \ {e}) \cup {[e EXCEPT !.streamed = TRUE]},
           UNCHANGED <<jobSignals, overlapped>>
    PROVE  Carries({})
<1> DEFINE s == [e EXCEPT !.streamed = TRUE]
<1>1. e \in ExecutorRecords
    BY DEF SessionTypeOK, ExecutorRecords
<1>2. Alike(e, s)
    BY <1>1 DEF ExecutorRecords, Alike
<1>3. \A f \in executors : Alike(f, f)
    BY DEF Alike
<1> HIDE DEF s
<1>4. executors' = (executors \ {e}) \cup {s}
    BY DEF s
<1>5. ASSUME ~overlapped, NEW f \in executors', NEW g \in executors', f.job = g.job
      PROVE  f = g
  <2>1. \A x \in executors \ {e} : x.job # e.job
      BY <1>5 DEF Reachable
  <2>2. s.job = e.job
      BY <1>2 DEF Alike
  <2> QED BY <1>4, <1>5, <2>1, <2>2 DEF Reachable
<1> QED BY <1>2, <1>3, <1>4, <1>5 DEF Carries

\* The generation moves on only if nothing runs any more.
Continuous ==
    \/ generation' = generation
    \/ generation' = generation + 1 /\ Running(checks') = {}

LEMMA GenerationsKept ==
    ASSUME IInv, SessionTypeOK, Generations, NEW left, Carries(left),
           generation' \in {generation, generation + 1},
           pendingIntents' = pendingIntents \/ generation' = generation + 1,
           UNCHANGED <<runGeneration, ocrReader>>,
           call' = "start" => call = "start",
           plan' = OcrPlan /\ fileState' \in {"preparing_assets", "running"} =>
                /\ plan = OcrPlan /\ fileState \in {"preparing_assets", "running"}
                /\ generation' = generation
    PROVE  Generations'
<1>1. generation \in Nat /\ runGeneration \in Nat /\ \A e \in executors : e.gen \in Nat
    BY DEF IInv, TypeOK, SessionTypeOK
<1>2. /\ runGeneration' <= generation'
      /\ runGeneration' = generation' => ocrReader' \in {0, generation'}
      /\ call' = "start" => ocrReader' = 0
      /\ plan' = OcrPlan /\ fileState' \in {"preparing_assets", "running"} =>
            runGeneration' = generation'
    BY <1>1 DEF Generations
<1>3. ASSUME NEW f \in executors'
      PROVE  /\ f.gen <= generation'
             /\ f.gen = generation' => f.reader \in {0, generation'}
             /\ Capability[f.check] # "alignment"
             /\ pendingIntents' # {} => generation' # f.gen
  <2>1. PICK e \in executors : Alike(e, f)
      BY DEF Carries
  <2>2. /\ e.gen \in Nat /\ e.gen <= generation
        /\ e.gen = generation => e.reader \in {0, generation}
        /\ Capability[e.check] # "alignment"
        /\ pendingIntents # {} => generation # e.gen
      BY <1>1 DEF Generations, Stale
  <2>3. f.gen = e.gen /\ f.reader = e.reader /\ f.check = e.check
      BY <2>1 DEF Alike
  <2> QED BY <1>1, <2>2, <2>3
<1> QED BY <1>2, <1>3 DEF Generations, Stale

LEMMA IntentsKept ==
    ASSUME IInv, IInv', SessionTypeOK, IntentsName, NEW by, Progress(by),
           aligning' \subseteq aligning,
           \A i \in outbox : i.type = "dispatch" => i.job \in DOMAIN jobs'
    PROVE  IntentsName'
<1>1. /\ jobCounter \in Nat /\ jobCounter' \in Nat /\ jobCounter' >= jobCounter
      /\ outbox \subseteq outbox' /\ \A i \in outbox' \ outbox : Announces(i)
      /\ \A j \in DOMAIN jobs' : (j \in DOMAIN jobs /\ jobs'[j] = jobs[j]) \/ j > jobCounter
      /\ \A j \in DOMAIN jobs : j \in 1..jobCounter
      /\ \A i \in outbox' : i.job \in Nat
      /\ \A j \in aligning : j \in Nat
    BY DEF IInv, TypeOK, Progress, Binding, Intents, SessionTypeOK, Jobs
<1>2. ASSUME NEW j \in aligning' PROVE j <= jobCounter'
    BY <1>1 DEF IntentsName
<1>3. ASSUME NEW i \in outbox', i.type = "dispatch"
      PROVE  i.job \in DOMAIN jobs' /\ jobs'[i.job] = i.check /\ i.job \notin aligning'
  <2>1. CASE i \in outbox
    <3>1. i.job \in DOMAIN jobs /\ jobs[i.job] = i.check /\ i.job \notin aligning
        BY <2>1, <1>3 DEF IntentsName
    <3>2. ~(i.job > jobCounter)
        BY <3>1, <1>1
    <3> QED BY <3>1, <3>2, <2>1, <1>1, <1>3
  <2>2. CASE i \notin outbox
    <3>1. i.job > jobCounter /\ i.job \in DOMAIN jobs' /\ jobs'[i.job] = i.check
        BY <2>2, <1>1, <1>3 DEF Announces
    <3>2. i.job \notin aligning
        BY <3>1, <1>1 DEF IntentsName
    <3> QED BY <3>1, <3>2
  <2> QED BY <2>1, <2>2
<1>4. ASSUME NEW i \in outbox', i.type = "terminate"
      PROVE  i.job \notin DOMAIN jobs' /\ i.job <= jobCounter'
  <2>1. CASE i \in outbox
    <3>1. i.job \notin DOMAIN jobs /\ i.job <= jobCounter
        BY <2>1, <1>4 DEF IntentsName
    <3>2. ~(i.job > jobCounter)
        BY <3>1, <1>1
    <3> QED BY <3>1, <3>2, <1>1
  <2>2. CASE i \notin outbox
    <3>1. i.job \in DOMAIN jobs \ DOMAIN jobs'
        BY <2>2, <1>1, <1>4 DEF Announces
    <3> QED BY <3>1, <1>1
  <2> QED BY <2>1, <2>2
<1> QED BY <1>2, <1>3, <1>4 DEF IntentsName

LEMMA ServingKept ==
    ASSUME IInv, IInv', Serving, NEW by, Progress(by), Continuous, NEW left, Carries(left),
           \A e \in left : Stale(e.gen) \/ e.job \notin DOMAIN jobs',
           \A j \in aligning : j \in aligning' \/ j \notin DOMAIN jobs'
    PROVE  Serving'
<1> SUFFICES ASSUME plan' = OcrPlan, NEW c \in Running(checks')
             PROVE  \/ Served(c)'
                    \/ checks'[c].job \in aligning'
                    \/ Intent("dispatch", checks'[c].job, c, 0) \in outbox'
    BY DEF Serving
<1>1. /\ DOMAIN checks' = plan /\ DOMAIN checks = plan /\ plan = OcrPlan
      /\ outbox \subseteq outbox' /\ Advances(c, by) /\ c \in plan
      /\ checks'[c].phase = "running" /\ checks'[c].job \in DOMAIN jobs'
      /\ generation' = generation
    BY DEF IInv, TypeOK, Progress, Running, Binding, Continuous
<1>2. CASE Intent("dispatch", checks'[c].job, c, 0) \in outbox'
    BY <1>2
<1>3. CASE checks[c].phase = "running" /\ checks'[c].job = checks[c].job
  <2>1. c \in Running(checks)
      BY <1>1, <1>3 DEF Running
  <2>2. CASE Served(c)
    <3>1. PICK e \in executors :
            e.job = checks[c].job /\ e.check = c /\ ~Stale(e.gen) /\ ~e.aborted
        BY <2>2 DEF Served
    <3>2. e \notin left
        BY <1>1, <1>3, <3>1
    <3>3. PICK f \in executors' : Alike(e, f)
        BY <3>2 DEF Carries
    <3> QED BY <1>1, <1>3, <3>1, <3>3 DEF Served, Stale, Alike
  <2>3. CASE checks[c].job \in aligning
      BY <2>3, <1>1, <1>3
  <2>4. CASE Intent("dispatch", checks[c].job, c, 0) \in outbox
      BY <2>4, <1>1, <1>3
  <2> QED BY <1>1, <2>1, <2>2, <2>3, <2>4 DEF Serving
<1> QED BY <1>1, <1>2, <1>3 DEF Advances

LEMMA ReachableKept ==
    ASSUME IInv, IInv', SessionTypeOK, Reachable, NEW by, Progress(by),
           NEW left, Carries(left)
    PROVE  Reachable'
<1> SUFFICES ASSUME ~overlapped
             PROVE  \A f \in executors' : InReach(f)'
    BY DEF Reachable, Carries
<1> SUFFICES ASSUME NEW f \in executors' PROVE InReach(f)'
    OBVIOUS
<1>1. PICK e \in executors : Alike(e, f)
    BY DEF Carries
<1>2. InReach(e) /\ f.job = e.job /\ f.gen = e.gen /\ f.aborted = e.aborted /\ e.job \in Nat
    BY <1>1 DEF Reachable, Alike, SessionTypeOK, Jobs
<1>3. /\ plan' = plan /\ jobCounter \in Nat /\ jobCounter' \in Nat /\ jobCounter' >= jobCounter
      /\ outbox \subseteq outbox' /\ pendingIntents' = pendingIntents
      /\ \A i \in outbox' \ outbox : Announces(i)
      /\ \A j \in DOMAIN jobs \ DOMAIN jobs' :
            \E i \in outbox' : i.type = "terminate" /\ i.job = j
      /\ jobs' \in [DOMAIN jobs' -> plan'] /\ DOMAIN jobs' \subseteq Nat
    BY DEF Progress, IInv, TypeOK
<1>4. plan' # {} => f.job <= jobCounter'
    BY <1>2, <1>3 DEF InReach
<1>5. ASSUME NEW i \in outbox', i.type = "dispatch"
      PROVE  i.job # f.job
  <2>1. CASE i \in outbox
      BY <2>1, <1>2, <1>5 DEF InReach
  <2>2. CASE i \notin outbox
    <3>1. i.job > jobCounter /\ i.job \in DOMAIN jobs'
        BY <2>2, <1>3, <1>5 DEF Announces
    <3>2. plan # {}
        BY <3>1, <1>3
    <3>3. e.job <= jobCounter
        BY <3>2, <1>2 DEF InReach
    <3> QED BY <3>1, <3>3, <1>2, <1>3
  <2> QED BY <2>1, <2>2
<1>6. ASSUME ~f.aborted
      PROVE  /\ f.job \in DOMAIN jobSignals' /\ jobSignals'[f.job] = f.gen
             /\ \/ f.job \in DOMAIN jobs'
                \/ \E i \in outbox' \cup pendingIntents' : i.type = "terminate" /\ i.job = f.job
  <2>1. /\ e.job \in DOMAIN jobSignals /\ jobSignals[e.job] = e.gen
        /\ \/ e.job \in DOMAIN jobs
           \/ \E i \in outbox \cup pendingIntents : i.type = "terminate" /\ i.job = e.job
      BY <1>2, <1>6 DEF InReach
  <2>2. f.job \in DOMAIN jobSignals' /\ jobSignals'[f.job] = f.gen
      BY <1>2, <2>1 DEF Carries
  <2> QED BY <1>2, <1>3, <2>1, <2>2
<1> QED BY <1>4, <1>5, <1>6 DEF InReach

\* A run that goes on went on before, under the same generation.
Steady ==
    fileState' \in {"preparing_assets", "running"} =>
        fileState \in {"preparing_assets", "running"} /\ generation' = generation

Goes(by) ==
    /\ Progress(by) /\ Continuous /\ Steady
    /\ generation' \in {generation, generation + 1}

\* The coordinator's run is not touched at all.
Untouched ==
    /\ UNCHANGED <<plan, deps, checks, jobs, jobCounter, outbox, pendingIntents,
                   generation, runStatus>>
    /\ fileState' = fileState \/ (fileState \in Early /\ fileState' \in Early)

LEMMA UntouchedGoes ==
    ASSUME IInv, Untouched
    PROVE  RunRests /\ Goes({})
<1>1. \A c \in plan : Advances(c, {})
    BY DEF Untouched, Advances
<1>2. jobCounter' >= jobCounter
    BY DEF Untouched, IInv, TypeOK
<1> QED BY <1>1, <1>2 DEF Untouched, RunRests, Goes, Progress, Continuous, Steady, Early

LEMMA MovesGo ==
    ASSUME NEW by, NEW lost, RunMoves(by, lost)
    PROVE  Goes(by)
BY DEF RunMoves, Outcome, Goes, Continuous, Steady, RunStates

\* What a step that goes on keeps, whoever ends in it.
LEMMA ServiceGoes ==
    ASSUME IInv, IInv', SessionTypeOK, Service, NEW by, Goes(by), NEW left, Carries(left),
           \A e \in left : Stale(e.gen) \/ e.job \notin DOMAIN jobs',
           aligning' \subseteq aligning,
           \A j \in aligning \ aligning' : j \notin DOMAIN jobs',
           \A i \in outbox : i.type = "dispatch" => i.job \in DOMAIN jobs'
    PROVE  /\ IntentsName' /\ Serving' /\ Reachable'
           /\ UNCHANGED <<runGeneration, ocrReader>> /\ (call' = "start" => call = "start") =>
                Generations'
<1>1. Progress(by) /\ Continuous
    BY DEF Goes
<1>2. IntentsName'
    BY <1>1, IntentsKept DEF Service
<1>3. Serving'
    BY <1>1, ServingKept DEF Service
<1>4. Reachable'
    BY <1>1, ReachableKept DEF Service
<1>5. ASSUME UNCHANGED <<runGeneration, ocrReader>>, call' = "start" => call = "start"
      PROVE  Generations'
    BY <1>5, GenerationsKept DEF Service, Goes, Progress, Steady
<1> QED BY <1>2, <1>3, <1>4, <1>5

(***************************************************************************)
(* The pump.                                                               *)
(***************************************************************************)
LEMMA DrainRests ==
    ASSUME IInv, DrainOutbox
    PROVE  /\ RunRests /\ outbox' = {} /\ pendingIntents' = {}
           /\ UNCHANGED <<fileState, registry>>
<1>1. /\ checks' = [c \in DOMAIN checks |->
                        [checks[c] EXCEPT !.unacked = @ - Cardinality(AcksFor(c))]]
      /\ outbox' = {} /\ pendingIntents' = {}
      /\ UNCHANGED <<fileState, generation, plan, deps, jobs, jobCounter, runStatus, registry>>
    BY DEF DrainOutbox, lifeVars, authorityVars
<1>2. checks \in [plan -> Records]
    BY DEF IInv, TypeOK
<1>3. ASSUME NEW c \in plan
      PROVE  /\ checks'[c].phase = checks[c].phase /\ checks'[c].status = checks[c].status
             /\ checks'[c].job = checks[c].job /\ checks'[c].retained = checks[c].retained
  <2> DEFINE u == checks[c].unacked - Cardinality(AcksFor(c))
  <2>1. checks[c] \in Records /\ checks'[c] = [checks[c] EXCEPT !.unacked = u]
      BY <1>1, <1>2 DEF Records
  <2> HIDE DEF u
  <2> QED BY <2>1 DEF Records
<1>4. DOMAIN checks' = plan /\ DOMAIN checks = plan
    BY <1>1, <1>2
<1> QED BY <1>1, <1>3, <1>4 DEF RunRests

\* An executor once the pump has told it to stop, if it has to.
Told(e) == IF e \in Aborted THEN [e EXCEPT !.aborted = TRUE] ELSE e

\* What the pump does to the executors.
LEMMA PumpExecutes ==
    ASSUME IInv, SessionTypeOK, Generations, IntentsName, Pump
    PROVE  /\ executors' = {Told(e) : e \in executors} \cup Executors
           /\ \A e \in executors :
                /\ Told(e).job = e.job /\ Told(e).gen = e.gen /\ Told(e).check = e.check
                /\ Told(e).reader = e.reader
                /\ ~Told(e).aborted => e \notin Aborted /\ ~e.aborted
                /\ e \notin Aborted => Told(e) = e
           /\ \A x \in Executors :
                /\ runGeneration = generation /\ x.gen = generation /\ ~x.aborted
                /\ x.reader \in {0, generation} /\ Capability[x.check] # "alignment"
                /\ \E i \in outbox : /\ i.type = "dispatch" /\ x.job = i.job /\ x.check = i.check
           /\ \A x, y \in Executors : x.job = y.job => x = y
           /\ runGeneration = generation =>
                \A i \in outbox : i.type = "dispatch" /\ Capability[i.check] # "alignment" =>
                    \E x \in Executors : x.job = i.job /\ x.check = i.check
<1>1. executors' = {Told(e) : e \in executors} \cup Executors
    BY DEF Pump, Told
<1>2. executors \subseteq ExecutorRecords
    BY DEF SessionTypeOK, ExecutorRecords
<1>4. ASSUME NEW e \in executors
      PROVE  /\ Told(e).job = e.job /\ Told(e).gen = e.gen /\ Told(e).check = e.check
             /\ Told(e).reader = e.reader
             /\ ~Told(e).aborted => e \notin Aborted /\ ~e.aborted
             /\ e \notin Aborted => Told(e) = e
    BY <1>2 DEF ExecutorRecords, Told
<1>5. ASSUME NEW x \in Executors
      PROVE  /\ runGeneration = generation
             /\ \E i \in outbox :
                    /\ i.type = "dispatch" /\ Capability[i.check] \in {"native_text", "render", "ocr"}
                    /\ x = [job |-> i.job, check |-> i.check, gen |-> runGeneration,
                            reader |-> IF Capability[i.check] = "ocr" THEN ocrReader ELSE 0,
                            aborted |-> FALSE, streamed |-> FALSE]
    BY DEF Executors, Dispatched, Stale
<1>6. ASSUME NEW x \in Executors
      PROVE  /\ runGeneration = generation /\ x.gen = generation /\ ~x.aborted
             /\ x.reader \in {0, generation} /\ Capability[x.check] # "alignment"
             /\ \E i \in outbox : /\ i.type = "dispatch" /\ x.job = i.job /\ x.check = i.check
    BY <1>5 DEF Generations
<1>7. ASSUME NEW x \in Executors, NEW y \in Executors, x.job = y.job
      PROVE  x = y
  <2>1. x.check = y.check
      BY <1>6, <1>7 DEF IntentsName
  <2> DEFINE Made(j, c) ==
                [job |-> j, check |-> c, gen |-> runGeneration,
                 reader |-> IF Capability[c] = "ocr" THEN ocrReader ELSE 0,
                 aborted |-> FALSE, streamed |-> FALSE]
  <2>2. \A z \in Executors : z = Made(z.job, z.check)
    <3> SUFFICES ASSUME NEW z \in Executors PROVE z = Made(z.job, z.check)
        OBVIOUS
    <3>1. PICK i \in outbox : z = Made(i.job, i.check)
        BY <1>5
    <3> QED BY <3>1
  <2> HIDE DEF Made
  <2> QED BY <2>1, <2>2, <1>7
<1>8. ASSUME runGeneration = generation, NEW i \in outbox, i.type = "dispatch",
             Capability[i.check] # "alignment"
      PROVE  \E x \in Executors : x.job = i.job /\ x.check = i.check
  <2>1. Capability[i.check] \in {"native_text", "render", "ocr"}
      BY <1>8, CheckAssumption DEF IInv, TypeOK, Intents, Capabilities
  <2> DEFINE x == [job |-> i.job, check |-> i.check, gen |-> runGeneration,
                   reader |-> IF Capability[i.check] = "ocr" THEN ocrReader ELSE 0,
                   aborted |-> FALSE, streamed |-> FALSE]
  <2>2. x \in Executors
      BY <1>8, <2>1 DEF Executors, Dispatched, Stale
  <2>3. x.job = i.job /\ x.check = i.check
      OBVIOUS
  <2> QED BY <2>2, <2>3
<1> QED BY <1>1, <1>4, <1>6, <1>7, <1>8

LEMMA PumpServes ==
    ASSUME IInv, IInv', SessionTypeOK, Service, Pump
    PROVE  Service'
<1>1. /\ RunRests /\ outbox' = {} /\ pendingIntents' = {}
      /\ UNCHANGED <<fileState, plan, jobs, jobCounter, generation, runGeneration, ocrReader,
                     overlapped>>
      /\ DOMAIN checks = plan /\ jobCounter \in Nat
      /\ \A j \in DOMAIN jobs : j \in 1..jobCounter
    BY DrainRests DEF Pump, RunRests, ocrVars, IInv, TypeOK, Binding
<1>2. /\ ~AtRest /\ call # "release" /\ aligning = {}
      /\ aligning' = JobsOf(Dispatched({"alignment"}))
      /\ call' = IF call = "pump" /\ aligning' = {} THEN "none" ELSE call
    BY DEF Pump
<1>3. Generations /\ IntentsName /\ Serving /\ Reachable
    BY DEF Service
<1>4. \A i \in outbox : i.type = "dispatch" =>
            i.job \in DOMAIN jobs /\ jobs[i.job] = i.check /\ i.job <= jobCounter
    BY <1>1, <1>3 DEF IntentsName
<1>5. executors' = {Told(e) : e \in executors} \cup Executors
    BY <1>3, PumpExecutes
<1>6. ASSUME NEW e \in executors
      PROVE  /\ Told(e).job = e.job /\ Told(e).gen = e.gen /\ Told(e).check = e.check
             /\ Told(e).reader = e.reader
             /\ ~Told(e).aborted => e \notin Aborted /\ ~e.aborted
             /\ e \notin Aborted => Told(e) = e
    BY <1>3, PumpExecutes
<1>7. ASSUME NEW x \in Executors
      PROVE  /\ x \in executors' /\ x.gen = generation /\ x.gen = runGeneration /\ ~x.aborted
             /\ x.reader \in {0, generation} /\ Capability[x.check] # "alignment"
             /\ \E i \in outbox : /\ i.type = "dispatch" /\ x.job = i.job /\ x.check = i.check
    BY <1>3, <1>5, PumpExecutes
<1>8. \A x, y \in Executors : x.job = y.job => x = y
    BY <1>3, PumpExecutes
<1>9. runGeneration = generation =>
        \A i \in outbox : i.type = "dispatch" /\ Capability[i.check] # "alignment" =>
            \E x \in Executors : x.job = i.job /\ x.check = i.check
    BY <1>3, PumpExecutes
<1>10. Generations'
  <2>1. /\ runGeneration' <= generation'
        /\ runGeneration' = generation' => ocrReader' \in {0, generation'}
        /\ call' = "start" => ocrReader' = 0
        /\ plan' = OcrPlan /\ fileState' \in {"preparing_assets", "running"} =>
                runGeneration' = generation'
      BY <1>1, <1>2, <1>3 DEF Generations
  <2>2. ASSUME NEW x \in executors'
        PROVE  /\ x.gen <= generation'
               /\ x.gen = generation' => x.reader \in {0, generation'}
               /\ Capability[x.check] # "alignment"
    <3>1. CASE x \in Executors
        BY <3>1, <1>1, <1>7 DEF IInv, TypeOK
    <3>2. CASE x \notin Executors
      <4>1. PICK e \in executors : x = Told(e)
          BY <1>5, <3>2
      <4> QED BY <4>1, <1>1, <1>3, <1>6 DEF Generations
    <3> QED BY <3>1, <3>2
  <2> QED BY <2>1, <2>2, <1>1 DEF Generations
<1>11. Returned'
    BY <1>1, <1>2 DEF Returned, AtRest
<1>12. IntentsName'
  <2>1. \A j \in aligning' : j <= jobCounter
      BY <1>2, <1>4 DEF JobsOf, Dispatched
  <2> QED BY <2>1, <1>1 DEF IntentsName
<1>13. Serving'
  <2> SUFFICES ASSUME plan = OcrPlan, NEW c \in Running(checks')
               PROVE  Served(c)' \/ checks'[c].job \in aligning'
      BY <1>1 DEF Serving
  <2>1. /\ c \in plan /\ c \in Running(checks) /\ checks'[c].job = checks[c].job
        /\ checks[c].job \in DOMAIN jobs /\ jobs[checks[c].job] = c
      BY <1>1 DEF RunRests, Running, IInv, Binding
  <2>2. CASE Served(c)
    <3>1. PICK e \in executors :
            e.job = checks[c].job /\ e.check = c /\ ~Stale(e.gen) /\ ~e.aborted
        BY <2>2 DEF Served
    <3>2. pendingIntents = {}
        BY <3>1, <1>3 DEF Generations
    <3>3. e \notin Aborted
        BY <2>1, <3>1, <3>2, <1>3 DEF Aborted, IntentsName
    <3>4. e \in executors'
        BY <3>3, <1>5, <1>6
    <3> QED BY <2>1, <3>1, <3>4, <1>1 DEF Served, Stale
  <2>3. CASE Intent("dispatch", checks[c].job, c, 0) \in outbox
    <3> DEFINE i == Intent("dispatch", checks[c].job, c, 0)
    <3>1. i \in outbox /\ i.type = "dispatch" /\ i.job = checks[c].job /\ i.check = c
        BY <2>3 DEF Intent
    <3> HIDE DEF i
    <3>2. CASE Capability[c] = "alignment"
        BY <3>1, <3>2, <2>1, <1>2 DEF JobsOf, Dispatched
    <3>3. CASE Capability[c] # "alignment"
      <4>1. fileState = "running"
        <5>1. DOMAIN jobs # {} /\ Running(checks) # {}
            BY <2>1
        <5> QED BY <5>1 DEF IInv, SettledIsQuiet, NothingRunsYet
      <4>2. runGeneration = generation
          BY <4>1, <1>3 DEF Generations
      <4>3. PICK x \in Executors : x.job = i.job /\ x.check = i.check
          BY <3>1, <3>3, <4>2, <1>9
      <4>4. x \in executors' /\ x.gen = generation /\ ~x.aborted
          BY <1>7
      <4> QED BY <2>1, <3>1, <4>3, <4>4, <1>1 DEF Served, Stale
    <3> QED BY <3>2, <3>3
  <2> QED BY <2>1, <2>2, <2>3, <1>2, <1>3 DEF Serving
<1>14. Reachable'
  <2> SUFFICES ASSUME ~overlapped
               PROVE  /\ \A x \in executors' : InReach(x)'
                      /\ \A x, y \in executors' : x.job = y.job => x = y
      BY <1>1 DEF Reachable
  <2>1. /\ \A e \in executors : InReach(e)
        /\ \A e, f \in executors : e.job = f.job => e = f
      BY <1>3 DEF Reachable
  <2>2. \A e \in executors, x \in Executors : e.job # x.job
    <3> SUFFICES ASSUME NEW e \in executors, NEW x \in Executors PROVE e.job # x.job
        OBVIOUS
    <3>1. PICK i \in outbox : i.type = "dispatch" /\ x.job = i.job
        BY <1>7
    <3> QED BY <2>1, <3>1 DEF InReach
  <2>3. ASSUME NEW x \in executors', NEW y \in executors', x.job = y.job
        PROVE  x = y
    <3>1. CASE x \in Executors /\ y \in Executors
        BY <3>1, <2>3, <1>8
    <3>2. CASE x \notin Executors /\ y \notin Executors
      <4>1. PICK e \in executors, f \in executors : x = Told(e) /\ y = Told(f)
          BY <3>2, <1>5
      <4>2. e = f
          BY <2>1, <2>3, <4>1, <1>6
      <4> QED BY <4>1, <4>2
    <3>3. CASE x \in Executors /\ y \notin Executors
        BY <3>3, <2>2, <2>3, <1>5, <1>6
    <3>4. CASE x \notin Executors /\ y \in Executors
        BY <3>4, <2>2, <2>3, <1>5, <1>6
    <3> QED BY <3>1, <3>2, <3>3, <3>4
  <2> DEFINE new == {x.job : x \in Executors}
             gone == JobsOf(Dispatched(Capabilities)) \ new
  <2>4. jobSignals' = [j \in (DOMAIN jobSignals \cup new) \ gone |->
                            IF j \in new THEN runGeneration ELSE jobSignals[j]]
      BY DEF Pump
  <2>5. ASSUME NEW x \in Executors PROVE InReach(x)'
    <3>1. x.job \in new /\ x.gen = runGeneration
        BY <1>7
    <3>2. x.job \in DOMAIN jobSignals' /\ jobSignals'[x.job] = x.gen
        BY <2>4, <3>1
    <3>3. x.job \in DOMAIN jobs /\ x.job <= jobCounter
        BY <1>4, <1>7
    <3> HIDE DEF new, gone
    <3> QED BY <3>2, <3>3, <1>1 DEF InReach
  <2>6. ASSUME NEW x \in executors', x \notin Executors PROVE InReach(x)'
    <3>1. PICK e \in executors : x = Told(e)
        BY <1>5, <2>6
    <3>2. InReach(e) /\ x.job = e.job /\ x.gen = e.gen
        BY <2>1, <3>1, <1>6
    <3>3. ASSUME ~x.aborted
          PROVE  /\ x.job \in DOMAIN jobSignals' /\ jobSignals'[x.job] = x.gen
                 /\ x.job \in DOMAIN jobs
      <4>1. ~e.aborted /\ e \notin Aborted
          BY <3>1, <3>3, <1>6
      <4>2. e.job \in DOMAIN jobSignals /\ jobSignals[e.job] = e.gen
          BY <3>2, <4>1 DEF InReach
      <4>3. e.job \in DOMAIN jobs
          BY <3>2, <4>1, <4>2 DEF InReach, Aborted
      <4>4. e.job \notin new
          BY <2>2
      <4>5. e.job \notin JobsOf(Dispatched(Capabilities))
          BY <3>2 DEF InReach, JobsOf, Dispatched
      <4> QED BY <2>4, <3>2, <4>2, <4>3, <4>4, <4>5
    <3> HIDE DEF new, gone
    <3> QED BY <3>2, <3>3, <1>1 DEF InReach
  <2> QED BY <2>3, <2>5, <2>6
<1> QED BY <1>10, <1>11, <1>12, <1>13, <1>14 DEF Service

(***************************************************************************)
(* Each action of the session keeps both.                                  *)
(***************************************************************************)
SInv == Composed /\ Shown /\ Service

\* What the lemmas below start from.
Here == IInv /\ SessionTypeOK /\ Shown /\ Service

\* Between two callbacks nothing is queued for execution.
LEMMA NothingQueued ==
    ASSUME Here, call \in {"none", "release"} \/ Drained
    PROVE  /\ outbox = {} /\ aligning = {}
           /\ \A i \in outbox : i.type = "dispatch" => i.job \in DOMAIN jobs'
           /\ \A j \in aligning \ aligning' : j \notin DOMAIN jobs'
BY DEF Here, Service, Returned, Drained

\* A step that leaves the run alone; executors in `left` have nobody to serve.
LEMMA IdleServes ==
    ASSUME Here, IInv', Untouched, NEW left, Carries(left),
           \A e \in left : Stale(e.gen) \/ e.job \notin DOMAIN jobs,
           UNCHANGED <<aligning, alignments, report>>
    PROVE  /\ Shown' /\ IntentsName' /\ Serving' /\ Reachable'
           /\ UNCHANGED <<runGeneration, ocrReader, call>> => Generations' /\ Returned'
<1>1. RunRests /\ Goes({})
    BY UntouchedGoes DEF Here
<1>2. UNCHANGED <<jobs, outbox, pendingIntents>>
      /\ (fileState' = fileState \/ (fileState \in Early /\ fileState' \in Early))
    BY DEF Untouched
<1>3. \A i \in outbox : i.type = "dispatch" => i.job \in DOMAIN jobs'
    BY <1>2 DEF Here, Service, IntentsName
<1>4. /\ IntentsName' /\ Serving' /\ Reachable'
      /\ UNCHANGED <<runGeneration, ocrReader>> /\ (call' = "start" => call = "start") =>
                Generations'
    BY <1>1, <1>2, <1>3, ServiceGoes DEF Here
<1>5. UNCHANGED call => Returned'
    BY <1>2 DEF Here, Service, Returned, AtRest
<1>6. Shown'
    BY <1>1, RestsShown DEF Here
<1> QED BY <1>4, <1>5, <1>6

LEMMA IdleKeeps ==
    ASSUME Here, IInv', Untouched,
           UNCHANGED <<call, aligning, runGeneration, executors, jobSignals, ocrReader,
                       alignments, report, overlapped>>
    PROVE  Shown' /\ Service'
<1>1. Carries({})
    BY AllCarried DEF Here, Service
<1> QED BY <1>1, IdleServes DEF Service

\* The run is under way, and nothing is queued: what the session owes it is
\* kept whichever way it moves.
LEMMA MovesKeep ==
    ASSUME Here, IInv', outbox = {}, aligning = {}, NEW by, NEW lost, RunMoves(by, lost),
           NEW left, Carries(left), \A e \in left : Stale(e.gen) \/ e.job \notin DOMAIN jobs',
           \A c \in by : Capability[c] # "alignment",
           SealsReport, call' \in {"pump", "released"},
           UNCHANGED <<aligning, runGeneration, ocrReader, alignments>>
    PROVE  Shown' /\ Service'
<1>1. Aligned(by)
    BY DEF Aligned
<1>2. Shown'
    BY <1>1, MovesShown DEF Here
<1>3. IntentsName' /\ Serving' /\ Reachable' /\ Generations'
    BY MovesGo, ServiceGoes DEF Here
<1>4. Returned'
    BY DEF Returned, AtRest
<1> QED BY <1>2, <1>3, <1>4 DEF Service

\* A step after which the run has not settled seals nothing.
LEMMA NothingToSeal ==
    ASSUME fileState' \notin Settled, UNCHANGED report
    PROVE  SealsReport
BY DEF SealsReport

LEMMA NotifiedSeals ==
    ASSUME fileState \in {"preparing_assets", "running"}, Notified, UNCHANGED alignments
    PROVE  SealsReport
BY DEF SealsReport, Notified, Settled

LEMMA AnswersKeep ==
    ASSUME Here, IInv', Answers
    PROVE  Shown' /\ Service'
<1>1. PICK g \in preparing : Prepared(g) \/ NotPrepared(g) \/ PreparedTooLate(g)
    BY DEF Answers
<1>2. /\ Untouched /\ AtRest
      /\ UNCHANGED <<aligning, runGeneration, executors, jobSignals, alignments, report,
                     overlapped>>
    BY <1>1 DEF Prepared, NotPrepared, PreparedTooLate, OwnRunResource, Untouched, lifeVars,
           coordinatorVars, vars, authorityVars, runVars, hostVars, stackVars, workVars,
           resultVars
<1>3. CASE PreparedTooLate(g)
    BY <1>2, <1>3, IdleKeeps DEF PreparedTooLate, stackVars
<1>4. CASE Prepared(g) \/ NotPrepared(g)
  <2>1. call' = "release" /\ ocrReader' \in {0, generation}
      BY <1>4 DEF Prepared, NotPrepared, StillCurrent, Stale
  <2>2. Carries({})
      BY <1>2, AllCarried DEF Here, Service
  <2>3. Shown' /\ IntentsName' /\ Serving' /\ Reachable'
      BY <1>2, <2>2, IdleServes
  <2>4. Generations'
      BY <1>2, <2>1 DEF Here, Service, Generations, Untouched, Stale, Early
  <2>5. Returned'
      BY <1>2, <2>1 DEF Here, Service, Returned, AtRest, Untouched
  <2> QED BY <2>3, <2>4, <2>5 DEF Service
<1> QED BY <1>1, <1>3, <1>4

LEMMA ReleaseKeeps ==
    ASSUME Here, IInv', NothingDoneYet, Release
    PROVE  Shown' /\ Service'
<1>1. /\ AssetsReady /\ call = "release" /\ call' = "released"
      /\ UNCHANGED <<aligning, runGeneration, executors, jobSignals, ocrReader, alignments,
                     report, overlapped>>
    BY DEF Release, workVars, ocrVars, resultVars
<1>2. outbox = {} /\ aligning = {}
    BY <1>1, NothingQueued
<1>3. RunMoves({}, {})
    BY <1>1, <1>2, ReleaseMoves DEF Here
<1>4. SealsReport
    BY <1>1, NothingToSeal DEF AssetsReady, EnterRunning, Settled
<1>5. Carries({})
    BY <1>1, AllCarried DEF Here, Service
<1> QED BY <1>1, <1>2, <1>3, <1>4, <1>5, MovesKeep

LEMMA PumpKeeps ==
    ASSUME Here, IInv', Pump
    PROVE  Shown' /\ Service'
<1>1. RunRests /\ UNCHANGED <<alignments, report>>
    BY DrainRests DEF Here, Pump, resultVars
<1> QED BY <1>1, RestsShown, PumpServes DEF Here

LEMMA AlignKeeps ==
    ASSUME Here, IInv', NEW j, Align(j)
    PROVE  Shown' /\ Service'
<1> DEFINE c == jobs[j]
           m == MessageOf(j, c, runGeneration)
<1>1. /\ j \in aligning /\ aligning' = aligning \ {j}
      /\ ReceiveTerminal(m, "completed")
      /\ alignments' = [d \in DOMAIN alignments \cup {c} |->
                            IF d = c THEN Readings(c) ELSE alignments[d]]
      /\ UNCHANGED <<call, runGeneration, executors, jobSignals, ocrReader, overlapped>>
    BY DEF Align, workVars, ocrVars
<1>2. /\ Admit(m) /\ m.job \in DOMAIN jobs /\ m.job = j
      /\ jobs \in [DOMAIN jobs -> plan] /\ plan \in SUBSET Checks /\ runGeneration \in Nat
    BY <1>1 DEF ReceiveTerminal, Delivered, MessageOf, Here, IInv, TypeOK, SessionTypeOK
<1>3. m \in Traffic
    BY <1>2, AdmittedTraffic DEF Here
<1> HIDE DEF m
<1>4. RunMoves({c}, {j})
  <2>1. \E status \in ReportedStatuses : ReceiveTerminal(m, status)
      BY <1>1, SessionAssumption
  <2>2. RunMoves({jobs[m.job]}, {m.job})
      BY <1>3, <2>1, MessageMoves DEF Here
  <2> QED BY <1>2, <2>2
<1>5. Aligned({c})
    BY <1>1 DEF Aligned
<1>6. SealsReport
    BY DEF Align, SealsReport
<1> HIDE DEF c
<1>7. Shown'
    BY <1>4, <1>5, <1>6, MovesShown DEF Here
<1>8. \A i \in outbox : i.type = "dispatch" => i.job \in DOMAIN jobs'
    BY <1>1, <1>4 DEF RunMoves, Here, Service, IntentsName
<1>9. \A k \in aligning \ aligning' : k \notin DOMAIN jobs'
    BY <1>1, <1>4 DEF RunMoves
<1>10. Carries({}) /\ Goes({c})
    BY <1>1, <1>4, AllCarried, MovesGo DEF Here, Service
<1>11. IntentsName' /\ Serving' /\ Reachable' /\ Generations'
    BY <1>1, <1>8, <1>9, <1>10, ServiceGoes DEF Here
<1>12. Returned'
    BY <1>1 DEF Here, Service, Returned, AtRest
<1> QED BY <1>7, <1>11, <1>12 DEF Service

LEMMA ReturnsKeep ==
    ASSUME Here, IInv', Returns
    PROVE  Shown' /\ Service'
<1>1. /\ Untouched /\ Drained /\ call # "release" /\ ~AtRest /\ call' = "none"
      /\ runGeneration' = (IF call = "start" THEN generation ELSE runGeneration)
      /\ UNCHANGED <<aligning, executors, jobSignals, ocrReader, alignments, report, overlapped>>
    BY DEF Returns, Untouched, coordinatorVars, vars, lifeVars, runVars, hostVars, workVars,
           ocrVars, resultVars
<1>2. Carries({})
    BY <1>1, AllCarried DEF Here, Service
<1>3. Shown' /\ IntentsName' /\ Serving' /\ Reachable'
    BY <1>1, <1>2, IdleServes
<1>4. Generations'
  <2>1. generation \in Nat /\ UNCHANGED <<generation, plan, pendingIntents>>
        /\ (fileState' = fileState \/ fileState' \in Early)
      BY <1>1 DEF Here, IInv, TypeOK, Untouched
  <2> QED BY <1>1, <2>1 DEF Here, Service, Generations, Stale, Early
<1>5. Returned'
    BY <1>1 DEF Returned, Drained, Untouched
<1> QED BY <1>3, <1>4, <1>5 DEF Service

\* The user cancels a run under way, or the cancel asked for is carried out.
LEMMA CancelKeeps ==
    ASSUME Here, IInv', RequestCancel, call = "none" \/ Drained, call' = "pump",
           UNCHANGED <<aligning, runGeneration, executors, jobSignals, ocrReader, alignments,
                       report, overlapped>>
    PROVE  Shown' /\ Service'
<1>1. outbox = {} /\ aligning = {}
    BY NothingQueued
<1>2. RunMoves({}, LiveJobs)
    BY CancelMoves DEF Here
<1>3. SealsReport
    BY NothingToSeal DEF RequestCancel, Settled
<1>4. Carries({})
    BY AllCarried DEF Here, Service
<1> QED BY <1>1, <1>2, <1>3, <1>4, MovesKeep

LEMMA StreamsKeep ==
    ASSUME Here, IInv', RunIsCurrent, NEW e \in executors, NEW occs \in Chunks,
           Streams(e, occs)
    PROVE  Shown' /\ Service'
<1> DEFINE m == MessageOf(e.job, e.check, e.gen)
<1>1. /\ AtRest /\ Notified /\ call' = "pump"
      /\ ReceiveChunk(m, occs) \/ ReceiveOversized(m, occs)
      /\ executors' = (executors \ {e}) \cup {[e EXCEPT !.streamed = TRUE]}
      /\ UNCHANGED <<aligning, runGeneration, jobSignals, ocrReader, alignments, overlapped>>
    BY DEF Streams, ocrVars
<1>2. Admit(m) /\ m.job \in DOMAIN jobs /\ ~Foreign(m)
    BY <1>1 DEF ReceiveChunk, ReceiveOversized, Delivered
<1>3. m.job = e.job /\ m.check = e.check /\ e.check \in Checks /\ e.gen \in Nat
    BY DEF MessageOf, Here, SessionTypeOK
<1>4. m \in Traffic
    BY <1>2, <1>3, AdmittedTraffic DEF Here
<1> HIDE DEF m
<1>5. jobs[m.job] = e.check
    BY <1>2, <1>3, IdentityAssumption DEF Foreign
<1>6. PICK by, lost : by \subseteq {e.check} /\ RunMoves(by, lost)
  <2>1. CASE ReceiveChunk(m, occs)
      BY <2>1, <1>4, ChunkMoves DEF Here
  <2>2. CASE ReceiveOversized(m, occs)
    <3>1. RunMoves({jobs[m.job]}, {m.job})
        BY <2>2, <1>4, MessageMoves DEF Here
    <3> QED BY <3>1, <1>5
  <2> QED BY <1>1, <2>1, <2>2
<1>7. \A c \in by : Capability[c] # "alignment"
    BY <1>6 DEF Here, Service, Generations
<1>8. outbox = {} /\ aligning = {}
    BY <1>1, NothingQueued DEF AtRest
<1>9. SealsReport
    BY <1>1, <1>6, NotifiedSeals DEF RunMoves
<1>10. Carries({})
    BY <1>1, StreamerCarried DEF Here, Service
<1> QED BY <1>1, <1>6, <1>7, <1>8, <1>9, <1>10, MovesKeep

LEMMA EndsKeep ==
    ASSUME Here, IInv', NEW e \in executors, Ends(e)
    PROVE  Shown' /\ Service'
<1> DEFINE m == MessageOf(e.job, e.check, e.gen)
<1>1. /\ AtRest /\ Notified /\ Leaves(e) /\ call' = "pump"
      /\ \/ \E status \in ReportedStatuses : ReceiveTerminal(m, status)
         \/ \E reason \in Reasons : ReceiveFailure(m, reason) \/ ReceiveCrash(m, reason)
      /\ UNCHANGED <<aligning, runGeneration, ocrReader, alignments, overlapped>>
    BY SessionAssumption DEF Ends, ocrVars
<1>2. Admit(m) /\ m.job \in DOMAIN jobs /\ ~Foreign(m)
    BY <1>1 DEF ReceiveTerminal, ReceiveFailure, ReceiveCrash, Delivered
<1>3. m.job = e.job /\ m.check = e.check /\ e.check \in Checks /\ e.gen \in Nat
    BY DEF MessageOf, Here, SessionTypeOK
<1>4. m \in Traffic
    BY <1>2, <1>3, AdmittedTraffic DEF Here
<1> HIDE DEF m
<1>5. RunMoves({jobs[m.job]}, {m.job})
    BY <1>1, <1>4, MessageMoves, CrashMoves DEF Here
<1>6. jobs[m.job] = e.check
    BY <1>2, <1>3, IdentityAssumption DEF Foreign
<1>7. RunMoves({e.check}, {e.job})
    BY <1>3, <1>5, <1>6
<1>8. Capability[e.check] # "alignment"
    BY DEF Here, Service, Generations
<1>9. outbox = {} /\ aligning = {}
    BY <1>1, NothingQueued DEF AtRest
<1>10. Carries({e}) /\ e.job \notin DOMAIN jobs'
    BY <1>1, <1>7, LeaverCarried DEF Here, Service, RunMoves
<1>11. SealsReport
    BY <1>1, <1>7, NotifiedSeals DEF RunMoves
<1> QED BY <1>1, <1>7, <1>8, <1>9, <1>10, <1>11, MovesKeep

\* Nobody hears the answer because nothing is bound to its job any more.
LEMMA EndsUnheardKeeps ==
    ASSUME Here, IInv', NEW e \in executors, EndsUnheard(e)
    PROVE  Shown' /\ Service'
<1>1. /\ Untouched /\ ~Heard(e) /\ Leaves(e)
      /\ UNCHANGED <<call, aligning, runGeneration, ocrReader, alignments, report, overlapped>>
    BY DEF EndsUnheard, Untouched, coordinatorVars, vars, lifeVars, runVars, hostVars,
           stackVars, ocrVars, resultVars
<1>2. Stale(e.gen) \/ e.job \notin DOMAIN jobs
  <2> SUFFICES ASSUME e.job \in DOMAIN jobs, ~Stale(e.gen) PROVE FALSE
      OBVIOUS
  <2>1. jobs[e.job] \in Running(checks) /\ checks[jobs[e.job]].job = e.job
      BY DEF Here, IInv, Binding, Running
  <2>2. e.job \in DOMAIN registry /\ ~registry[e.job].terminal
      BY <2>1 DEF Here, IInv, Watched
  <2> QED BY <2>2, <1>1 DEF Heard
<1>3. Carries({e})
    BY <1>1, LeaverCarried DEF Here, Service
<1> QED BY <1>1, <1>2, <1>3, IdleServes DEF Service

LEMMA WatchdogKeeps ==
    ASSUME Here, IInv', WatchdogFires
    PROVE  Shown' /\ Service'
<1>1. /\ AtRest /\ Notified /\ call' = "pump"
      /\ RunDeadline \/ \E c \in DOMAIN checks : CheckDeadline(c)
      /\ UNCHANGED <<aligning, runGeneration, executors, jobSignals, ocrReader, alignments,
                     overlapped>>
    BY DEF WatchdogFires, Turn, workVars, ocrVars
<1>2. PICK lost : RunMoves({}, lost)
    BY <1>1, WatchdogMoves DEF Here
<1>3. outbox = {} /\ aligning = {}
    BY <1>1, NothingQueued DEF AtRest
<1>4. SealsReport
    BY <1>1, <1>2, NotifiedSeals DEF RunMoves
<1>5. Carries({})
    BY <1>1, AllCarried DEF Here, Service
<1> QED BY <1>1, <1>2, <1>3, <1>4, <1>5, MovesKeep

\* The run is dropped: whoever still executes it is stale, or it was over.
LEMMA DropServes ==
    ASSUME Here, DropRun, fileState' \in Early, report' = NoReport, AtRest,
           \/ UNCHANGED <<generation, pendingIntents>> /\ DOMAIN jobs = {}
           \/ /\ generation' = generation + 1
              /\ pendingIntents' = pendingIntents \cup TerminateIntents(DOMAIN jobs),
           UNCHANGED <<call, aligning, runGeneration, executors, jobSignals, ocrReader,
                       overlapped>>
    PROVE  Shown' /\ Service'
<1>1. plan' = {} /\ outbox' = {} /\ plan' # OcrPlan /\ outbox = {} /\ aligning = {}
    BY PlansDiffer, NothingQueued DEF DropRun, AtRest
<1>2. Shown'
    BY DropShown
<1>3. Generations'
  <2>1. generation \in Nat /\ runGeneration \in Nat /\ \A e \in executors : e.gen \in Nat
      BY DEF Here, IInv, TypeOK, SessionTypeOK
  <2> QED BY <2>1, <1>1 DEF Here, Service, Generations, Stale
<1>4. Returned' /\ IntentsName' /\ Serving'
    BY <1>1 DEF Returned, IntentsName, Serving, AtRest
<1>5. Reachable'
  <2> SUFFICES ASSUME ~overlapped, NEW e \in executors PROVE InReach(e)'
      BY DEF Here, Service, Reachable
  <2>1. InReach(e)
      BY DEF Here, Service, Reachable
  <2>2. ASSUME ~e.aborted
        PROVE  \E i \in pendingIntents' : i.type = "terminate" /\ i.job = e.job
    <3>1. CASE e.job \in DOMAIN jobs
      <4>1. Intent("terminate", e.job, jobs[e.job], 0) \in pendingIntents'
          BY <3>1 DEF TerminateIntents
      <4> QED BY <4>1 DEF Intent
    <3>2. CASE e.job \notin DOMAIN jobs
        BY <2>1, <2>2, <3>2, <1>1 DEF InReach
    <3> QED BY <3>1, <3>2
  <2> QED BY <1>1, <2>1, <2>2 DEF InReach
<1> QED BY <1>2, <1>3, <1>4, <1>5 DEF Service

\* A new run starts: whoever still executes an earlier one is stale.
LEMMA BeginKeeps ==
    ASSUME Here, IInv', NEW p \in {TextPlan, OcrPlan}, NEW ocr \in BOOLEAN,
           ocr <=> p = OcrPlan, BeginRun(p, ocr)
    PROVE  Shown' /\ Service'
<1>1. /\ AtRest /\ ocrReader' = 0 /\ overlapped' = (executors # {})
      /\ ocr => call' = Pumping /\ runGeneration' = generation'
      /\ ~ocr => call' = "start" /\ runGeneration' = runGeneration
      /\ UNCHANGED <<aligning, executors, jobSignals>>
    BY DEF BeginRun, workVars
<1>2. /\ plan' = p /\ generation' = generation + 1 /\ UNCHANGED pendingIntents
      /\ ocr => outbox' = {} /\ Running(checks') = {}
      /\ ~ocr => Enters(p, DeriveDependencies(p))
    BY Begun DEF Running
<1>3. outbox = {} /\ aligning = {} /\ aligning' = {}
    BY <1>1, NothingQueued DEF AtRest
<1>4. Shown'
    BY BegunShown DEF Here
<1>5. Generations'
  <2>1. /\ generation \in Nat /\ runGeneration \in Nat /\ runGeneration <= generation
        /\ \A e \in executors : e.gen \in Nat /\ e.gen <= generation
        /\ \A e \in executors : Capability[e.check] # "alignment"
      BY DEF Here, IInv, TypeOK, SessionTypeOK, Service, Generations
  <2> QED BY <2>1, <1>1, <1>2 DEF Generations, Stale
<1>6. Returned'
    BY <1>1, <1>2, <1>3 DEF Returned, Pumping, AtRest
<1>7. IntentsName'
    BY <1>2, <1>3 DEF IntentsName, Enters
<1>8. Serving'
    BY <1>2 DEF Serving
<1>9. Reachable'
    BY <1>1 DEF Reachable
<1> QED BY <1>4, <1>5, <1>6, <1>7, <1>8, <1>9 DEF Service

(***************************************************************************)
(* All of it is inductive.                                                 *)
(***************************************************************************)
LEMMA SessionBegins == SessionInit => SInv
<1> SUFFICES ASSUME SessionInit PROVE SInv
    OBVIOUS
<1>1. Composed
    BY SessionStarts
<1>2. /\ fileState = "idle" /\ generation = 0 /\ plan = {} /\ outbox = {} /\ pendingIntents = {}
      /\ call = "none" /\ aligning = {} /\ runGeneration = 0 /\ executors = {}
      /\ ocrReader = 0 /\ report = NoReport /\ DOMAIN checks = {}
    BY DEF SessionInit, Init, Empty
<1>3. Shown
    BY <1>2 DEF Shown, KnownPlan, InOrder, AlignmentsMatch, Sealed, Completed, Terminal,
           Settled
<1>4. Service
    BY <1>2, PlansDiffer DEF Service, Generations, Returned, IntentsName, Serving, Reachable,
           Early, AtRest
<1> QED BY <1>1, <1>3, <1>4 DEF SInv

LEMMA ActionsKeep ==
    ASSUME Here, IInv', Staged, [SessionNext]_allVars
    PROVE  Shown' /\ Service'
<1>1. CASE BeginRun(TextPlan, FALSE) \/ BeginRun(OcrPlan, TRUE)
    BY <1>1, BeginKeeps, PlansDiffer
<1>2. CASE Answers
    BY <1>2, AnswersKeep
<1>3. CASE Continues
  <2>1. CASE Release
      BY <2>1, ReleaseKeeps DEF Staged
  <2>2. CASE Pump
      BY <2>2, PumpKeeps
  <2>3. CASE \E j \in aligning : Align(j)
      BY <2>3, AlignKeeps
  <2>4. CASE Returns
      BY <2>4, ReturnsKeep
  <2>5. CASE CancelsNow
      BY <2>5, CancelKeeps DEF CancelsNow, workVars, resultVars
  <2> QED BY <1>3, <2>1, <2>2, <2>3, <2>4, <2>5 DEF Continues
<1>4. CASE \E e \in executors : \E occs \in Chunks : Streams(e, occs)
    BY <1>4, StreamsKeep DEF Staged
<1>5. CASE \E e \in executors : Ends(e) \/ EndsUnheard(e)
    BY <1>5, EndsKeep, EndsUnheardKeeps
<1>6. CASE WatchdogFires
    BY <1>6, WatchdogKeeps
<1>7. CASE TimePasses
  <2>1. Untouched
      BY <1>7 DEF TimePasses, BudgetElapses, IgnoredDeadline, Untouched, lifeVars, hostVars
  <2> QED BY <1>7, <2>1, IdleKeeps DEF TimePasses, sessionVars, stackVars, workVars, ocrVars,
             resultVars
<1>8. CASE CancelRun
  <2>1. UNCHANGED <<aligning, runGeneration, executors, jobSignals, ocrReader, alignments,
                    report, overlapped>>
      BY <1>8 DEF CancelRun, workVars, resultVars
  <2>2. CASE RequestCancel /\ call' = "pump"
      BY <1>8, <2>1, <2>2, CancelKeeps DEF CancelRun, Turn, AtRest
  <2>3. CASE UNCHANGED <<coordinatorVars, call>>
    <3>1. Untouched
        BY <2>3 DEF Untouched, coordinatorVars, vars, lifeVars, runVars, hostVars
    <3> QED BY <2>1, <2>3, <3>1, IdleKeeps
  <2> QED BY <1>8, <2>2, <2>3 DEF CancelRun
<1>9. CASE NewRun
  <2>1. /\ AtRest /\ PrepareNewRun /\ report' = NoReport
        /\ UNCHANGED <<call, aligning, runGeneration, executors, jobSignals, ocrReader,
                       overlapped>>
      BY <1>9 DEF NewRun, stackVars, workVars, ocrVars
  <2>2. /\ DropRun /\ fileState' \in Early /\ DOMAIN jobs = {}
        /\ UNCHANGED <<generation, pendingIntents>>
      BY <2>1 DEF PrepareNewRun, Early, RunStates, hostVars, Here, IInv, SettledIsQuiet
  <2> QED BY <2>1, <2>2, DropServes
<1>10. CASE \E next \in {"idle", "replace"} : CloseFile(next)
  <2>1. PICK next \in {"idle", "replace"} : CloseFile(next)
      BY <1>10
  <2>2. /\ AtRest /\ RequestClear(next) /\ report' = NoReport
        /\ UNCHANGED <<call, aligning, runGeneration, executors, jobSignals, ocrReader,
                       overlapped>>
      BY <2>1 DEF CloseFile, Turn, stackVars, workVars, ocrVars
  <2>3. /\ DropRun /\ fileState' \in Early /\ generation' = generation + 1
        /\ pendingIntents' = pendingIntents \cup TerminateIntents(DOMAIN jobs)
      BY <2>2 DEF RequestClear, Early
  <2> QED BY <2>2, <2>3, DropServes
<1>11. CASE FileSteps
  <2>1. Untouched
      BY <1>11 DEF FileSteps, OpenFile, FileValidated, MetadataLoaded, Untouched, Early,
             runVars, hostVars
  <2> QED BY <1>11, <2>1, IdleKeeps DEF FileSteps, sessionVars, stackVars, workVars, ocrVars,
             resultVars
<1>12. CASE UNCHANGED allVars
  <2>1. Untouched
      BY <1>12 DEF allVars, coordinatorVars, vars, lifeVars, runVars, hostVars, Untouched
  <2> QED BY <1>12, <2>1, IdleKeeps DEF allVars, sessionVars, stackVars, workVars, ocrVars,
             resultVars
<1> QED BY <1>1, <1>2, <1>3, <1>4, <1>5, <1>6, <1>7, <1>8, <1>9, <1>10, <1>11, <1>12
        DEF SessionNext

(***************************************************************************)
(* The inductive invariant of the session: with what holds of the run,     *)
(* what is shown is the run's, and every check of a run with OCR is        *)
(* executed or about to be, by an execution a cancel can reach.            *)
(***************************************************************************)
THEOREM SessionInvariance == SessionSpec => []SInv
<1>1. SInv /\ [SessionNext]_allVars => SInv'
  <2> SUFFICES ASSUME SInv, [SessionNext]_allVars PROVE SInv'
      OBVIOUS
  <2>1. Composed' /\ IInv'
      BY SessionKeeps DEF SInv, Composed, EInv
  <2>2. Here /\ Staged
      BY DEF SInv, Here, Composed, EInv
  <2> QED BY <2>1, <2>2, ActionsKeep DEF SInv
<1> QED BY <1>1, SessionBegins, PTL DEF SessionSpec

\* What a report that was assembled, or refused, says.
LEMMA ReportRead ==
    ASSUME fileState \in Settled, fileState = runStatus,
           report = Assembled(generation, runStatus, checks, alignments)
    PROVE  /\ report.gen = generation
           /\ report.status = IF Uncropped(checks) = {} THEN runStatus ELSE "refused"
           /\ report.status # "refused" =>
                /\ report.results = [c \in DOMAIN checks |-> checks[c].status]
                /\ report.evidence = [c \in DOMAIN checks |-> checks[c].retained]
                /\ report.aligned = alignments
<1> DEFINE results == [c \in DOMAIN checks |-> checks[c].status]
           kept == [c \in DOMAIN checks |-> checks[c].retained]
<1>1. CASE Uncropped(checks) # {}
  <2>1. report = [NoReport EXCEPT !.gen = generation, !.status = "refused"]
      BY <1>1 DEF Assembled, Refusal
  <2>2. report.gen = generation /\ report.status = "refused"
      BY <2>1 DEF NoReport
  <2> QED BY <1>1, <2>2
<1>2. CASE Uncropped(checks) = {}
  <2>1. report = [gen |-> generation, status |-> runStatus, results |-> results,
                  evidence |-> kept, aligned |-> alignments]
      BY <1>2 DEF Assembled
  <2> HIDE DEF results, kept
  <2>2. /\ report.gen = generation /\ report.status = runStatus
        /\ report.results = results /\ report.evidence = kept /\ report.aligned = alignments
      BY <2>1
  <2> QED BY <1>2, <2>2 DEF results, kept
<1> QED BY <1>1, <1>2

(***************************************************************************)
(* The report on display is sealed from the run that settled, with         *)
(* alignments over exactly the evidence it shows; no running check of a    *)
(* run with OCR is left without an execution; and a cancel reaches every   *)
(* execution, unless one of an earlier run was still waiting.              *)
(***************************************************************************)
THEOREM ExecutionsFollow == SessionSpec => []ExecutionsFollowRun
<1>1. SInv => ExecutionsFollowRun
  <2> SUFFICES ASSUME SInv PROVE ExecutionsFollowRun
      OBVIOUS
  <2>1. IInv /\ SessionTypeOK /\ Shown /\ Service
      BY DEF SInv, Composed, EInv
  <2>2. ReportIsRun
    <3> SUFFICES ASSUME fileState \in Settled
                 PROVE  /\ report = Assembled(generation, runStatus, checks, alignments)
                        /\ \A c \in DOMAIN checks :
                            Capability[c] = "alignment" /\ checks[c].status = "completed" =>
                                c \in DOMAIN alignments /\ alignments[c] = Readings(c)
        BY <2>1, ReportRead DEF ReportIsRun, Shown, Sealed
    <3>1. /\ report = Assembled(generation, runStatus, checks, alignments)
          /\ Terminal(checks) = DOMAIN checks
        BY <2>1 DEF Shown, Sealed
    <3>2. \A c \in DOMAIN checks : checks[c].status = "completed" => c \in Completed(checks)
        BY <3>1 DEF Completed
    <3> QED BY <2>1, <3>1, <3>2 DEF Shown, AlignmentsMatch
  <2>3. OcrRunsAreServed
    <3> SUFFICES ASSUME AtRest, plan = OcrPlan
                 PROVE  /\ \A c \in Running(checks) : Served(c)
                        /\ \A e \in executors : ~Stale(e.gen) => e.reader \in {0, generation}
        BY <2>1 DEF OcrRunsAreServed
    <3>1. outbox = {} /\ aligning = {}
        BY <2>1 DEF Service, Returned, AtRest
    <3> QED BY <2>1, <3>1 DEF Service, Serving, Generations, Stale
  <2>4. CancelReaches
    <3> SUFFICES ASSUME AtRest, fileState = "cancelled", ~overlapped, NEW e \in executors,
                        ~e.aborted
                 PROVE  FALSE
        BY DEF CancelReaches, SessionTypeOK
    <3>1. outbox = {} /\ pendingIntents = {} /\ DOMAIN jobs = {}
        BY <2>1 DEF Service, Returned, AtRest, Early, IInv, SettledIsQuiet
    <3> QED BY <2>1, <3>1 DEF Service, Reachable, InReach
  <2> QED BY <2>2, <2>3, <2>4 DEF ExecutionsFollowRun, SessionFollowsRun
<1> QED BY <1>1, SessionInvariance, PTL

(***************************************************************************)
(* What is promised of a run alone holds when the session drives it: every *)
(* running check has its one job, admitted and watched; a settled run is   *)
(* quiet; slots are used; messages leave evidence and credit of their own. *)
(***************************************************************************)
THEOREM SessionDrivesRun ==
    SessionSpec => [](EveryJobWatched /\ SettledIsQuiet /\ SlotsAreUsed /\ MessagesAccounted)
<1>1. Composed => EveryJobWatched /\ SettledIsQuiet /\ SlotsAreUsed /\ MessagesAccounted
    BY BoundIsWatched, EvidenceTells DEF Composed, EInv, IInv
<1> QED BY <1>1, SessionKeepsRun, PTL

(***************************************************************************)
(* So is what is promised of its steps: within a run terminal results are  *)
(* final and evidence is only appended to; document and file resources     *)
(* change only when the generation is retired; and no resource is lost.    *)
(***************************************************************************)
THEOREM SessionKeepsPromises ==
    SessionSpec => EvidenceIsFinal /\ GenerationFirst /\ []NothingLeaks
<1>1. Composed /\ [SessionNext]_allVars => [plan' # {} =>
        /\ occurrences \subseteq occurrences'
        /\ \A c \in DOMAIN checks :
            /\ Len(checks[c].retained) <= Len(checks'[c].retained)
            /\ SubSeq(checks'[c].retained, 1, Len(checks[c].retained)) =
                    checks[c].retained
            /\ checks[c].phase = "terminal" =>
                    /\ checks'[c].status = checks[c].status
                    /\ checks'[c].reason = checks[c].reason
                    /\ checks'[c].retained = checks[c].retained
                    /\ checks'[c].attempts = checks[c].attempts]_vars
    BY SessionSteps, EvidenceStep DEF Composed, Kept, Lasting, RecordLasts
<1>2. SessionInit => LInv /\ Life!LifeInit
    BY DEF SessionInit, Init, LInv, NothingLeaks, OwnersApart, NoDocumentYet, Life!LifeInit
<1>3. Composed /\ LInv /\ [SessionNext]_allVars =>
        LInv' /\ [Life!Advance \/ Life!Hold \/ Life!Work \/ Life!Retire]_(Life!lifeVars)
  <2> SUFFICES ASSUME Composed, LInv, [SessionNext]_allVars PROVE LInv' /\ LifeStep
      BY DEF LifeStep
  <2>1. [Step]_vars /\ IInv
      BY SessionSteps DEF Composed, EInv
  <2> QED BY <2>1, StepKeeps
<1>4. LInv => NothingLeaks
    BY DEF LInv
<1> QED BY <1>1, <1>2, <1>3, <1>4, SessionKeepsRun, PTL
        DEF SessionSpec, EvidenceIsFinal, GenerationFirst, Life!LifeSpec
=============================================================================
