---------------------- MODULE NativeSupervisor_proofs ----------------------
(***************************************************************************)
(* Theorems about NativeSupervisor, for every set of jobs, every plan, any *)
(* number of slots, retries and runs, and every set of faults:             *)
(*                                                                         *)
(*   TypeCorrect         Spec => []TypeOK                                  *)
(*   DirectoryKept       Spec => KeepsPromises (implements RunDirectory)   *)
(*   OneAttemptAtATime   Spec => []RetriesBounded                          *)
(*   NoJobDropped        Spec => []IndexCoversPlan, without I/O errors     *)
(*   NothingSurvives     Spec => []NothingLeftRunning, without I/O errors, *)
(*                       kills of the parent and unreapable children       *)
(*                                                                         *)
(* All follow from one inductive invariant, IInv.                          *)
(***************************************************************************)
EXTENDS NativeSupervisor, FiniteSetTheorems, TLAPS

USE JobAssumption, BoundAssumption, ValueAssumption
    DEF JobAssumption, BoundAssumption, ValueAssumption

(***************************************************************************)
(* The queue and the list of finished children: sequences without repeats. *)
(***************************************************************************)

\* The head of such a sequence occurs nowhere else in it.
LEMMA TailOfDistinct ==
    ASSUME NEW S, NEW s \in Seq(S), s # <<>>, IsInjective(s)
    PROVE  /\ Head(s) \in S /\ Head(s) \in Range(s)
           /\ Tail(s) \in Seq(S) /\ IsInjective(Tail(s))
           /\ Range(Tail(s)) = Range(s) \ {Head(s)}
<1>1. /\ Len(s) \in Nat \ {0} /\ DOMAIN s = 1..Len(s) /\ Head(s) = s[1]
      /\ s[1] \in S /\ Tail(s) \in Seq(S) /\ DOMAIN Tail(s) = 1..(Len(s) - 1)
      /\ \A i \in 1..(Len(s) - 1) : Tail(s)[i] = s[i + 1]
  OBVIOUS
<1>2. IsInjective(Tail(s))
  BY <1>1 DEF IsInjective
<1>3. ASSUME NEW x \in Range(Tail(s)) PROVE x \in Range(s) \ {Head(s)}
  <2>1. PICK i \in 1..(Len(s) - 1) : x = s[i + 1]
    BY <1>1 DEF Range
  <2>2. x # s[1]
    BY <1>1, <2>1 DEF IsInjective
  <2> QED
    BY <1>1, <2>1, <2>2 DEF Range
<1>4. ASSUME NEW x \in Range(s) \ {Head(s)} PROVE x \in Range(Tail(s))
  <2>1. PICK i \in 1..Len(s) : x = s[i]
    BY <1>1 DEF Range
  <2>2. i - 1 \in 1..(Len(s) - 1) /\ Tail(s)[i - 1] = x
    BY <1>1, <2>1
  <2> QED
    BY <1>1, <2>2 DEF Range
<1>5. Range(Tail(s)) = Range(s) \ {Head(s)}
  BY <1>3, <1>4
<1>6. Head(s) \in Range(s)
  BY <1>1 DEF Range
<1> QED
  BY <1>1, <1>2, <1>5, <1>6

\* A new element may be put first.
LEMMA ConsDistinct ==
    ASSUME NEW S, NEW s \in Seq(S), NEW x \in S, x \notin Range(s), IsInjective(s)
    PROVE  /\ <<x>> \o s \in Seq(S) /\ IsInjective(<<x>> \o s)
           /\ Range(<<x>> \o s) = Range(s) \cup {x}
<1> DEFINE t == <<x>> \o s
<1>1. /\ Len(s) \in Nat /\ DOMAIN s = 1..Len(s)
      /\ t \in Seq(S) /\ DOMAIN t = 1..(Len(s) + 1) /\ t[1] = x
      /\ \A i \in 1..Len(s) : t[i + 1] = s[i]
  OBVIOUS
<1>2. \A i \in 2..(Len(s) + 1) : i - 1 \in 1..Len(s) /\ t[i] = s[i - 1]
  BY <1>1
<1> HIDE DEF t
<1>3. \A i \in 2..(Len(s) + 1) : t[i] \in Range(s)
  BY <1>1, <1>2 DEF Range
<1>4. IsInjective(t)
  <2> SUFFICES ASSUME NEW i \in 1..(Len(s) + 1), NEW k \in 1..(Len(s) + 1), t[i] = t[k]
               PROVE  i = k
    BY <1>1 DEF IsInjective
  <2>1. CASE i = 1 \/ k = 1
    BY <2>1, <1>1, <1>3
  <2>2. CASE i # 1 /\ k # 1
    <3>1. s[i - 1] = s[k - 1] /\ i - 1 \in DOMAIN s /\ k - 1 \in DOMAIN s
      BY <2>2, <1>1, <1>2
    <3>2. i - 1 = k - 1
      BY <3>1 DEF IsInjective
    <3> QED
      BY <3>2
  <2> QED
    BY <2>1, <2>2
<1>5. Range(t) = Range(s) \cup {x}
  <2>1. Range(t) \subseteq Range(s) \cup {x}
    BY <1>1, <1>3 DEF Range
  <2>2. x \in Range(t)
    BY <1>1 DEF Range
  <2>3. ASSUME NEW y \in Range(s) PROVE y \in Range(t)
    <3>1. PICK i \in 1..Len(s) : y = s[i]
      BY <1>1 DEF Range
    <3>2. i + 1 \in DOMAIN t /\ t[i + 1] = y
      BY <1>1, <3>1
    <3> QED
      BY <3>2 DEF Range
  <2> QED
    BY <2>1, <2>2, <2>3
<1> QED
  BY <1>1, <1>4, <1>5 DEF t

\* A new element may be put last.
LEMMA AppendDistinct ==
    ASSUME NEW S, NEW s \in Seq(S), NEW x \in S, x \notin Range(s), IsInjective(s)
    PROVE  /\ Append(s, x) \in Seq(S) /\ IsInjective(Append(s, x))
           /\ Append(s, x) # <<>>
           /\ Range(Append(s, x)) = Range(s) \cup {x}
           /\ s # <<>> => Head(Append(s, x)) = Head(s)
<1> DEFINE t == Append(s, x)
<1>1. /\ Len(s) \in Nat /\ DOMAIN s = 1..Len(s)
      /\ t \in Seq(S) /\ DOMAIN t = 1..(Len(s) + 1) /\ t[Len(s) + 1] = x
      /\ \A i \in 1..Len(s) : t[i] = s[i]
      /\ t # <<>> /\ (s # <<>> => Head(t) = Head(s))
  OBVIOUS
<1> HIDE DEF t
<1>2. IsInjective(t)
  BY <1>1 DEF IsInjective, Range
<1>3. Range(t) = Range(s) \cup {x}
  BY <1>1 DEF Range
<1> QED
  BY <1>1, <1>2, <1>3 DEF t

LEMMA EmptyRange == IsInjective(<<>>) /\ Range(<<>>) = {}
  BY DEF IsInjective, Range

(***************************************************************************)
(* The inductive invariant.                                                *)
(***************************************************************************)

Busy(j) == child[j].life # "none"
Queued(j) == j \in Range(pending)

\* Outside the run loop there is no run state, and a plan from "ready" on.
Quiet ==
    pc \in {"idle", "claimed", "ready"} =>
        /\ pending = <<>> /\ finished = <<>> /\ presumed = {}
        /\ child = Fresh(NoChild) /\ records = Fresh(Absent) /\ attempts = Fresh(0)
        /\ outcome = "none" /\ ~aborted

\* Every job is at one place: queued, with a child, or neither.
Places ==
    /\ IsInjective(pending) /\ IsInjective(finished)
    /\ Range(pending) \subseteq Planned
    /\ \A j \in Jobs :
        /\ Busy(j) => j \in Planned /\ ~Queued(j) /\ j \notin presumed
        /\ child[j].life = "finished" <=> j \in Range(finished)
        /\ Queued(j) => attempts[j] <= Retries
        /\ attempts[j] <= 1 + Retries

\* A child that ended well left the output its job declares.
Answers ==
    \A j \in Jobs :
        /\ child[j].life \in {"exited", "finished"}
        /\ child[j].cause = "none" /\ child[j].kind = "none" /\ j \in Produces
        => child[j].report # None

\* A record tells of a report that is on disk, and only once its job is done.
Kept ==
    \A j \in Jobs :
        /\ records[j].report \in {None, reports[j]}
        /\ records[j].config \in {None, config}
        /\ Busy(j) \/ Queued(j) =>
                /\ records[j].report = None
                /\ records[j].status \in {"absent", "failed", "timeout"}
        /\ j \in Produces /\ records[j].status \in {"completed", "skipped"} =>
                records[j].report # None
        /\ j \notin Planned => records[j] = Absent

\* The rename precedes the record that names it.
Committed ==
    pc = "committed" =>
        /\ finished # <<>> /\ HasReport(Head(finished))
        /\ reports[Head(finished)] = child[Head(finished)].report

\* The index never tells of a completed job more than the disk holds.
Standing ==
    \A j \in Jobs : Directory!Done(j) => index.jobs[j].report \in {None, reports[j]}

Running == {"refill", "poll", "settle", "committed", "sweep", "closing", "publish"}

\* Jobs of this run that the index records completed have its configuration,
\* and just the presumed ones of those with a report are not run again.
Prior ==
    /\ pc = "ready" => IF resume THEN index # NoIndex ELSE index = NoIndex
    /\ pc \in Running =>
        \A j \in Planned :
            /\ Directory!Done(j) => index.jobs[j].config = config
            /\ IF j \in presumed THEN Directory!Verified(j)
               ELSE Queued(j) \/ Busy(j) => ~Directory!Verified(j)

\* The status of the run, and the index it has just published.
Judged ==
    /\ pc = "publish" =>
        /\ outcome # "none"
        /\ outcome = "complete" =>
            \A j \in Planned : records[j].status \in {"completed", "skipped"}
    /\ pc = "identity" =>
        /\ index # NoIndex
        /\ \A j \in Jobs : index.jobs[j].config \in {None, config}

\* Where run() is tells what is left to do.
Stage ==
    /\ pc \in {"settle", "committed"} => finished # <<>>
    /\ pc = "poll" => Active # {}
    /\ pc = "refill" => finished = <<>>
    /\ pc \in {"settle", "committed", "sweep"} => Active = {}
    /\ pc = "sweep" => finished = <<>>
    /\ pc \notin {"idle", "claimed"} => plan \in Plans
    /\ presumed \subseteq Planned

IInv ==
    /\ TypeOK /\ Quiet /\ Places /\ Answers /\ Kept /\ Committed /\ Standing
    /\ Prior /\ Judged /\ Stage

(***************************************************************************)
(* Types.                                                                  *)
(***************************************************************************)

LEMMA PlannedJobs ==
    ASSUME TypeOK
    PROVE  Planned \subseteq Jobs
  BY EmptyRange DEF TypeOK, Planned, Range

LEMMA RecordType ==
    ASSUME TypeOK, NEW st \in Statuses, NEW kd \in Kinds, NEW n \in Nat,
           NEW rp \in Contents \cup {None}
    PROVE  Record(st, kd, n, rp) \in Records
  BY DEF TypeOK, Record, Records

LEMMA ConstantTypes ==
    /\ NoChild \in Children /\ Absent \in Records
    /\ Fresh(None) \in [Jobs -> Contents \cup {None}] /\ Fresh(0) \in [Jobs -> Nat]
    /\ Fresh(NoChild) \in [Jobs -> Children] /\ Fresh(Absent) \in [Jobs -> Records]
<1>1. NoChild \in Children
  BY DEF NoChild, Children, Causes, ReapedKinds, BoundKinds
<1>2. Absent \in Records
  BY DEF Absent, Records, Statuses, Kinds, ReapedKinds
<1> QED
  BY <1>1, <1>2 DEF Fresh

LEMMA VerdictTypes ==
    ASSUME NEW c \in Children
    PROVE  Classify(c).status \in Statuses /\ Classify(c).kind \in Kinds
  BY DEF Children, Classify, StatusOf, Statuses, Kinds, Causes, ReapedKinds, BoundKinds

LEMMA QueueType ==
    ASSUME NEW q \in Seq(Jobs), NEW j \in Jobs, NEW r, NEW n
    PROVE  Requeued(q, j, r, n) \in Seq(Jobs)
  BY DEF Requeued

LEMMA ForgetType ==
    ASSUME TypeOK, Forget,
           UNCHANGED <<made, corrupt, reports>>, index' \in Indexes \cup {NoIndex},
           tail' \in {"absent", "whole", "torn"}, identity' \in Configs \cup {None},
           orphans' \subseteq Jobs
    PROVE  TypeOK'
<1>1. /\ attempts' \in [Jobs -> Nat] /\ child' \in [Jobs -> Children]
      /\ records' \in [Jobs -> Records]
  BY ConstantTypes DEF Forget
<1>2. pending' \in Seq(Jobs) /\ finished' \in Seq(Jobs)
  BY DEF Forget
<1>3. plan' \in Plans \cup {<<>>} /\ config' \in Configs \cup {None}
  BY DEF Forget
<1>4. presumed' \subseteq Jobs /\ runs' \in 0..MaxRuns /\ resume' \in BOOLEAN
  BY DEF Forget, TypeOK
<1> QED
  BY <1>1, <1>2, <1>3, <1>4 DEF TypeOK, Forget

LEMMA AliveJobs ==
    ASSUME TypeOK, LeftBehind
    PROVE  orphans' \subseteq Jobs
  BY DEF TypeOK, LeftBehind, Alive

\* However a child's processes end, only what is left of them is recorded.
LEMMA GroupEnds ==
    ASSUME TypeOK, NEW j \in Jobs, EndProcess(j) \/ EndGroup(j)
    PROVE  orphans' \subseteq Jobs /\ strays' \subseteq Jobs
  BY DEF TypeOK, EndProcess, EndGroup, Strays, left

LEMMA TypeStep ==
    ASSUME IInv, Next
    PROVE  TypeOK'
<1> USE DEF disk, left, setting, work, flags
<1>0. TypeOK
  BY DEF IInv
<1>1. ASSUME NEW r \in BOOLEAN, Construct(r) PROVE TypeOK'
  <2>1. runs' \in 0..MaxRuns
    BY <1>1, <1>0 DEF TypeOK, Construct
  <2> QED
    BY <1>1, <1>0, <2>1 DEF TypeOK, Construct
<1>2. CASE Refuse
  <2>1. Forget /\ UNCHANGED <<disk, orphans>>
    BY <1>2 DEF Refuse
  <2> QED
    BY <1>0, <2>1, ForgetType DEF TypeOK
<1>3. ASSUME NEW p \in Plans, NEW k \in Configs, SetUp(p, k) PROVE TypeOK'
  BY <1>3, <1>0 DEF TypeOK, SetUp
<1>4. CASE RefuseConfig
  <2>1. Forget /\ UNCHANGED <<disk, orphans>>
    BY <1>4 DEF RefuseConfig
  <2> QED
    BY <1>0, <2>1, ForgetType DEF TypeOK
<1>5. CASE Begin
  <2>1. Planned \subseteq Jobs
    BY <1>0, PlannedJobs
  <2>2. plan \in Seq(Jobs)
    <3>1. plan \in Plans \cup {<<>>}
      BY <1>0 DEF TypeOK
    <3>2. <<>> \in Seq(Jobs)
      OBVIOUS
    <3> QED
      BY <3>1, <3>2, Zenon
  <2> QED
    BY <1>5, <1>0, <2>1, <2>2 DEF TypeOK, Begin
<1>6. CASE SkipVerified
  <2> DEFINE j == Head(pending)
  <2>1. /\ j \in Jobs /\ Tail(pending) \in Seq(Jobs) /\ j \in presumed
        /\ Note(j, Record("skipped", "none", 0, index.jobs[j].report))
    BY <1>6, <1>0 DEF TypeOK, SkipVerified, MayStart
  <2>2. index.jobs[j].report \in Contents \cup {None}
    <3>1. Directory!Verified(j)
      BY <1>6, <2>1 DEF IInv, Prior, Stage, Running, SkipVerified, MayStart
    <3>2. index \in Indexes
      BY <1>0, <3>1 DEF TypeOK, Directory!Verified, Directory!Done
    <3> QED
      BY <2>1, <3>2 DEF Indexes, Records
  <2>3. Record("skipped", "none", 0, index.jobs[j].report) \in Records
    BY <1>0, <2>2, RecordType DEF Statuses, Kinds
  <2>4. records' \in [Jobs -> Records]
    BY <1>0, <2>1, <2>3 DEF TypeOK, Note
  <2> QED
    BY <1>6, <1>0, <2>1, <2>4 DEF TypeOK, SkipVerified
<1>7. CASE Spawn
  <2> DEFINE j == Head(pending)
  <2>1. j \in Jobs /\ Tail(pending) \in Seq(Jobs)
    BY <1>7, <1>0 DEF TypeOK, Spawn, MayStart
  <2>2. [NoChild EXCEPT !.life = "alive"] \in Children
    BY ConstantTypes DEF NoChild, Children
  <2>3. child' \in [Jobs -> Children]
    <3>1. child' = [child EXCEPT ![j] = [NoChild EXCEPT !.life = "alive"]]
      BY <1>7 DEF Spawn
    <3> QED
      BY <1>0, <2>1, <2>2, <3>1 DEF TypeOK
  <2>4. attempts' \in [Jobs -> Nat]
    BY <1>7, <1>0, <2>1 DEF TypeOK, Spawn
  <2> HIDE DEF j
  <2>5. pending' \in Seq(Jobs)
    BY <1>7, <2>1 DEF Spawn, j
  <2>6. UNCHANGED <<disk, left, pc, setting, finished, records, flags>>
    BY <1>7 DEF Spawn
  <2> QED
    BY <1>0, <2>3, <2>4, <2>5, <2>6 DEF TypeOK
<1>8. CASE SpawnFails
  <2> DEFINE j == Head(pending)
             record == Record("failed", "spawn_error", attempts[j] + 1, None)
  <2>1. j \in Jobs /\ Tail(pending) \in Seq(Jobs) /\ attempts[j] + 1 \in Nat
    BY <1>8, <1>0 DEF TypeOK, SpawnFails, MayStart
  <2>2. record \in Records
    BY <1>0, <2>1, RecordType DEF Statuses, Kinds
  <2>3. Requeued(Tail(pending), j, record, attempts[j] + 1) \in Seq(Jobs)
    BY <2>1, QueueType
  <2> HIDE DEF j, record
  <2>4. /\ records' = [records EXCEPT ![j] = record]
        /\ attempts' = [attempts EXCEPT ![j] = attempts[j] + 1]
        /\ pending' = Requeued(Tail(pending), j, record, attempts[j] + 1)
        /\ orphans' \subseteq orphans \cup {j}
        /\ UNCHANGED <<disk, strays, pc, setting, child, finished, flags>>
    BY <1>8 DEF SpawnFails, Note, j, record
  <2>5. records' \in [Jobs -> Records]
    BY <1>0, <2>1, <2>2, <2>4 DEF TypeOK
  <2>6. attempts' \in [Jobs -> Nat]
    BY <1>0, <2>1, <2>4 DEF TypeOK
  <2>7. pending' \in Seq(Jobs) /\ orphans' \subseteq Jobs
    BY <1>0, <2>1, <2>3, <2>4 DEF TypeOK
  <2> QED
    BY <1>0, <2>4, <2>5, <2>6, <2>7 DEF TypeOK
<1>9. CASE RefillDone
  BY <1>9, <1>0 DEF TypeOK, RefillDone
<1>10. ASSUME NEW j \in Jobs, NEW kind \in ChildFailures \cup {"none"},
              NEW c \in Contents \cup {None}, ChildExits(j, kind, c)
       PROVE TypeOK'
  <2>1. child[j] \in Children /\ kind \in ReapedKinds \cup {"none"}
    BY <1>0 DEF TypeOK
  <2>2. [child[j] EXCEPT !.life = "exited", !.kind = kind, !.report = c] \in Children
    BY <2>1, Zenon DEF Children
  <2>3. child' = [child EXCEPT ![j] =
                    [child[j] EXCEPT !.life = "exited", !.kind = kind, !.report = c]]
    BY <1>10, <1>0 DEF ChildExits, TypeOK
  <2>4. child' \in [Jobs -> Children]
    BY <1>0, <2>2, <2>3 DEF TypeOK
  <2> QED
    BY <1>10, <1>0, <2>4 DEF TypeOK, ChildExits
<1>11. ASSUME NEW j \in Jobs, Reap(j) PROVE TypeOK'
  <2>1. [child[j] EXCEPT !.life = "finished"] \in Children
    BY <1>0 DEF TypeOK, Children
  <2>2. child' \in [Jobs -> Children]
    BY <1>11, <1>0, <2>1 DEF TypeOK, Reap
  <2>3. finished' \in Seq(Jobs) /\ pc' \in {"settle", "poll"}
    BY <1>11, <1>0 DEF TypeOK, Reap, Reaped
  <2>4. orphans' \subseteq Jobs /\ strays' \subseteq Jobs
    BY <1>11, <1>0, GroupEnds DEF Reap
  <2> QED
    BY <1>11, <1>0, <2>2, <2>3, <2>4 DEF TypeOK, Reap
<1>12. ASSUME NEW j \in Jobs, NEW cause \in Causes, Kill(j, cause) PROVE TypeOK'
  <2>1. [child[j] EXCEPT !.life = "finished", !.cause = cause] \in Children
    <3>1. child[j] \in Children
      BY <1>0 DEF TypeOK
    <3> QED
      BY <3>1, Zenon DEF Children
  <2>2. child' \in [Jobs -> Children]
    BY <1>12, <1>0, <2>1 DEF TypeOK, Kill
  <2>3. finished' \in Seq(Jobs) /\ pc' \in {"settle", "poll"}
    BY <1>12, <1>0 DEF TypeOK, Kill, Reaped
  <2>4. orphans' \subseteq Jobs /\ strays' \subseteq Jobs
    BY <1>12, <1>0, GroupEnds DEF Kill
  <2> QED
    BY <1>12, <1>0, <2>2, <2>3, <2>4 DEF TypeOK, Kill
<1>13. CASE CommitReport
  <2> DEFINE j == Head(finished)
  <2>1. j \in Jobs /\ child[j].report \in Contents \cup {None}
    BY <1>13, <1>0 DEF IInv, Stage, TypeOK, CommitReport, Children
  <2> QED
    BY <1>13, <1>0, <2>1 DEF TypeOK, CommitReport
<1>14. CASE SettleHead
  <2> DEFINE j == Head(finished)
             report == IF pc = "committed" THEN child[j].report ELSE None
  <2>1. /\ j \in Jobs /\ Tail(finished) \in Seq(Jobs)
        /\ child[j] \in Children /\ attempts[j] \in Nat
    BY <1>14, <1>0 DEF TypeOK, SettleHead
  <2>2. report \in Contents \cup {None}
    BY <2>1 DEF Children
  <2>3. PICK v \in Verdicts(j) :
            /\ Note(j, Record(v.status, v.kind, attempts[j], report))
            /\ pending' = Requeued(pending, j, Record(v.status, v.kind, attempts[j], report),
                                   attempts[j])
            /\ child' = [child EXCEPT ![j] = NoChild]
    BY <1>14 DEF SettleHead
  <2>4. v.status \in Statuses /\ v.kind \in Kinds
    BY <2>1, VerdictTypes DEF Verdicts, Statuses, Kinds, ReapedKinds
  <2>5. Record(v.status, v.kind, attempts[j], report) \in Records
    BY <1>0, <2>1, <2>2, <2>4, RecordType
  <2>6. pending' \in Seq(Jobs)
    BY <1>0, <2>1, <2>3, QueueType DEF TypeOK
  <2>7. records' \in [Jobs -> Records] /\ child' \in [Jobs -> Children]
    BY <1>0, <2>1, <2>3, <2>5, ConstantTypes DEF TypeOK, Note
  <2> HIDE DEF j, report
  <2>8. /\ finished' = Tail(finished) /\ pc' \in {"refill", "settle"}
        /\ UNCHANGED <<disk, left, setting, attempts, flags>>
    BY <1>14 DEF SettleHead
  <2> QED
    BY <1>0, <2>1, <2>6, <2>7, <2>8 DEF TypeOK
<1>15. CASE Sweep
  <2> DEFINE j == Head(pending)
  <2>1. j \in Jobs /\ Tail(pending) \in Seq(Jobs)
    BY <1>15, <1>0 DEF TypeOK, Sweep
  <2>2. SweepRecord(j) \in Records
    BY <1>0, RecordType DEF SweepRecord, Statuses, Kinds
  <2>3. records' \in [Jobs -> Records]
    BY <1>15, <1>0, <2>1, <2>2 DEF TypeOK, Sweep, Note
  <2> QED
    BY <1>15, <1>0, <2>1, <2>3 DEF TypeOK, Sweep
<1>16. CASE SweepDone
  <2>1. \A j \in Jobs : Record("failed", "interrupted", attempts[j], None) \in Records
    BY <1>0, RecordType DEF TypeOK, Statuses, Kinds
  <2>2. records' \in [Jobs -> Records]
    BY <1>16, <1>0, <2>1 DEF TypeOK, SweepDone
  <2> QED
    BY <1>16, <1>0, <2>2 DEF TypeOK, SweepDone
<1>17. CASE Close
  <2>1. RunStatus \in RunStatuses
    BY DEF RunStatus, RunStatuses
  <2> QED
    BY <1>17, <1>0, <2>1 DEF TypeOK, Close
<1>18. CASE Publish
  <2>1. outcome \in RunStatuses
    BY <1>18, <1>0 DEF IInv, Judged, TypeOK, Publish
  <2>2. index' \in Indexes
    BY <1>18, <1>0, <2>1 DEF TypeOK, Publish, Indexes
  <2>3. CASE aborted
    BY <1>18, <1>0, <2>2, <2>3, ForgetType DEF TypeOK, Publish
  <2>4. CASE ~aborted
    BY <1>18, <1>0, <2>2, <2>4 DEF TypeOK, Publish
  <2> QED
    BY <2>3, <2>4
<1>19. CASE PublishIdentity
  <2>1. Forget /\ identity' = config /\ UNCHANGED <<made, tail, corrupt, reports, index, orphans>>
    BY <1>19 DEF PublishIdentity
  <2> QED
    BY <1>0, <2>1, ForgetType DEF TypeOK
<1>20. CASE Cancel
  BY <1>20, <1>0 DEF TypeOK, Cancel
<1>21. CASE DeadlinePasses
  BY <1>21, <1>0 DEF TypeOK, DeadlinePasses
<1>22. CASE Killed
  <2>1. /\ Forget /\ tail' \in {tail, "torn"}
        /\ UNCHANGED <<made, corrupt, reports, index, identity>>
    BY <1>22 DEF Killed
  <2>2. orphans' \subseteq Jobs
    BY <1>22, <1>0, AliveJobs DEF Killed
  <2> QED
    BY <1>0, <2>1, <2>2, ForgetType DEF TypeOK
<1>23. CASE JournalFails
  <2>1. orphans' \subseteq Jobs
    BY <1>23, <1>0, AliveJobs DEF JournalFails
  <2> QED
    BY <1>23, <1>0, <2>1 DEF TypeOK, JournalFails
<1>24. CASE CommitFails
  <2>1. orphans' \subseteq Jobs
    BY <1>24, <1>0, AliveJobs DEF CommitFails
  <2> QED
    BY <1>24, <1>0, <2>1 DEF TypeOK, CommitFails
<1>25. CASE ClosingFails
  <2>1. Forget /\ UNCHANGED <<disk, orphans>>
    BY <1>25 DEF ClosingFails
  <2> QED
    BY <1>0, <2>1, ForgetType DEF TypeOK
<1> QED
  BY <1>1, <1>2, <1>3, <1>4, <1>5, <1>6, <1>7, <1>8, <1>9, <1>10, <1>11, <1>12, <1>13,
     <1>14, <1>15, <1>16, <1>17, <1>18, <1>19, <1>20, <1>21, <1>22, <1>23, <1>24, <1>25
     DEF Next, Parent

(***************************************************************************)
(* Steps that end the run, or leave its work alone.                        *)
(***************************************************************************)

\* Nothing of a run is left when it returns, raises or is killed.
LEMMA ForgetStep ==
    ASSUME TypeOK', Standing', Forget
    PROVE  IInv'
<1>1. /\ pc' = "idle" /\ pending' = <<>> /\ finished' = <<>> /\ presumed' = {}
      /\ plan' = <<>> /\ outcome' = "none" /\ aborted' = FALSE
      /\ \A j \in Jobs : child'[j] = NoChild /\ records'[j] = Absent /\ attempts'[j] = 0
  BY DEF Forget, Fresh
<1>2. Quiet'
  BY <1>1 DEF Quiet, Forget, Fresh
<1>3. Places'
  BY <1>1, EmptyRange DEF Places, Busy, Queued, NoChild, Planned
<1>4. Answers' /\ Kept'
  BY <1>1, EmptyRange DEF Answers, Kept, Busy, Queued, NoChild, Absent
<1>5. Committed' /\ Prior' /\ Judged' /\ Stage'
  BY <1>1 DEF Committed, Prior, Judged, Stage, Running
<1> QED
  BY <1>2, <1>3, <1>4, <1>5 DEF IInv

\* Where nothing about jobs and reports changes, neither does what is known.
LEMMA SameWork ==
    ASSUME IInv, UNCHANGED <<setting, work, reports, index>>
    PROVE  /\ Places' /\ Answers' /\ Kept'
           /\ Planned' = Planned /\ Active' = Active
           /\ \A j : Directory!Done(j)' = Directory!Done(j)
           /\ \A j : Directory!Verified(j)' = Directory!Verified(j)
           /\ \A j : Busy(j)' = Busy(j) /\ Queued(j)' = Queued(j)
  BY DEF IInv, setting, work, Places, Answers, Kept, Planned, Active, Busy, Queued,
         Directory!Done, Directory!Verified

\* Such steps also keep Prior while the run goes on.
LEMMA SamePrior ==
    ASSUME IInv, UNCHANGED <<setting, work, reports, index>>,
           (pc \in Running /\ pc' \in Running) \/ UNCHANGED pc
    PROVE  Prior' /\ Standing'
<1>1. /\ presumed' = presumed /\ config' = config /\ index' = index
      /\ resume' = resume /\ reports' = reports
  BY DEF setting
<1>2. Standing'
  BY <1>1, SameWork DEF IInv, Standing
<1>3. Prior'
  BY <1>1, SameWork DEF IInv, Prior, Running
<1> QED
  BY <1>2, <1>3

(***************************************************************************)
(* One lemma for each step of the parent.                                  *)
(***************************************************************************)

\* A job that is recorded neither usable nor absent keeps a run from being
\* complete.
LEMMA CompleteMeansUsable ==
    ASSUME TypeOK, RunStatus = "complete"
    PROVE  \A j \in Planned : records[j].status \in {"completed", "skipped"}
  BY PlannedJobs DEF RunStatus, TypeOK, Records, Statuses

LEMMA QuietSteps ==
    ASSUME IInv, TypeOK',
           \/ RefillDone \/ Close \/ Cancel \/ DeadlinePasses \/ JournalFails \/ CommitFails
    PROVE  IInv'
<1>1. UNCHANGED <<setting, work, reports, index>>
  BY DEF RefillDone, Close, Cancel, DeadlinePasses, JournalFails, CommitFails, disk
<1>2. Places' /\ Answers' /\ Kept' /\ Planned' = Planned /\ Active' = Active
  BY <1>1, SameWork
<1>3. \/ pc \in Running /\ pc' \in Running /\ pc' # "committed"
      \/ UNCHANGED pc
  BY DEF Running, RefillDone, Close, Cancel, DeadlinePasses, JournalFails, CommitFails
<1>4. Quiet'
  BY <1>1, <1>3 DEF IInv, Quiet, RefillDone, Close, Cancel, DeadlinePasses, JournalFails,
              CommitFails, flags, setting, work, Running
<1>5. Committed'
  BY <1>1, <1>3 DEF IInv, Committed, HasReport, work
<1>6. Prior' /\ Standing'
  BY <1>1, <1>3, SamePrior
<1>7. Judged'
  <2>1. CASE Close
    BY <2>1, <1>1, <1>2, CompleteMeansUsable DEF IInv, Judged, Close, work, RunStatus
  <2>2. CASE ~Close
    BY <2>2, <1>1, <1>2 DEF IInv, Judged, RefillDone, Cancel, DeadlinePasses, JournalFails,
              CommitFails, setting, work
  <2> QED
    BY <2>1, <2>2
<1>8. Stage'
  BY <1>1, <1>2 DEF IInv, Stage, RefillDone, Close, Cancel, DeadlinePasses, JournalFails,
              CommitFails, setting, work
<1> QED
  BY <1>2, <1>4, <1>5, <1>6, <1>7, <1>8 DEF IInv

LEMMA StartSteps ==
    ASSUME IInv, TypeOK',
           \/ \E r \in BOOLEAN : Construct(r)
           \/ \E p \in Plans, k \in Configs : SetUp(p, k)
    PROVE  IInv'
<1>1. /\ pc \in {"idle", "claimed"} /\ pc' \in {"claimed", "ready"}
      /\ UNCHANGED <<presumed, work, flags, reports, index>>
  BY DEF Construct, SetUp, disk
<1>2. /\ pending = <<>> /\ finished = <<>> /\ presumed = {} /\ outcome = "none"
      /\ child = Fresh(NoChild) /\ records = Fresh(Absent) /\ attempts = Fresh(0)
      /\ \A j \in Jobs : child[j] = NoChild /\ records[j] = Absent /\ attempts[j] = 0
  BY <1>1 DEF IInv, Quiet, Fresh
<1>3. Quiet'
  BY <1>1 DEF IInv, Quiet, work, flags
<1>4. Places'
  BY <1>1, <1>2, EmptyRange DEF Places, Busy, Queued, NoChild, work
<1>5. Answers' /\ Kept'
  BY <1>1, <1>2, EmptyRange DEF Answers, Kept, Busy, Queued, NoChild, Absent, work
<1>6. Standing'
  BY <1>1 DEF IInv, Standing, Directory!Done
<1>7. Prior'
  BY <1>1 DEF Prior, Running, Construct, SetUp, DirectoryFits, disk
<1>8. Committed' /\ Judged' /\ Stage'
  BY <1>1, <1>2 DEF Committed, Judged, Stage, Construct, SetUp
<1> QED
  BY <1>3, <1>4, <1>5, <1>6, <1>7, <1>8 DEF IInv

\* The resume pre-pass presumes exactly what the index vouches for.
LEMMA BeginStep ==
    ASSUME IInv, TypeOK', Begin
    PROVE  IInv'
<1> USE DEF Begin
<1>1. /\ finished = <<>> /\ outcome = "none"
      /\ child = Fresh(NoChild) /\ records = Fresh(Absent) /\ attempts = Fresh(0)
      /\ \A j \in Jobs : child[j] = NoChild /\ records[j] = Absent /\ attempts[j] = 0
  BY DEF IInv, Quiet, Fresh
<1>2. /\ plan \in Plans /\ IsInjective(plan) /\ Planned' = Planned /\ pending' = plan
      /\ Range(pending') = Planned
  BY DEF IInv, Stage, Planned
<1>3. /\ UNCHANGED <<child, records, attempts, finished, outcome, reports, index, config>>
      /\ pc = "ready" /\ pc' = "refill"
  OBVIOUS
<1>4. Quiet' /\ Committed' /\ Judged'
  BY <1>3 DEF Quiet, Committed, Judged
<1>5. Places'
  BY <1>1, <1>2, <1>3, EmptyRange DEF Places, Busy, Queued, NoChild
<1>6. Answers' /\ Kept'
  BY <1>1, <1>3 DEF Answers, Kept, Busy, Queued, NoChild, Absent
<1>7. Standing'
  BY <1>3 DEF IInv, Standing, Directory!Done
<1>8. Prior'
  <2>1. CASE resume
    <3>1. index # NoIndex /\ ~ConfigChanged /\ presumed' = {j \in Planned : Reusable(j)}
      BY <2>1 DEF IInv, Prior
    <3>2. \A j \in Planned : Directory!Done(j) => index.jobs[j].config = config
      BY <3>1 DEF ConfigChanged, Directory!Done
    <3>3. \A j : Reusable(j) <=> Directory!Verified(j)
      BY <3>1 DEF Reusable, Directory!Verified, Directory!Done
    <3>4. \A j : Directory!Verified(j)' = Directory!Verified(j)
                /\ Directory!Done(j)' = Directory!Done(j)
      BY <1>3 DEF Directory!Verified, Directory!Done
    <3> QED
      BY <1>2, <1>3, <3>1, <3>2, <3>3, <3>4 DEF Prior
  <2>2. CASE ~resume
    <3>1. index' = NoIndex /\ presumed' = {}
      BY <2>2 DEF IInv, Prior
    <3> QED
      BY <1>3, <3>1 DEF Prior, Directory!Done, Directory!Verified
  <2> QED
    BY <2>1, <2>2
<1>9. Stage'
  BY <1>1, <1>2, <1>3 DEF IInv, Stage
<1> QED
  BY <1>4, <1>5, <1>6, <1>7, <1>8, <1>9 DEF IInv

\* The head of the queue is a planned job without a child, a report to be kept
\* or a second place in the queue.
LEMMA HeadOfQueue ==
    ASSUME IInv, pending # <<>>
    PROVE  LET j == Head(pending)
           IN  /\ j \in Jobs /\ j \in Planned /\ Queued(j) /\ ~Busy(j)
               /\ j \notin Range(finished)
               /\ attempts[j] <= Retries /\ records[j].report = None
               /\ Tail(pending) \in Seq(Jobs) /\ IsInjective(Tail(pending))
               /\ Range(Tail(pending)) = Range(pending) \ {j}
<1>1. pending \in Seq(Jobs) /\ IsInjective(pending)
  BY DEF IInv, TypeOK, Places
<1>2. /\ Head(pending) \in Jobs /\ Head(pending) \in Range(pending)
      /\ Tail(pending) \in Seq(Jobs) /\ IsInjective(Tail(pending))
      /\ Range(Tail(pending)) = Range(pending) \ {Head(pending)}
  BY <1>1, TailOfDistinct
<1> QED
  BY <1>2 DEF IInv, Places, Kept, Queued, Busy

\* A job leaves the queue for good with a record of its own.
LEMMA SkipAndSweepStep ==
    ASSUME IInv, TypeOK', SkipVerified \/ Sweep
    PROVE  IInv'
<1> DEFINE j == Head(pending)
<1>1. PICK r :
        /\ records' = [records EXCEPT ![j] = r]
        /\ \/ /\ pc = "refill" /\ j \in presumed
              /\ r = Record("skipped", "none", 0, index.jobs[j].report)
           \/ pc = "sweep" /\ r = SweepRecord(j)
  BY DEF SkipVerified, MayStart, Sweep, Note
<1>2. /\ pending # <<>> /\ pending' = Tail(pending) /\ pc' = pc /\ pc \in {"refill", "sweep"}
      /\ UNCHANGED <<reports, index, runs, resume, plan, config, presumed, attempts, child,
                    finished, outcome, aborted>>
  BY DEF SkipVerified, Sweep, MayStart, disk, setting, flags
<1>3. /\ j \in Jobs /\ j \in Planned /\ Queued(j) /\ ~Busy(j)
      /\ IsInjective(Tail(pending)) /\ Range(Tail(pending)) = Range(pending) \ {j}
  BY <1>2, HeadOfQueue
<1>4. /\ r.report \in {None, reports[j]} /\ r.config = config
      /\ j \in Produces /\ r.status \in {"completed", "skipped"} => r.report # None
  <2>1. CASE pc = "refill"
    <3>1. Directory!Verified(j)
      BY <1>1, <1>3, <2>1 DEF IInv, Prior, Running
    <3> QED
      BY <1>1, <2>1, <3>1 DEF Directory!Verified, Directory!Done, Record
  <2>2. CASE pc = "sweep"
    BY <1>1, <2>2 DEF SweepRecord, Record
  <2> QED
    BY <1>2, <2>1, <2>2
<1>5. /\ Planned' = Planned /\ \A k : Busy(k)' = Busy(k)
      /\ \A k \in Jobs : Queued(k)' = (Queued(k) /\ k # j)
      /\ \A k \in Jobs : records'[k] = IF k = j THEN r ELSE records[k]
      /\ \A k : Directory!Done(k)' = Directory!Done(k)
      /\ \A k : Directory!Verified(k)' = Directory!Verified(k)
  BY <1>1, <1>2, <1>3 DEF Planned, Busy, Queued, Directory!Done, Directory!Verified, IInv, TypeOK
<1> HIDE DEF j
<1>6. Quiet' /\ Committed' /\ Judged'
  BY <1>2 DEF Quiet, Committed, Judged
<1>7. Places'
  BY <1>2, <1>3, <1>5 DEF IInv, Places, j
<1>8. Answers' /\ Standing'
  BY <1>2, <1>5 DEF IInv, Answers, Standing
<1>9. Kept'
  BY <1>2, <1>3, <1>4, <1>5 DEF IInv, Kept
<1>10. Prior'
  <2>1. /\ config' = config /\ presumed' = presumed /\ index' = index
        /\ pc \in Running /\ Planned \subseteq Jobs
    BY <1>2, PlannedJobs DEF Running, IInv
  <2> QED
    BY <1>2, <1>5, <2>1 DEF IInv, Prior
<1>11. Stage'
  BY <1>2, <1>5 DEF IInv, Stage, Active
<1> QED
  BY <1>6, <1>7, <1>8, <1>9, <1>10, <1>11 DEF IInv

LEMMA SpawnStep ==
    ASSUME IInv, TypeOK', Spawn
    PROVE  IInv'
<1> DEFINE j == Head(pending)
<1>1. /\ pending # <<>> /\ pending' = Tail(pending) /\ pc' = "refill" /\ pc = "refill"
      /\ attempts' = [attempts EXCEPT ![j] = @ + 1]
      /\ child' = [child EXCEPT ![j] = [NoChild EXCEPT !.life = "alive"]]
      /\ j \notin presumed
      /\ UNCHANGED <<reports, index, runs, resume, plan, config, presumed, records,
                    finished, outcome, aborted>>
  BY DEF Spawn, MayStart, disk, setting, flags
<1>2. /\ j \in Jobs /\ j \in Planned /\ Queued(j) /\ ~Busy(j) /\ j \notin Range(finished)
      /\ attempts[j] <= Retries /\ attempts[j] \in Nat
      /\ IsInjective(Tail(pending)) /\ Range(Tail(pending)) = Range(pending) \ {j}
  BY <1>1, HeadOfQueue DEF IInv, TypeOK
<1> HIDE DEF j
<1>3. /\ \A k \in Jobs : attempts'[k] = IF k = j THEN attempts[k] + 1 ELSE attempts[k]
      /\ \A k \in Jobs : k # j => child'[k] = child[k]
      /\ child'[j].life = "alive"
  BY <1>1, <1>2 DEF IInv, TypeOK, NoChild
<1>4. /\ Planned' = Planned
      /\ \A k \in Jobs : Busy(k)' = (Busy(k) \/ k = j)
      /\ \A k \in Jobs : Queued(k)' = (Queued(k) /\ k # j)
      /\ \A k : Directory!Done(k)' = Directory!Done(k)
      /\ \A k : Directory!Verified(k)' = Directory!Verified(k)
  BY <1>1, <1>2, <1>3 DEF Planned, Busy, Queued, Directory!Done, Directory!Verified
<1>5. Quiet' /\ Committed' /\ Judged'
  BY <1>1 DEF Quiet, Committed, Judged
<1>6. Places'
  <2>1. IsInjective(pending') /\ IsInjective(finished') /\ Range(pending') \subseteq Planned'
    BY <1>1, <1>2, <1>4 DEF IInv, Places
  <2>2. ASSUME NEW k \in Jobs
        PROVE  /\ Busy(k)' => k \in Planned' /\ ~Queued(k)' /\ k \notin presumed'
               /\ child'[k].life = "finished" <=> k \in Range(finished')
               /\ Queued(k)' => attempts'[k] <= Retries
               /\ attempts'[k] <= 1 + Retries
    <3>1. CASE k = j
      <4>1. /\ ~Queued(k)' /\ k \in Planned' /\ k \notin presumed'
            /\ k \notin Range(finished')
        BY <3>1, <1>1, <1>2, <1>4
      <4>2. child'[k].life = "alive" /\ attempts'[k] <= 1 + Retries
        BY <3>1, <1>2, <1>3
      <4> QED
        BY <4>1, <4>2
    <3>2. CASE k # j
      BY <3>2, <1>1, <1>3, <1>4 DEF IInv, Places
    <3> QED
      BY <3>1, <3>2
  <2> QED
    BY <2>1, <2>2 DEF Places
<1>7. Answers' /\ Standing'
  BY <1>1, <1>3, <1>4 DEF IInv, Answers, Standing
<1>8. Kept'
  BY <1>1, <1>2, <1>4 DEF IInv, Kept
<1>9. Prior'
  <2>1. Planned \subseteq Jobs
    BY PlannedJobs DEF IInv
  <2> QED
    BY <1>1, <1>2, <1>4, <2>1 DEF IInv, Prior, Running
<1>10. Stage'
  BY <1>1, <1>4 DEF IInv, Stage
<1> QED
  BY <1>5, <1>6, <1>7, <1>8, <1>9, <1>10 DEF IInv

\* A settled job is back in the queue only if it may be retried.
LEMMA QueueAfterSettling ==
    ASSUME NEW q \in Seq(Jobs), NEW j \in Jobs, j \notin Range(q), IsInjective(q), NEW r, NEW n
    PROVE  /\ IsInjective(Requeued(q, j, r, n))
           /\ Range(Requeued(q, j, r, n)) = Range(q) \cup (IF MayRetry(r, n) THEN {j} ELSE {})
<1>1. CASE MayRetry(r, n)
  BY <1>1, ConsDistinct DEF Requeued
<1>2. CASE ~MayRetry(r, n)
  BY <1>2 DEF Requeued
<1> QED
  BY <1>1, <1>2

LEMMA SpawnFailsStep ==
    ASSUME IInv, TypeOK', SpawnFails
    PROVE  IInv'
<1> DEFINE j == Head(pending)
           n == attempts[j] + 1
           r == Record("failed", "spawn_error", n, None)
           back == MayRetry(r, n)
<1>1. /\ pending # <<>> /\ pc' = "refill" /\ pc = "refill" /\ j \notin presumed
      /\ attempts' = [attempts EXCEPT ![j] = n]
      /\ records' = [records EXCEPT ![j] = r]
      /\ pending' = Requeued(Tail(pending), j, r, n)
      /\ UNCHANGED <<reports, index, runs, resume, plan, config, presumed, child,
                    finished, outcome, aborted>>
  BY DEF SpawnFails, MayStart, Note, disk, setting, flags
<1>2. /\ j \in Jobs /\ j \in Planned /\ Queued(j) /\ ~Busy(j) /\ j \notin Range(finished)
      /\ attempts[j] <= Retries /\ attempts[j] \in Nat /\ Tail(pending) \in Seq(Jobs)
      /\ IsInjective(Tail(pending)) /\ Range(Tail(pending)) = Range(pending) \ {j}
  BY <1>1, HeadOfQueue DEF IInv, TypeOK
<1>3. /\ r.report = None /\ r.status = "failed" /\ r.config = config
      /\ back => n <= Retries
  BY DEF Record, MayRetry
<1> HIDE DEF r, j, n
<1>4. /\ IsInjective(pending')
      /\ Range(pending') = (Range(pending) \ {j}) \cup (IF back THEN {j} ELSE {})
  BY <1>1, <1>2, QueueAfterSettling
<1> HIDE DEF back
<1>5. /\ Planned' = Planned /\ \A k : Busy(k)' = Busy(k)
      /\ \A k : Directory!Done(k)' = Directory!Done(k)
      /\ \A k : Directory!Verified(k)' = Directory!Verified(k)
      /\ \A k \in Jobs : records'[k] = IF k = j THEN r ELSE records[k]
      /\ \A k \in Jobs : attempts'[k] = IF k = j THEN n ELSE attempts[k]
  BY <1>1, <1>2 DEF Planned, Busy, Directory!Done, Directory!Verified, IInv, TypeOK
<1>12. /\ \A k : k = j => (Queued(k)' <=> back)
       /\ \A k : k # j => (Queued(k)' <=> Queued(k))
  <2>1. CASE back
    BY <1>4, <2>1 DEF Queued
  <2>2. CASE ~back
    BY <1>4, <2>2 DEF Queued
  <2> QED
    BY <2>1, <2>2
<1>6. Quiet' /\ Committed' /\ Judged'
  BY <1>1 DEF Quiet, Committed, Judged
<1>7. Places'
  <2>1. IsInjective(pending') /\ IsInjective(finished') /\ Range(pending') \subseteq Planned'
    BY <1>1, <1>2, <1>4, <1>5, <1>12 DEF IInv, Places
  <2>2. ASSUME NEW k \in Jobs
        PROVE  /\ Busy(k)' => k \in Planned' /\ ~Queued(k)' /\ k \notin presumed'
               /\ child'[k].life = "finished" <=> k \in Range(finished')
    BY <1>1, <1>2, <1>5, <1>12 DEF IInv, Places
  <2>3. ASSUME NEW k \in Jobs
        PROVE  (Queued(k)' => attempts'[k] <= Retries) /\ attempts'[k] <= 1 + Retries
    <3>1. CASE k = j
      <4>1. attempts'[k] = n
        BY <3>1, <1>2, <1>5
      <4>2. n <= 1 + Retries /\ (back => n <= Retries)
        BY <1>2, <1>3 DEF n
      <4>3. Queued(k)' <=> back
        BY <3>1, <1>12
      <4> QED
        BY <4>1, <4>2, <4>3
    <3>2. CASE k # j
      BY <3>2, <1>5, <1>12 DEF IInv, Places
    <3> QED
      BY <3>1, <3>2
  <2> QED
    BY <2>1, <2>2, <2>3 DEF Places
<1>8. Answers' /\ Standing'
  BY <1>1, <1>5, <1>12 DEF IInv, Answers, Standing
<1>9. Kept'
  BY <1>1, <1>2, <1>3, <1>5, <1>12 DEF IInv, Kept
<1>10. Prior'
  <2>1. Planned \subseteq Jobs
    BY PlannedJobs DEF IInv
  <2> QED
    BY <1>1, <1>2, <1>5, <1>12, <2>1 DEF IInv, Prior, Running
<1>11. Stage'
  BY <1>1, <1>5, <1>12 DEF IInv, Stage
<1> QED
  BY <1>6, <1>7, <1>8, <1>9, <1>10, <1>11 DEF IInv

LEMMA ChildExitsStep ==
    ASSUME IInv, TypeOK', NEW j \in Jobs, NEW kind \in ChildFailures \cup {"none"},
           NEW c \in Contents \cup {None}, ChildExits(j, kind, c)
    PROVE  IInv'
<1>1. /\ child[j].life = "alive" /\ child[j].cause = child'[j].cause
      /\ child'[j].life = "exited" /\ child'[j].kind = kind /\ child'[j].report = c
      /\ kind = "none" => (c # None <=> j \in Produces)
      /\ \A k \in Jobs : k # j => child'[k] = child[k]
  <2>1. child[j] \in Children /\ child \in [Jobs -> Children]
    BY DEF IInv, TypeOK
  <2> QED
    BY <2>1 DEF ChildExits, Children
<1>2. /\ UNCHANGED <<pc, reports, index, runs, resume, plan, config, presumed, pending, attempts,
                    records, finished, outcome, aborted>>
  BY DEF ChildExits, disk, setting, flags
<1>3. /\ Planned' = Planned /\ Active' = Active
      /\ \A k \in Jobs : Busy(k)' = Busy(k)
      /\ \A k : Queued(k)' = Queued(k)
      /\ \A k : Directory!Done(k)' = Directory!Done(k)
      /\ \A k : Directory!Verified(k)' = Directory!Verified(k)
  BY <1>1, <1>2 DEF Planned, Busy, Queued, Directory!Done, Directory!Verified, Active
<1>4. Quiet'
  BY <1>1, <1>2 DEF IInv, Quiet, Fresh, NoChild
<1>5. Places'
  BY <1>1, <1>2, <1>3 DEF IInv, Places
<1>6. Answers' /\ Standing'
  BY <1>1, <1>2, <1>3 DEF IInv, Answers, Standing
<1>7. Kept'
  BY <1>2, <1>3 DEF IInv, Kept
<1>8. Prior'
  <2>1. Planned \subseteq Jobs
    BY PlannedJobs DEF IInv
  <2> QED
    BY <1>2, <1>3, <2>1 DEF IInv, Prior
<1>9. Committed'
  <2>1. pc = "committed" => child[Head(finished)].life = "finished"
    BY TailOfDistinct DEF IInv, TypeOK, Places, Committed
  <2> QED
    BY <1>1, <1>2, <2>1, TailOfDistinct DEF IInv, TypeOK, Places, Committed, HasReport
<1>10. Judged' /\ Stage'
  BY <1>2, <1>3 DEF IInv, Judged, Stage
<1> QED
  BY <1>4, <1>5, <1>6, <1>7, <1>8, <1>9, <1>10 DEF IInv

LEMMA ReapAndKillStep ==
    ASSUME IInv, TypeOK', NEW j \in Jobs,
           Reap(j) \/ \E cause \in Causes : Kill(j, cause)
    PROVE  IInv'
<1>1. /\ pc = "poll" /\ j \in Active /\ Reaped(j)
      /\ UNCHANGED <<reports, index, runs, resume, plan, config, presumed, pending, attempts,
                    records, outcome, aborted>>
  BY DEF Reap, Kill, Active, disk, setting, flags
<1>2. /\ child'[j].life = "finished"
      /\ \A k \in Jobs : k # j => child'[k] = child[k]
      /\ child'[j].cause = "none" =>
            /\ child[j].life = "exited" /\ child[j].cause = "none"
            /\ child'[j].kind = child[j].kind /\ child'[j].report = child[j].report
  <2>1. child[j] \in Children /\ child \in [Jobs -> Children]
    BY DEF IInv, TypeOK
  <2>2. CASE Reap(j)
    BY <2>1, <2>2 DEF Reap, Children
  <2>3. ASSUME NEW cause \in Causes, Kill(j, cause)
        PROVE  /\ child'[j].life = "finished" /\ child'[j].cause # "none"
               /\ \A k \in Jobs : k # j => child'[k] = child[k]
    BY <2>1, <2>3 DEF Kill, Children, Causes, BoundKinds
  <2> QED
    BY <2>2, <2>3
<1>3. /\ j \notin Range(finished) /\ IsInjective(finished')
      /\ Range(finished') = Range(finished) \cup {j} /\ finished' # <<>>
      /\ pc' = IF Active = {j} THEN "settle" ELSE "poll"
  <2>1. j \notin Range(finished) /\ IsInjective(finished) /\ finished \in Seq(Jobs)
    BY <1>1 DEF IInv, Places, Active, TypeOK
  <2> QED
    BY <1>1, <2>1, AppendDistinct DEF Reaped
<1>4. /\ Planned' = Planned /\ Active' = Active \ {j} /\ Busy(j)
      /\ \A k \in Jobs : Busy(k)' = Busy(k)
      /\ \A k : Queued(k)' = Queued(k)
      /\ \A k : Directory!Done(k)' = Directory!Done(k)
      /\ \A k : Directory!Verified(k)' = Directory!Verified(k)
  BY <1>1, <1>2 DEF Planned, Busy, Queued, Directory!Done, Directory!Verified, Active
<1>5. Quiet' /\ Committed' /\ Judged'
  BY <1>3 DEF Quiet, Committed, Judged
<1>6. Places'
  BY <1>1, <1>2, <1>3, <1>4 DEF IInv, Places
<1>7. Answers' /\ Standing'
  BY <1>1, <1>2, <1>4 DEF IInv, Answers, Standing
<1>8. Kept'
  BY <1>1, <1>4 DEF IInv, Kept
<1>9. Prior'
  <2>1. Planned \subseteq Jobs
    BY PlannedJobs DEF IInv
  <2> QED
    BY <1>1, <1>3, <1>4, <2>1 DEF IInv, Prior, Running
<1>10. Stage'
  BY <1>1, <1>3, <1>4 DEF IInv, Stage
<1> QED
  BY <1>5, <1>6, <1>7, <1>8, <1>9, <1>10 DEF IInv

\* The first reaped job of the batch.
LEMMA HeadOfBatch ==
    ASSUME IInv, finished # <<>>
    PROVE  LET j == Head(finished)
           IN  /\ j \in Jobs /\ j \in Planned /\ j \notin presumed /\ ~Queued(j)
               /\ child[j].life = "finished" /\ Busy(j) /\ j \in Range(finished)
               /\ records[j].report = None /\ attempts[j] <= 1 + Retries
               /\ Tail(finished) \in Seq(Jobs) /\ IsInjective(Tail(finished))
               /\ Range(Tail(finished)) = Range(finished) \ {j}
<1>1. finished \in Seq(Jobs) /\ IsInjective(finished)
  BY DEF IInv, TypeOK, Places
<1>2. /\ Head(finished) \in Jobs /\ Head(finished) \in Range(finished)
      /\ Tail(finished) \in Seq(Jobs) /\ IsInjective(Tail(finished))
      /\ Range(Tail(finished)) = Range(finished) \ {Head(finished)}
  BY <1>1, TailOfDistinct
<1>3. child[Head(finished)].life = "finished"
  BY <1>2 DEF IInv, Places
<1> QED
  BY <1>2, <1>3 DEF IInv, Places, Kept, Queued, Busy

\* Nothing vouches for the report that is replaced.
LEMMA CommitStep ==
    ASSUME IInv, TypeOK', CommitReport
    PROVE  IInv' /\ ~Directory!Verified(Head(finished))
<1> DEFINE j == Head(finished)
<1>1. /\ pc = "settle" /\ pc' = "committed" /\ HasReport(j)
      /\ reports' = [reports EXCEPT ![j] = child[j].report]
      /\ UNCHANGED <<index, runs, resume, plan, config, presumed, pending, attempts, child,
                    finished, records, outcome, aborted>>
  BY DEF CommitReport, setting, work, flags
<1>2. finished # <<>> /\ Active = {}
  BY <1>1 DEF IInv, Stage
<1>3. /\ j \in Jobs /\ j \in Planned /\ j \notin presumed /\ Busy(j)
      /\ records[j].report = None
  BY <1>2, HeadOfBatch
<1>4. ~Directory!Verified(j)
  BY <1>1, <1>3 DEF IInv, Prior, Running
<1>5. Directory!Done(j) => index.jobs[j].report = None
  BY <1>3, <1>4 DEF IInv, Standing, Directory!Verified
<1>6. /\ Planned' = Planned /\ Active' = Active
      /\ \A k : (Busy(k)' = Busy(k)) /\ (Queued(k)' = Queued(k))
      /\ \A k : Directory!Done(k)' = Directory!Done(k)
      /\ \A k \in Jobs : reports'[k] = IF k = j THEN child[j].report ELSE reports[k]
  BY <1>1, <1>3 DEF Planned, Busy, Queued, Directory!Done, Active, IInv, TypeOK
<1>7. HasReport(j)' /\ j' = j
  BY <1>1 DEF HasReport
<1>8. Committed'
  BY <1>1, <1>2, <1>3, <1>6, <1>7 DEF Committed
<1> HIDE DEF j
<1>9. Quiet' /\ Judged'
  BY <1>1 DEF Quiet, Judged
<1>10. Places' /\ Answers'
  BY <1>1, <1>6 DEF IInv, Places, Answers
<1>11. Kept'
  BY <1>1, <1>3, <1>6 DEF IInv, Kept
<1>12. Standing'
  BY <1>1, <1>5, <1>6 DEF IInv, Standing
<1>13. Prior'
  <2>1. \A k \in Jobs : k # j => (Directory!Verified(k)' <=> Directory!Verified(k))
    BY <1>1, <1>6 DEF Directory!Verified, Directory!Done
  <2>2. ASSUME NEW k \in Jobs, k = j PROVE ~Directory!Verified(k)'
    BY <1>1, <1>5, <1>6, <2>2 DEF Directory!Verified
  <2>3. Planned \subseteq Jobs
    BY PlannedJobs DEF IInv
  <2>4. ASSUME NEW k \in Planned
        PROVE  /\ Directory!Done(k)' => index'.jobs[k].config = config'
               /\ IF k \in presumed' THEN Directory!Verified(k)'
                  ELSE Queued(k)' \/ Busy(k)' => ~Directory!Verified(k)'
    <3>1. CASE k = j
      BY <1>1, <1>3, <1>6, <2>2, <2>3, <3>1 DEF IInv, Prior, Running
    <3>2. CASE k # j
      BY <1>1, <1>6, <2>1, <2>3, <3>2 DEF IInv, Prior, Running
    <3> QED
      BY <3>1, <3>2
  <2> QED
    BY <1>1, <1>6, <2>4 DEF Prior
<1>14. Stage'
  BY <1>1, <1>2, <1>6 DEF IInv, Stage
<1> QED
  BY <1>4, <1>8, <1>9, <1>10, <1>11, <1>12, <1>13, <1>14 DEF IInv, j

LEMMA SettleStep ==
    ASSUME IInv, TypeOK', SettleHead
    PROVE  IInv'
<1>1. finished # <<>> /\ pc \in {"settle", "committed"}
  BY DEF SettleHead
<1>2. PICK j \in Jobs : j = Head(finished)
  BY <1>1, HeadOfBatch
<1>3. /\ j \in Planned /\ j \notin presumed /\ ~Queued(j)
      /\ child[j].life = "finished" /\ Busy(j) /\ attempts[j] <= 1 + Retries
      /\ IsInjective(Tail(finished)) /\ Range(Tail(finished)) = Range(finished) \ {j}
  BY <1>1, <1>2, HeadOfBatch
<1>4. PICK v \in Verdicts(j), report \in {child[j].report, None} :
        /\ report = IF pc = "committed" THEN child[j].report ELSE None
        /\ records' = [records EXCEPT ![j] = Record(v.status, v.kind, attempts[j], report)]
        /\ pending' = Requeued(pending, j, Record(v.status, v.kind, attempts[j], report),
                               attempts[j])
        /\ child' = [child EXCEPT ![j] = NoChild]
  BY <1>2 DEF SettleHead, Note
<1> DEFINE r == Record(v.status, v.kind, attempts[j], report)
           back == MayRetry(r, attempts[j])
<1>5. /\ finished' = Tail(finished)
      /\ pc' = IF Len(finished) = 1 THEN "refill" ELSE "settle"
      /\ UNCHANGED <<reports, index, runs, resume, plan, config, presumed, attempts, outcome,
                    aborted>>
  BY DEF SettleHead, disk, setting, flags
<1>6. ASSUME pc = "committed" PROVE report = reports[j] /\ report # None /\ ~back
  <2>1. /\ HasReport(j) /\ report = reports[j] /\ report = child[j].report
    BY <1>2, <1>4, <1>6 DEF IInv, Committed
  <2>2. report # None
    BY <1>3, <2>1 DEF IInv, Answers, HasReport, Classify, StatusOf
  <2>3. ~back
    BY <2>1 DEF HasReport, Verdicts, Record, MayRetry, RetryableKinds
  <2> QED
    BY <2>1, <2>2, <2>3
<1>7. ASSUME pc = "settle"
     PROVE  report = None /\ (v.status \in {"completed", "skipped"} => j \notin Produces)
  <2>1. ~HasReport(j) /\ report = None
    BY <1>2, <1>4, <1>7 DEF SettleHead
  <2>2. v.status = "completed" => j \notin Produces
    BY <2>1 DEF HasReport, Verdicts
  <2>3. v.status # "skipped"
    BY DEF Verdicts, Classify, StatusOf
  <2> QED
    BY <2>1, <2>2, <2>3
<1>8. /\ r.report \in {None, reports[j]} /\ r.config = config
      /\ j \in Produces /\ r.status \in {"completed", "skipped"} => r.report # None
      /\ back => /\ r.report = None /\ r.status \in {"failed", "timeout"}
                 /\ attempts[j] <= Retries
  <2>1. r.report = report /\ r.status = v.status /\ r.config = config
    BY DEF Record
  <2>2. back => r.status \in {"failed", "timeout"} /\ attempts[j] <= Retries
    BY DEF MayRetry
  <2>3. CASE pc = "committed"
    <3>1. report = reports[j] /\ report # None /\ ~back
      BY <1>6, <2>3
    <3> QED
      BY <2>1, <3>1
  <2>4. CASE pc = "settle"
    <3>1. report = None /\ (v.status \in {"completed", "skipped"} => j \notin Produces)
      BY <1>7, <2>4
    <3> QED
      BY <2>1, <2>2, <3>1
  <2> QED
    BY <1>1, <2>3, <2>4
<1> HIDE DEF r, back
<1>9. /\ IsInjective(pending')
      /\ Range(pending') = Range(pending) \cup (IF back THEN {j} ELSE {})
  <2>1. pending \in Seq(Jobs) /\ IsInjective(pending) /\ j \notin Range(pending)
    BY <1>3 DEF IInv, TypeOK, Places, Queued
  <2>2. pending' = Requeued(pending, j, r, attempts[j]) /\ (back <=> MayRetry(r, attempts[j]))
    BY <1>4 DEF r, back
  <2> QED
    BY <2>1, <2>2, QueueAfterSettling
<1>10. /\ Planned' = Planned
       /\ \A k \in Jobs : k # j => child'[k] = child[k]
       /\ child'[j] = NoChild
       /\ \A k \in Jobs : records'[k] = IF k = j THEN r ELSE records[k]
       /\ \A k : Directory!Done(k)' = Directory!Done(k)
       /\ \A k : Directory!Verified(k)' = Directory!Verified(k)
  BY <1>4, <1>5 DEF Planned, Directory!Done, Directory!Verified, IInv, TypeOK, r
<1>11. /\ \A k \in Jobs : Busy(k)' <=> Busy(k) /\ k # j
       /\ Queued(j)' <=> back
       /\ \A k \in Jobs : k # j => (Queued(k)' <=> Queued(k))
       /\ Active' = Active \ {j}
  <2>1. \A k \in Jobs : Busy(k)' <=> Busy(k) /\ k # j
    BY <1>10 DEF Busy, NoChild
  <2>2. (Queued(j)' <=> back) /\ \A k \in Jobs : k # j => (Queued(k)' <=> Queued(k))
    <3>1. CASE back
      BY <1>9, <3>1 DEF Queued
    <3>2. CASE ~back
      BY <1>3, <1>9, <3>2 DEF Queued
    <3> QED
      BY <3>1, <3>2
  <2>3. Active' = Active \ {j}
    BY <1>10 DEF Active, NoChild
  <2> QED
    BY <2>1, <2>2, <2>3
<1>12. Quiet' /\ Committed' /\ Judged'
  BY <1>5 DEF Quiet, Committed, Judged
<1>13. Places'
  <2>1. IsInjective(pending') /\ IsInjective(finished') /\ Range(pending') \subseteq Planned'
    BY <1>3, <1>5, <1>9, <1>10 DEF IInv, Places
  <2>2. ASSUME NEW k \in Jobs
        PROVE  /\ Busy(k)' => k \in Planned' /\ ~Queued(k)' /\ k \notin presumed'
               /\ child'[k].life = "finished" <=> k \in Range(finished')
               /\ Queued(k)' => attempts'[k] <= Retries
               /\ attempts'[k] <= 1 + Retries
    <3>1. CASE k = j
      <4>1. ~Busy(k)' /\ child'[k].life = "none" /\ k \notin Range(finished')
        BY <1>3, <1>5, <1>10, <1>11, <3>1 DEF NoChild
      <4>2. Queued(k)' => attempts'[k] <= Retries
        BY <1>5, <1>8, <1>11, <3>1
      <4>3. attempts'[k] <= 1 + Retries
        BY <1>3, <1>5, <3>1
      <4> QED
        BY <4>1, <4>2, <4>3
    <3>2. CASE k # j
      BY <1>3, <1>5, <1>10, <1>11, <3>2 DEF IInv, Places
    <3> QED
      BY <3>1, <3>2
  <2> QED
    BY <2>1, <2>2 DEF Places
<1>14. Answers'
  BY <1>10 DEF IInv, Answers, NoChild
<1>15. Standing'
  BY <1>5, <1>10 DEF IInv, Standing
<1>16. Kept'
  <2> SUFFICES ASSUME NEW k \in Jobs
               PROVE  /\ records'[k].report \in {None, reports'[k]}
                      /\ records'[k].config \in {None, config'}
                      /\ Busy(k)' \/ Queued(k)' =>
                            /\ records'[k].report = None
                            /\ records'[k].status \in {"absent", "failed", "timeout"}
                      /\ k \in Produces /\ records'[k].status \in {"completed", "skipped"} =>
                            records'[k].report # None
                      /\ k \notin Planned' => records'[k] = Absent
    BY DEF Kept
  <2>1. CASE k = j
    BY <1>3, <1>5, <1>8, <1>10, <1>11, <2>1
  <2>2. CASE k # j
    BY <1>5, <1>10, <1>11, <2>2 DEF IInv, Kept
  <2> QED
    BY <2>1, <2>2
<1>17. Prior'
  <2>1. Planned \subseteq Jobs /\ pc \in Running
    BY <1>1, PlannedJobs DEF IInv, Running
  <2>2. ASSUME NEW k \in Planned, Queued(k)' \/ Busy(k)' PROVE Queued(k) \/ Busy(k)
    BY <1>3, <1>11, <2>1, <2>2
  <2> QED
    BY <1>5, <1>10, <2>1, <2>2 DEF IInv, Prior
<1>18. Stage'
  <2>1. finished' # <<>> <=> Len(finished) # 1
    <3>1. finished \in Seq(Jobs)
      BY DEF IInv, TypeOK
    <3>2. Tail(finished) \in Seq(Jobs) /\ Len(Tail(finished)) = Len(finished) - 1
      BY <1>1, <3>1
    <3>3. \A s \in Seq(Jobs) : s = <<>> <=> Len(s) = 0
      OBVIOUS
    <3>4. Len(finished) \in Nat
      BY <3>1
    <3>5. Tail(finished) = <<>> <=> Len(Tail(finished)) = 0
      BY <3>2, <3>3
    <3>6. Len(Tail(finished)) = 0 <=> Len(finished) = 1
      BY <3>2, <3>4
    <3>7. finished' = Tail(finished)
      BY <1>5
    <3> QED
      BY <3>5, <3>6, <3>7
  <2> QED
    BY <1>1, <1>5, <1>10, <1>11, <2>1 DEF IInv, Stage
<1> QED
  BY <1>12, <1>13, <1>14, <1>15, <1>16, <1>17, <1>18 DEF IInv

LEMMA SweepDoneStep ==
    ASSUME IInv, TypeOK', SweepDone
    PROVE  IInv'
<1>1. /\ pc = "sweep" /\ pc' = "closing" /\ pending = <<>> /\ finished = <<>> /\ Active = {}
      /\ UNCHANGED <<reports, index, runs, resume, plan, config, presumed, pending, attempts,
                    child, finished, outcome, aborted>>
  BY DEF IInv, Stage, SweepDone, disk, setting, flags
<1>2. \A j \in Jobs :
        \/ records'[j] = records[j]
        \/ /\ j \in Planned /\ records[j] = Absent
           /\ records'[j] = Record("failed", "interrupted", attempts[j], None)
  BY DEF SweepDone
<1>3. /\ Planned' = Planned /\ Active' = Active
      /\ \A k : (Busy(k)' = Busy(k)) /\ (Queued(k)' = Queued(k))
      /\ \A k : Directory!Done(k)' = Directory!Done(k)
      /\ \A k : Directory!Verified(k)' = Directory!Verified(k)
  BY <1>1 DEF Planned, Busy, Queued, Directory!Done, Directory!Verified, Active
<1>4. Quiet' /\ Committed' /\ Judged'
  BY <1>1 DEF Quiet, Committed, Judged
<1>5. Places' /\ Answers' /\ Standing'
  BY <1>1, <1>3 DEF IInv, Places, Answers, Standing
<1>6. Kept'
  <2> SUFFICES ASSUME NEW k \in Jobs
               PROVE  /\ records'[k].report \in {None, reports'[k]}
                      /\ records'[k].config \in {None, config'}
                      /\ Busy(k)' \/ Queued(k)' =>
                            /\ records'[k].report = None
                            /\ records'[k].status \in {"absent", "failed", "timeout"}
                      /\ k \in Produces /\ records'[k].status \in {"completed", "skipped"} =>
                            records'[k].report # None
                      /\ k \notin Planned' => records'[k] = Absent
    BY DEF Kept
  <2>1. CASE records'[k] = records[k]
    BY <1>1, <1>3, <2>1 DEF IInv, Kept
  <2>2. CASE /\ k \in Planned
             /\ records'[k] = Record("failed", "interrupted", attempts[k], None)
    BY <1>1, <1>3, <2>2 DEF Record
  <2> QED
    BY <1>2, <2>1, <2>2
<1>7. Prior'
  <2>1. Planned \subseteq Jobs
    BY PlannedJobs DEF IInv
  <2> QED
    BY <1>1, <1>3, <2>1 DEF IInv, Prior, Running
<1>8. Stage'
  BY <1>1, <1>3 DEF IInv, Stage
<1> QED
  BY <1>4, <1>5, <1>6, <1>7, <1>8 DEF IInv

\* A new index is published over reports that are on disk as it names them.
LEMMA PublishStep ==
    ASSUME IInv, TypeOK', Publish
    PROVE  IInv' /\ Directory!Publish
<1>1. /\ pc = "publish" /\ index' = [status |-> outcome, jobs |-> records]
      /\ UNCHANGED <<reports, identity>>
  BY DEF Publish
<1>2. outcome \in RunStatuses /\ records \in [Jobs -> Records] /\ Planned \subseteq Jobs
  BY <1>1, PlannedJobs DEF IInv, Judged, TypeOK
<1>3. index' # NoIndex
  BY <1>1, <1>2 DEF Indexes
<1>4. Directory!Truthful(index', reports)
  <2>1. \A j \in Jobs : index'.jobs[j].report \in {None, reports[j]}
    BY <1>1 DEF IInv, Kept
  <2>2. \A j \in Produces :
            index'.jobs[j].status \in {"completed", "skipped"} => index'.jobs[j].report # None
    BY <1>1 DEF IInv, Kept
  <2>3. index'.status = "complete" =>
            \A j \in Jobs : index'.jobs[j].status \in {"completed", "skipped", "absent"}
    BY <1>1 DEF IInv, Kept, Judged, Absent
  <2> QED
    BY <2>1, <2>2, <2>3 DEF Directory!Truthful
<1>5. \A j \in Jobs :
        Directory!Done(j) => index'.jobs[j].config \in {None, index.jobs[j].config}
  <2> SUFFICES ASSUME NEW j \in Jobs, Directory!Done(j)
               PROVE  records[j].config \in {None, index.jobs[j].config}
    BY <1>1
  <2>1. CASE j \in Planned
    BY <1>1, <2>1 DEF IInv, Prior, Kept, Running
  <2>2. CASE j \notin Planned
    BY <2>2 DEF IInv, Kept, Absent
  <2> QED
    BY <2>1, <2>2
<1>6. Directory!Publish
  BY <1>1, <1>3, <1>4, <1>5 DEF Directory!Publish
<1>7. Standing'
  BY <1>1 DEF IInv, Kept, Standing
<1>8. CASE aborted
  BY <1>6, <1>7, <1>8, ForgetStep DEF Publish
<1>9. CASE ~aborted
  <2>1. /\ pc' = "identity"
        /\ UNCHANGED <<runs, resume, plan, config, presumed, pending, attempts, child, records,
                      finished, outcome, aborted>>
    BY <1>9 DEF Publish, setting, work, flags
  <2>2. Planned' = Planned /\ \A k : (Busy(k)' = Busy(k)) /\ (Queued(k)' = Queued(k))
    BY <2>1 DEF Planned, Busy, Queued
  <2>3. Quiet' /\ Committed' /\ Prior'
    BY <2>1 DEF Quiet, Committed, Prior, Running
  <2>4. Places' /\ Answers' /\ Kept'
    BY <1>1, <2>1, <2>2 DEF IInv, Places, Answers, Kept
  <2>5. Judged'
    BY <1>1, <1>3, <2>1 DEF IInv, Kept, Judged
  <2>6. Stage'
    BY <1>1, <2>1, <2>2 DEF IInv, Stage
  <2> QED
    BY <1>6, <1>7, <2>3, <2>4, <2>5, <2>6 DEF IInv
<1> QED
  BY <1>8, <1>9

LEMMA EndSteps ==
    ASSUME IInv, TypeOK',
           Refuse \/ RefuseConfig \/ PublishIdentity \/ Killed \/ ClosingFails
    PROVE  IInv' /\ UNCHANGED <<reports, index>> /\ Forget
<1>1. Forget /\ UNCHANGED <<reports, index>>
  BY DEF Refuse, RefuseConfig, PublishIdentity, Killed, ClosingFails, disk
<1>2. Standing'
  BY <1>1 DEF IInv, Standing, Directory!Done
<1> QED
  BY <1>1, <1>2, ForgetStep

(***************************************************************************)
(* The invariant.                                                          *)
(***************************************************************************)

LEMMA Initially ==
    ASSUME Init
    PROVE  IInv
<1>1. TypeOK
  <2>1. <<>> \in Seq(Jobs) /\ 0 \in 0..MaxRuns
    OBVIOUS
  <2>2. /\ reports \in [Jobs -> Contents \cup {None}] /\ attempts \in [Jobs -> Nat]
        /\ child \in [Jobs -> Children] /\ records \in [Jobs -> Records]
    BY ConstantTypes DEF Init
  <2> QED
    BY <2>1, <2>2 DEF Init, TypeOK
<1>2. \A j \in Jobs : child[j] = NoChild /\ records[j] = Absent /\ attempts[j] = 0
  BY DEF Init, Fresh
<1>3. Quiet /\ Committed /\ Prior /\ Judged /\ Stage
  BY DEF Init, Quiet, Committed, Prior, Judged, Stage, Running
<1>4. Places
  BY <1>2, EmptyRange DEF Init, Places, Busy, Queued, NoChild, Planned
<1>5. Answers /\ Kept /\ Standing
  BY <1>2, EmptyRange DEF Init, Answers, Kept, Standing, Busy, Queued, NoChild, Absent,
         Directory!Done
<1> QED
  BY <1>1, <1>3, <1>4, <1>5 DEF IInv

LEMMA NextStep ==
    ASSUME IInv, Next
    PROVE  IInv'
<1>1. TypeOK'
  BY TypeStep
<1>2. ASSUME NEW j \in Jobs, NEW kind \in ChildFailures \cup {"none"},
             NEW c \in Contents \cup {None}, ChildExits(j, kind, c)
      PROVE  IInv'
  BY <1>1, <1>2, ChildExitsStep
<1>3. ASSUME NEW j \in Jobs, Reap(j) \/ \E cause \in Causes : Kill(j, cause)
      PROVE  IInv'
  BY <1>1, <1>3, ReapAndKillStep
<1> QED
  BY <1>1, <1>2, <1>3, QuietSteps, StartSteps, BeginStep, SkipAndSweepStep, SpawnStep,
     SpawnFailsStep, CommitStep, SettleStep, SweepDoneStep, PublishStep, EndSteps
     DEF Next, Parent

LEMMA StutterStep ==
    ASSUME IInv, UNCHANGED vars
    PROVE  IInv'
<1>1. UNCHANGED <<setting, work, reports, index, pc, identity>> /\ TypeOK'
  BY DEF vars, disk, left, setting, work, flags, IInv, TypeOK, Planned
<1>2. Places' /\ Answers' /\ Kept' /\ Prior' /\ Standing' /\ Planned' = Planned
      /\ Active' = Active
  BY <1>1, SameWork, SamePrior
<1>3. Quiet' /\ Committed' /\ Judged' /\ Stage'
  BY <1>2 DEF vars, disk, setting, work, flags, IInv, Quiet, Committed, Judged, Stage, HasReport
<1> QED
  BY <1>1, <1>2, <1>3 DEF IInv

THEOREM Invariant == Spec => []IInv
<1>1. IInv /\ [Next]_vars => IInv'
  BY NextStep, StutterStep
<1> QED
  BY <1>1, Initially, PTL DEF Spec

\* Every variable keeps its type, whatever fails.
THEOREM TypeCorrect == Spec => []TypeOK
<1>1. IInv => TypeOK
  BY DEF IInv
<1> QED
  BY <1>1, Invariant, PTL

\* A job is queued, tried or settled, never two of these at once; it is tried at
\* most once more than the limit says, and never again once it is settled.
THEOREM OneAttemptAtATime == Spec => []RetriesBounded
<1>1. IInv => RetriesBounded
  BY DEF IInv, Places, Kept, Busy, Queued, RetriesBounded
<1> QED
  BY <1>1, Invariant, PTL

(***************************************************************************)
(* The run directory keeps its promises.                                   *)
(***************************************************************************)

LEMMA DirectoryStep ==
    ASSUME IInv, Next
    PROVE  \/ Directory!Commit \/ Directory!Publish \/ Directory!Identify
           \/ UNCHANGED <<reports, index, identity>>
<1>1. TypeOK' /\ IInv'
  BY TypeStep, NextStep
<1>2. CASE CommitReport
  <2> DEFINE j == Head(finished)
  <2>1. ~Directory!Verified(j)
    BY <1>1, <1>2, CommitStep
  <2>2. finished # <<>>
    BY <1>2 DEF IInv, Stage, CommitReport
  <2>3. j \in Jobs /\ child[j].life = "finished" /\ child[j] \in Children
    BY <2>2, HeadOfBatch DEF IInv, TypeOK
  <2>4. child[j].report \in Contents
    BY <1>2, <2>3 DEF IInv, Answers, CommitReport, HasReport, Classify, StatusOf, Children
  <2>5. /\ reports' = [reports EXCEPT ![j] = child[j].report]
        /\ UNCHANGED <<index, identity>>
    BY <1>2 DEF CommitReport
  <2> HIDE DEF j
  <2> QED
    BY <2>1, <2>3, <2>4, <2>5 DEF Directory!Commit
<1>3. CASE Publish
  BY <1>1, <1>3, PublishStep
<1>4. CASE PublishIdentity
  <2>1. /\ identity' = config /\ UNCHANGED <<reports, index>> /\ pc = "identity"
    BY <1>4 DEF PublishIdentity
  <2>2. index # NoIndex /\ \A j \in Jobs : index.jobs[j].config \in {None, config}
    BY <2>1 DEF IInv, Judged
  <2> QED
    BY <2>1, <2>2 DEF Directory!Identify
<1>5. CASE ~(CommitReport \/ Publish \/ PublishIdentity)
  <2>1. ASSUME NEW j \in Jobs, NEW kind, NEW c, ChildExits(j, kind, c)
        PROVE  UNCHANGED <<reports, index, identity>>
    BY <2>1 DEF ChildExits, disk
  <2>2. ASSUME NEW j \in Jobs, Reap(j) \/ \E cause \in Causes : Kill(j, cause)
        PROVE  UNCHANGED <<reports, index, identity>>
    BY <2>2 DEF Reap, Kill, disk
  <2>3. ASSUME \/ \E r \in BOOLEAN : Construct(r)
               \/ \E p \in Plans, k \in Configs : SetUp(p, k)
               \/ Refuse \/ RefuseConfig \/ Begin \/ Killed \/ ClosingFails
        PROVE  UNCHANGED <<reports, index, identity>>
    BY <2>3 DEF Construct, SetUp, Refuse, RefuseConfig, Begin, Killed, ClosingFails, disk
  <2>4. ASSUME \/ SkipVerified \/ Spawn \/ SpawnFails \/ RefillDone \/ SettleHead
               \/ Sweep \/ SweepDone \/ Close \/ Cancel \/ DeadlinePasses
               \/ JournalFails \/ CommitFails
        PROVE  UNCHANGED <<reports, index, identity>>
    BY <2>4 DEF SkipVerified, Spawn, SpawnFails, RefillDone, SettleHead, Sweep, SweepDone,
               Close, Cancel, DeadlinePasses, JournalFails, CommitFails, disk
  <2> QED
    BY <1>5, <2>1, <2>2, <2>3, <2>4 DEF Next, Parent
<1> QED
  BY <1>2, <1>3, <1>4, <1>5

\* Whatever crashes or fails, and however often a directory is resumed: its
\* index only names reports that are on disk, and no report it vouches for is
\* rewritten or passed off as the work of another configuration.
THEOREM DirectoryKept == Spec => KeepsPromises
<1>1. Init => Directory!DirInit
  BY DEF Init, Fresh, Directory!DirInit
<1>2. IInv /\ [Next]_vars =>
        [Directory!Commit \/ Directory!Publish \/ Directory!Identify]_(Directory!dirVars)
  <2>1. ASSUME IInv, UNCHANGED vars PROVE UNCHANGED Directory!dirVars
    BY <2>1 DEF vars, disk, Directory!dirVars
  <2> QED
    BY <2>1, DirectoryStep DEF Directory!dirVars
<1> QED
  BY <1>1, <1>2, Invariant, PTL DEF Spec, KeepsPromises, Directory!DirSpec

(***************************************************************************)
(* No job is dropped, as long as reports and journal can be written.       *)
(***************************************************************************)

Recorded(j) == records[j].status \in Statuses /\ records[j].kind # "interrupted"

\* A planned job is waiting, being tried or recorded, and at last recorded.
Accounted ==
    /\ ~aborted
    /\ pc \in Running =>
        \A j \in Planned :
            \/ Recorded(j)
            \/ (Queued(j) \/ Busy(j)) /\ pc \notin {"closing", "publish"}

\* Jobs that are touched by no step keep their place.
LEMMA AccountedStep ==
    ASSUME IInv, Accounted, Next, Faults \cap {"write_io", "journal_io"} = {}
    PROVE  Accounted'
<1>1. IInv' /\ Planned \subseteq Jobs /\ Planned' \subseteq Jobs
  <2>1. IInv' /\ TypeOK'
    BY NextStep, TypeStep
  <2>2. Planned' \subseteq Jobs
    BY <2>1, EmptyRange DEF TypeOK, Planned, Range
  <2> QED
    BY <2>1, <2>2, PlannedJobs DEF IInv
<1>2. ~JournalFails /\ ~CommitFails
  BY DEF JournalFails, CommitFails
<1>3. CASE Refuse \/ RefuseConfig \/ PublishIdentity \/ Killed \/ ClosingFails
  <2>1. Forget
    BY <1>3 DEF Refuse, RefuseConfig, PublishIdentity, Killed, ClosingFails
  <2> QED
    BY <2>1 DEF Forget, Accounted, Running
<1>4. CASE \/ \E r \in BOOLEAN : Construct(r)
           \/ \E p \in Plans, k \in Configs : SetUp(p, k)
  BY <1>4 DEF Construct, SetUp, Accounted, flags, Running
<1>5. CASE Begin
  <2>1. \A j \in Planned' : Queued(j)'
    BY <1>5 DEF Begin, Queued, Planned
  <2> QED
    BY <1>5, <2>1 DEF Begin, Accounted
<1>6. CASE RefillDone \/ Close \/ Cancel \/ DeadlinePasses
  <2>1. /\ UNCHANGED <<setting, work, aborted>>
        /\ \/ pc \in {"refill", "closing"} /\ pc' # "closing" /\ (pc' = "publish" => pc = "closing")
           \/ pc' = pc
    BY <1>6 DEF RefillDone, Close, Cancel, DeadlinePasses, flags
  <2>2. /\ Planned' = Planned
        /\ \A k : (Busy(k)' = Busy(k)) /\ (Queued(k)' = Queued(k)) /\ (Recorded(k)' = Recorded(k))
    BY <2>1 DEF setting, work, Planned, Busy, Queued, Recorded
  <2> QED
    BY <2>1, <2>2 DEF Accounted, Running
<1>7. CASE SkipVerified \/ Sweep
  <2>1. PICK j \in Jobs : j = Head(pending)
    BY <1>7, HeadOfQueue DEF SkipVerified, Sweep, MayStart
  <2>2. /\ pending # <<>> /\ pending' = Tail(pending) /\ pc' = pc /\ pc \in {"refill", "sweep"}
        /\ UNCHANGED <<plan, child, aborted>>
    BY <1>7 DEF SkipVerified, Sweep, MayStart, setting, flags
  <2>6. PICK r : /\ records' = [records EXCEPT ![j] = r]
                 /\ r.status \in Statuses /\ r.kind # "interrupted"
    <3> DEFINE skipped == Record("skipped", "none", 0, index.jobs[j].report)
    <3>1. skipped.status \in Statuses /\ skipped.kind # "interrupted"
      BY DEF Record, Statuses
    <3>2. SweepRecord(j).status \in Statuses /\ SweepRecord(j).kind # "interrupted"
      BY DEF SweepRecord, Record, Statuses
    <3> HIDE DEF skipped
    <3>3. CASE SkipVerified
      <4>1. records' = [records EXCEPT ![j] = skipped]
        BY <2>1, <3>3 DEF SkipVerified, Note, skipped
      <4> QED
        BY <3>1, <4>1
    <3>4. CASE Sweep
      <4>1. records' = [records EXCEPT ![j] = SweepRecord(j)]
        BY <2>1, <3>4 DEF Sweep, Note
      <4> QED
        BY <3>2, <4>1
    <3> QED
      BY <1>7, <3>3, <3>4
  <2>3. Range(Tail(pending)) = Range(pending) \ {j}
    BY <2>1, <2>2, HeadOfQueue
  <2>4. Recorded(j)' /\ \A k \in Jobs : k # j => (Recorded(k)' <=> Recorded(k))
    BY <2>6 DEF Recorded, IInv, TypeOK
  <2>5. /\ Planned' = Planned /\ \A k : Busy(k)' = Busy(k)
        /\ \A k : k # j => (Queued(k)' <=> Queued(k))
    BY <2>2, <2>3 DEF Planned, Busy, Queued
  <2> QED
    BY <1>1, <2>2, <2>4, <2>5 DEF Accounted, Running
<1>8. CASE Spawn \/ SpawnFails
  <2>1. PICK j \in Jobs : j = Head(pending)
    BY <1>8, HeadOfQueue DEF Spawn, SpawnFails, MayStart
  <2>2. /\ pending # <<>> /\ pc' = pc /\ pc = "refill" /\ UNCHANGED <<plan, aborted>>
        /\ Range(Tail(pending)) = Range(pending) \ {j} /\ j \notin Range(Tail(pending))
        /\ Tail(pending) \in Seq(Jobs) /\ IsInjective(Tail(pending))
    BY <1>8, <2>1, HeadOfQueue DEF Spawn, SpawnFails, MayStart, setting, flags
  <2>3. CASE Spawn
    <3>1. /\ pending' = Tail(pending) /\ UNCHANGED records
          /\ child' = [child EXCEPT ![j] = [NoChild EXCEPT !.life = "alive"]]
      BY <2>1, <2>3 DEF Spawn
    <3>2. Busy(j)' /\ \A k \in Jobs : Busy(k) => Busy(k)'
      BY <3>1 DEF Busy, NoChild, IInv, TypeOK
    <3>3. \A k : (Recorded(k)' = Recorded(k)) /\ (k # j /\ Queued(k) => Queued(k)')
      BY <2>2, <3>1 DEF Recorded, Queued
    <3> QED
      BY <1>1, <2>2, <3>2, <3>3 DEF Accounted, Running, Planned
  <2>4. CASE SpawnFails
    <3>1. PICK r, n :
            /\ pending' = Requeued(Tail(pending), j, r, n) /\ UNCHANGED child
            /\ records' = [records EXCEPT ![j] = r]
            /\ r.status \in Statuses /\ r.kind # "interrupted"
      <4> DEFINE n == attempts[j] + 1
                 r == Record("failed", "spawn_error", n, None)
      <4>1. r.status \in Statuses /\ r.kind # "interrupted"
        BY DEF Record, Statuses
      <4>2. /\ pending' = Requeued(Tail(pending), j, r, n) /\ UNCHANGED child
            /\ records' = [records EXCEPT ![j] = r]
        BY <2>1, <2>4 DEF SpawnFails, Note
      <4> HIDE DEF r, n
      <4> QED
        BY <4>1, <4>2
    <3>2. Recorded(j)' /\ \A k \in Jobs : k # j => (Recorded(k)' <=> Recorded(k))
      BY <3>1 DEF Recorded, IInv, TypeOK
    <3>3. Range(Tail(pending)) \subseteq Range(pending')
      <4> DEFINE q == Tail(pending)
      <4>1. q \in Seq(Jobs) /\ j \notin Range(q) /\ IsInjective(q)
        BY <2>2
      <4>2. pending' = Requeued(q, j, r, n)
        BY <3>1
      <4> HIDE DEF q
      <4>3. Range(q) \subseteq Range(Requeued(q, j, r, n))
        BY <4>1, QueueAfterSettling
      <4> QED
        BY <4>2, <4>3 DEF q
    <3>4. \A k : k # j /\ Queued(k) => Queued(k)'
      BY <2>2, <3>3 DEF Queued
    <3> QED
      BY <1>1, <2>2, <3>1, <3>2, <3>4 DEF Accounted, Running, Planned, Busy
  <2> QED
    BY <1>8, <2>3, <2>4
<1>9. ASSUME NEW j \in Jobs, NEW kind, NEW c, ChildExits(j, kind, c)
      PROVE  Accounted'
  <2>1. UNCHANGED <<pc, pending, plan, records, aborted>> /\ \A k \in Jobs : Busy(k) => Busy(k)'
    BY <1>9 DEF ChildExits, Busy, setting, flags, IInv, TypeOK
  <2> QED
    BY <1>1, <2>1 DEF Accounted, Recorded, Queued, Planned
<1>10. ASSUME NEW j \in Jobs, Reap(j) \/ \E cause \in Causes : Kill(j, cause)
       PROVE  Accounted'
  <2>1. /\ pc = "poll" /\ pc' \in {"poll", "settle"} /\ UNCHANGED <<pending, plan, records, aborted>>
        /\ \A k \in Jobs : Busy(k) => Busy(k)'
    <3>1. child[j] \in Children /\ child \in [Jobs -> Children]
      BY DEF IInv, TypeOK
    <3>2. \E c \in Children : c.life = "finished" /\ child' = [child EXCEPT ![j] = c]
      <4>1. CASE Reap(j)
        BY <3>1, <4>1 DEF Reap, Children
      <4>2. ASSUME NEW cause \in Causes, Kill(j, cause)
            PROVE  \E c \in Children : c.life = "finished" /\ child' = [child EXCEPT ![j] = c]
        <5> DEFINE c == [child[j] EXCEPT !.life = "finished", !.cause = cause]
        <5>1. c \in Children
          BY <3>1, Zenon DEF Children
        <5>2. c.life = "finished"
          BY <3>1 DEF Children
        <5>3. child' = [child EXCEPT ![j] = c]
          BY <4>2, <3>1 DEF Kill
        <5> QED
          BY <5>1, <5>2, <5>3
      <4> QED
        BY <1>10, <4>1, <4>2
    <3>3. \A k \in Jobs : Busy(k) => Busy(k)'
      BY <3>1, <3>2 DEF Busy
    <3> QED
      BY <1>10, <3>3 DEF Reap, Kill, Reaped, setting, flags
  <2> QED
    BY <1>1, <2>1 DEF Accounted, Recorded, Queued, Planned, Running
<1>11. CASE CommitReport
  BY <1>11 DEF CommitReport, Accounted, Recorded, Queued, Busy, Planned, Running, setting, work,
               flags
<1>12. CASE SettleHead
  <2>1. finished # <<>> /\ pc \in {"settle", "committed"} /\ pc' \in {"settle", "refill"}
        /\ UNCHANGED <<plan, aborted>>
    BY <1>12 DEF SettleHead, setting, flags
  <2>2. PICK j \in Jobs : j = Head(finished) /\ ~Queued(j)
    BY <2>1, HeadOfBatch
  <2>3. PICK v \in Verdicts(j), report \in {child[j].report, None} :
          /\ records' = [records EXCEPT ![j] = Record(v.status, v.kind, attempts[j], report)]
          /\ pending' = Requeued(pending, j, Record(v.status, v.kind, attempts[j], report),
                                 attempts[j])
          /\ child' = [child EXCEPT ![j] = NoChild]
    BY <1>12, <2>2 DEF SettleHead, Note
  <2>4. v.status \in Statuses /\ v.kind # "interrupted"
    <3>1. child[j] \in Children
      BY DEF IInv, TypeOK
    <3> QED
      BY <3>1, VerdictTypes DEF Verdicts, Classify, Children, ReapedKinds, Causes, BoundKinds,
                                Statuses
  <2>5. Recorded(j)' /\ \A k \in Jobs : k # j => (Recorded(k)' <=> Recorded(k))
    BY <2>3, <2>4 DEF Recorded, Record, IInv, TypeOK
  <2>6. Range(pending) \subseteq Range(pending')
    BY <2>2, <2>3, QueueAfterSettling DEF IInv, TypeOK, Places, Queued
  <2>7. \A k \in Jobs : k # j /\ (Queued(k) \/ Busy(k)) => Queued(k)' \/ Busy(k)'
    BY <2>3, <2>6 DEF Queued, Busy, IInv, TypeOK
  <2> QED
    BY <1>1, <2>1, <2>5, <2>7 DEF Accounted, Running, Planned
<1>13. CASE SweepDone
  <2>1. /\ pc = "sweep" /\ pending = <<>> /\ UNCHANGED <<plan, aborted>>
    BY <1>13 DEF SweepDone, setting, flags
  <2>2. \A j \in Jobs : ~Busy(j) /\ ~Queued(j)
    BY <2>1, EmptyRange DEF IInv, Stage, Places, Busy, Queued, Active, TypeOK, Children
  <2>3. \A j \in Planned : Recorded(j)
    BY <1>1, <2>1, <2>2 DEF Accounted, Running
  <2>4. \A j \in Planned : Recorded(j)'
    BY <1>1, <1>13, <2>3 DEF SweepDone, Recorded, Absent, Statuses
  <2> QED
    BY <2>1, <2>4 DEF Accounted, Planned
<1>14. CASE Publish
  <2>1. pc' \in {"identity", "idle"} /\ ~aborted'
    BY <1>14 DEF Publish, Forget, Accounted, flags
  <2> QED
    BY <2>1 DEF Accounted, Running
<1> QED
  BY <1>2, <1>3, <1>4, <1>5, <1>6, <1>7, <1>8, <1>9, <1>10, <1>11, <1>12, <1>13, <1>14
     DEF Next, Parent

\* Without I/O errors, whatever is killed, times out, is cancelled or crashes:
\* the index of a run tells of every job it was given, by its own account.
THEOREM NoJobDropped ==
    ASSUME Faults \cap {"write_io", "journal_io"} = {}
    PROVE  Spec => []IndexCoversPlan
<1>1. Init => Accounted
  BY DEF Init, Accounted, Running
<1>2. IInv /\ Accounted /\ [Next]_vars => Accounted'
  <2>1. ASSUME Accounted, UNCHANGED vars PROVE Accounted'
    BY <2>1 DEF vars, setting, work, flags, Accounted, Recorded, Queued, Busy, Planned
  <2> QED
    BY <2>1, AccountedStep
<1>3. Accounted => IndexCoversPlan
  BY DEF Accounted, Recorded, IndexCoversPlan, Running
<1> QED
  BY <1>1, <1>2, <1>3, Invariant, PTL DEF Spec

(***************************************************************************)
(* No process is left behind, as long as the parent lives and can write.   *)
(***************************************************************************)

Contained ==
    /\ orphans = {} /\ Cardinality(Active) <= Slots
    /\ pc \in {"closing", "publish", "identity"} => Active = {}

LEMMA ContainedStep ==
    ASSUME IInv, Contained, Next,
           Faults \cap {"kill", "write_io", "journal_io", "unreapable"} = {}
    PROVE  Contained'
<1>1. IsFiniteSet(Active) /\ Cardinality(Active) \in Nat
  BY FS_Subset, FS_CardinalityType DEF Active
<1>2. ASSUME Active' \subseteq Active PROVE Cardinality(Active') <= Slots
  <2>1. Cardinality(Active') \in Nat /\ Cardinality(Active') <= Cardinality(Active)
    BY <1>1, <1>2, FS_Subset, FS_CardinalityType
  <2> QED
    BY <1>1, <2>1 DEF Contained
<1>3. CASE Spawn
  <2>1. PICK j \in Jobs : child' = [child EXCEPT ![j] = [NoChild EXCEPT !.life = "alive"]]
    BY <1>3, HeadOfQueue DEF Spawn, MayStart
  <2>2. Active' = Active \cup {j}
    BY <2>1 DEF Active, NoChild, IInv, TypeOK
  <2>3. Cardinality(Active') <= Cardinality(Active) + 1 /\ Cardinality(Active') \in Nat
    <3>1. Cardinality(Active \cup {j}) \in {Cardinality(Active), Cardinality(Active) + 1}
      BY <1>1, FS_AddElement
    <3> QED
      BY <1>1, <2>2, <3>1
  <2>4. Cardinality(Active) < Slots
    BY <1>3 DEF Spawn, MayStart
  <2>5. Cardinality(Active') <= Slots
    BY <1>1, <2>3, <2>4
  <2>6. pc' = "refill" /\ UNCHANGED orphans
    BY <1>3 DEF Spawn, MayStart, left
  <2> QED
    BY <2>5, <2>6 DEF Contained
<1>4. ASSUME UNCHANGED child PROVE Active' = Active
  BY <1>4 DEF Active
<1>5. CASE \/ \E r \in BOOLEAN : Construct(r)
           \/ \E p \in Plans, k \in Configs : SetUp(p, k)
           \/ Begin \/ SkipVerified \/ RefillDone \/ CommitReport \/ Sweep
           \/ Cancel \/ DeadlinePasses \/ SpawnFails \/ Close
  <2>1. UNCHANGED <<child, orphans>>
    BY <1>5 DEF Construct, SetUp, Begin, SkipVerified, RefillDone, CommitReport, Sweep,
               Cancel, DeadlinePasses, SpawnFails, Close, work, left
  <2>2. pc' \in {"closing", "publish", "identity"} => pc \in {"closing", "publish", "identity"}
    BY <1>5 DEF Construct, SetUp, Begin, SkipVerified, RefillDone, CommitReport, Sweep,
               Cancel, DeadlinePasses, SpawnFails, Close
  <2> QED
    BY <1>4, <2>1, <2>2 DEF Contained
<1>6. CASE SweepDone
  <2>1. UNCHANGED <<child, orphans>> /\ Active = {}
    BY <1>6 DEF IInv, Stage, SweepDone, left
  <2> QED
    BY <1>4, <2>1 DEF Contained
<1>7. ASSUME NEW j \in Jobs, NEW kind, NEW c, ChildExits(j, kind, c)
      PROVE  Contained'
  <2>1. Active' = Active /\ UNCHANGED <<pc, orphans>>
    <3>1. /\ child[j].life = "alive" /\ child'[j].life = "exited"
          /\ \A k \in Jobs : k # j => child'[k] = child[k]
      <4>1. child[j] \in Children /\ child \in [Jobs -> Children]
        BY DEF IInv, TypeOK
      <4> QED
        BY <1>7, <4>1 DEF ChildExits, Children
    <3> QED
      BY <1>7, <3>1 DEF Active, ChildExits, left
  <2> QED
    BY <2>1 DEF Contained
<1>8. ASSUME NEW j \in Jobs, Reap(j) \/ \E cause \in Causes : Kill(j, cause)
      PROVE  Contained'
  <2>1. pc' \in {"poll", "settle"} /\ UNCHANGED orphans
    BY <1>8 DEF Reap, Kill, Reaped, EndProcess, EndGroup, Strays, left
  <2>2. \A k \in Jobs : k # j => child'[k] = child[k]
    BY <1>8 DEF Reap, Kill, IInv, TypeOK
  <2>3. j \in Active
    BY <1>8 DEF Reap, Kill, Active
  <2>4. Active' \subseteq Active
    BY <2>2, <2>3 DEF Active
  <2> QED
    BY <1>2, <2>1, <2>4 DEF Contained
<1>9. CASE SettleHead
  <2>1. \A k \in Jobs : child'[k] = child[k] \/ child'[k] = NoChild
    BY <1>9 DEF SettleHead, IInv, TypeOK
  <2>2. Active' \subseteq Active
    BY <2>1 DEF Active, NoChild
  <2> QED
    BY <1>2, <1>9, <2>2 DEF SettleHead, Contained, left
<1>10. ASSUME Forget, UNCHANGED orphans PROVE Contained'
  <2>1. Active' = {} /\ pc' = "idle"
    BY <1>10 DEF Forget, Fresh, NoChild, Active
  <2> QED
    BY <1>2, <1>10, <2>1 DEF Contained
<1>11. CASE Refuse \/ RefuseConfig \/ PublishIdentity \/ ClosingFails
  BY <1>10, <1>11 DEF Refuse, RefuseConfig, PublishIdentity, ClosingFails
<1>12. ~Killed /\ ~JournalFails /\ ~CommitFails
  BY DEF Killed, JournalFails, CommitFails
<1>13. CASE Publish
  <2>1. CASE aborted
    BY <1>10, <1>13, <2>1 DEF Publish
  <2>2. CASE ~aborted
    <3>1. UNCHANGED <<child, orphans>> /\ pc = "publish" /\ pc' = "identity"
      BY <1>13, <2>2 DEF Publish, work, left
    <3> QED
      BY <1>4, <3>1 DEF Contained
  <2> QED
    BY <2>1, <2>2
<1> QED
  BY <1>3, <1>5, <1>6, <1>7, <1>8, <1>9, <1>11, <1>12, <1>13 DEF Next, Parent

\* Why a job of a run that is not cancelled may have a descendant left: it was
\* retried, or its only attempt was cut short and has not completed.
Cut(j) ==
    \/ attempts[j] > 1
    \/ attempts[j] = 1 /\ child[j].life = "finished" /\ child[j].cause # "none"
    \/ attempts[j] = 1 /\ ~Busy(j) /\ records[j].status # "completed"

Told ==
    /\ pc \in {"idle", "claimed", "ready"} => strays = {}
    /\ pc \in {"closing", "publish", "identity"} => finished = <<>>
    /\ \A j \in Jobs : Busy(j) => attempts[j] >= 1
    /\ ~cancel => \A j \in strays : Cut(j)

LEMMA ToldStep ==
    ASSUME IInv, Told, Next,
           Faults \cap {"kill", "write_io", "journal_io", "unreapable"} = {}
    PROVE  Told'
<1>1. /\ strays \subseteq Jobs /\ attempts \in [Jobs -> Nat]
      /\ child \in [Jobs -> Children] /\ records \in [Jobs -> Records]
  BY DEF IInv, TypeOK
<1>2. ASSUME Forget PROVE Told'
  BY <1>2 DEF Forget, Told, Busy, Fresh, NoChild
<1>3. CASE Refuse \/ RefuseConfig \/ PublishIdentity \/ ClosingFails
  BY <1>2, <1>3 DEF Refuse, RefuseConfig, PublishIdentity, ClosingFails
<1>4. ~Killed /\ ~JournalFails /\ ~CommitFails
  BY DEF Killed, JournalFails, CommitFails
<1>5. ASSUME UNCHANGED <<strays, attempts, child>>, cancel => cancel',
             \A j \in Jobs : records'[j].status = "completed" => records[j].status = "completed",
             pc' \in {"idle", "claimed", "ready"} => pc \in {"idle", "claimed", "ready"},
             pc' \in {"closing", "publish", "identity"} => finished' = <<>>
      PROVE  Told'
  BY <1>1, <1>5 DEF Told, Cut, Busy
<1>6. CASE \/ \E r \in BOOLEAN : Construct(r)
           \/ \E p \in Plans, k \in Configs : SetUp(p, k)
           \/ RefillDone \/ CommitReport \/ Cancel \/ DeadlinePasses \/ Close
  BY <1>1, <1>5, <1>6 DEF Construct, SetUp, RefillDone, CommitReport, Cancel,
     DeadlinePasses, Close, work, flags, left, Told, IInv, Stage
<1>7. CASE Begin
  <2>1. strays = {}
    BY <1>7 DEF Begin, Told
  <2> QED
    BY <1>1, <1>7, <2>1 DEF Begin, Told, Busy, left
<1>8. CASE SkipVerified \/ Sweep
  <2>1. /\ UNCHANGED <<strays, attempts, child, cancel, finished, pc>>
        /\ pc \in {"refill", "sweep"}
    BY <1>8 DEF SkipVerified, Sweep, MayStart, left, flags
  <2>2. \A j \in Jobs : records'[j].status = "completed" => records[j].status = "completed"
    <3>1. PICK j, r : records' = [records EXCEPT ![j] = r] /\ r.status # "completed"
      <4> DEFINE j == Head(pending)
      <4>1. CASE SkipVerified
        <5> DEFINE r == Record("skipped", "none", 0, index.jobs[j].report)
        <5>1. records' = [records EXCEPT ![j] = r]
          BY <4>1 DEF SkipVerified, Note
        <5>2. r.status # "completed"
          BY DEF Record
        <5> QED
          BY <5>1, <5>2
      <4>2. CASE Sweep
        <5>1. records' = [records EXCEPT ![j] = SweepRecord(j)]
          BY <4>2 DEF Sweep, Note
        <5>2. SweepRecord(j).status # "completed"
          BY DEF Record, SweepRecord
        <5> QED
          BY <5>1, <5>2
      <4> QED
        BY <1>8, <4>1, <4>2
    <3> QED
      BY <1>1, <3>1
  <2> QED
    BY <1>5, <2>1, <2>2 DEF Told
<1>9. CASE SweepDone
  <2>1. UNCHANGED <<strays, attempts, child, cancel, finished>> /\ finished = <<>> /\ pc' = "closing"
    BY <1>9 DEF SweepDone, IInv, Stage, left, flags
  <2>2. \A j \in Jobs : records'[j].status = "completed" => records[j].status = "completed"
    BY <1>1, <1>9 DEF SweepDone, Record
  <2> QED
    BY <1>5, <2>1, <2>2 DEF Told
<1>10. CASE Publish
  <2>1. CASE aborted
    BY <1>2, <1>10, <2>1 DEF Publish
  <2>2. CASE ~aborted
    BY <1>5, <1>10, <2>2 DEF Publish, work, flags, Told
  <2> QED
    BY <2>1, <2>2
<1>11. ASSUME NEW j \in Jobs, ~Busy(j), attempts' = [attempts EXCEPT ![j] = attempts[j] + 1],
              UNCHANGED <<strays, cancel, finished, pc>>, pc = "refill",
              \A k \in Jobs : k # j => child'[k] = child[k] /\ records'[k] = records[k]
       PROVE  Told'
  <2>1. attempts'[j] >= 1 /\ (j \in strays /\ ~cancel => attempts'[j] > 1)
    BY <1>1, <1>11 DEF Told, Cut
  <2>2. \A k \in Jobs : k # j => attempts'[k] = attempts[k]
    BY <1>1, <1>11
  <2>3. \A k \in Jobs : k # j => (Busy(k)' <=> Busy(k)) /\ (Cut(k) => Cut(k)')
    BY <1>11, <2>2 DEF Busy, Cut
  <2>4. \A k \in Jobs : Busy(k)' => attempts'[k] >= 1
    BY <2>1, <2>2, <2>3 DEF Told
  <2>5. ~cancel => \A k \in strays : Cut(k)'
    BY <1>1, <2>1, <2>3 DEF Told, Cut
  <2> QED
    BY <1>11, <2>4, <2>5 DEF Told
<1>12. CASE Spawn
  <2> DEFINE j == Head(pending)
  <2>1. j \in Jobs /\ ~Busy(j)
    BY <1>12, HeadOfQueue DEF Spawn, MayStart
  <2>2. /\ attempts' = [attempts EXCEPT ![j] = attempts[j] + 1]
        /\ UNCHANGED <<strays, cancel, finished, pc, records>> /\ pc = "refill"
        /\ child' = [child EXCEPT ![j] = [NoChild EXCEPT !.life = "alive"]]
    BY <1>12 DEF Spawn, MayStart, left, flags
  <2> HIDE DEF j
  <2>3. \A k \in Jobs : k # j => child'[k] = child[k] /\ records'[k] = records[k]
    BY <1>1, <2>2
  <2> QED
    BY <1>11, <2>1, <2>2, <2>3
<1>13. CASE SpawnFails
  <2> DEFINE j == Head(pending)
  <2>1. j \in Jobs /\ ~Busy(j)
    BY <1>13, HeadOfQueue DEF SpawnFails, MayStart
  <2>2. /\ attempts' = [attempts EXCEPT ![j] = attempts[j] + 1]
        /\ UNCHANGED <<strays, cancel, finished, pc, child>> /\ pc = "refill"
        /\ \E r : records' = [records EXCEPT ![j] = r]
    BY <1>13 DEF SpawnFails, MayStart, Note, flags
  <2> HIDE DEF j
  <2>3. \A k \in Jobs : k # j => child'[k] = child[k] /\ records'[k] = records[k]
    BY <1>1, <2>2
  <2> QED
    BY <1>11, <2>1, <2>2, <2>3
<1>14. ASSUME NEW j \in Jobs, NEW kind, NEW c, ChildExits(j, kind, c)
       PROVE  Told'
  <2>1. /\ child[j].life = "alive" /\ UNCHANGED <<pc, strays, attempts, records, cancel, finished>>
        /\ \A k \in Jobs : k # j => child'[k] = child[k]
    BY <1>1, <1>14 DEF ChildExits, left, flags
  <2>2. \A k \in Jobs : Busy(k)' => Busy(k)
    BY <2>1 DEF Busy
  <2>3. \A k \in Jobs : Cut(k) => Cut(k)'
    BY <2>1 DEF Cut, Busy
  <2> QED
    BY <1>1, <2>1, <2>2, <2>3 DEF Told
<1>15. ASSUME NEW j \in Jobs, Reap(j) \/ \E cause \in Causes : Kill(j, cause)
       PROVE  Told'
  <2>1. /\ child[j].life \in {"alive", "exited"} /\ pc = "poll" /\ pc' \in {"poll", "settle"}
        /\ UNCHANGED <<attempts, records, cancel>>
        /\ child'[j].life = "finished"
        /\ \A k \in Jobs : k # j => child'[k] = child[k]
    BY <1>1, <1>15 DEF Reap, Kill, Reaped, Active, flags, Children
  <2>2. ~cancel => strays' = strays \/ (strays' = strays \cup {j} /\ child'[j].cause # "none")
    <3>1. CASE Reap(j)
      BY <3>1 DEF Reap, EndGroup, left
    <3>2. ASSUME NEW cause \in Causes, Kill(j, cause)
          PROVE  strays' = strays \/ (strays' = strays \cup {j} /\ child'[j].cause # "none")
      <4>1. child'[j].cause = cause
        BY <1>1, <3>2 DEF Kill, Children
      <4> QED
        BY <3>2, <4>1 DEF Kill, EndProcess, Strays, left, Causes, BoundKinds
    <3> QED
      BY <1>15, <3>1, <3>2
  <2>3. \A k \in Jobs : Busy(k)' => attempts'[k] >= 1
    BY <2>1 DEF Told, Busy
  <2>4. \A k \in Jobs : Cut(k) => Cut(k)'
    BY <2>1 DEF Cut, Busy
  <2>5. attempts[j] >= 1 /\ attempts[j] \in Nat
    BY <1>1, <2>1 DEF Told, Busy
  <2>6. ~cancel => \A k \in strays' : Cut(k)'
    BY <1>1, <2>1, <2>2, <2>4, <2>5 DEF Told, Cut
  <2> QED
    BY <2>1, <2>3, <2>6 DEF Told
<1>16. ASSUME SettleHead PROVE Told'
  <2>1. PICK j \in Jobs : j = Head(finished) /\ j \in Range(finished)
    BY <1>16 DEF SettleHead, Range, IInv, TypeOK
  <2>2. PICK v \in Verdicts(j) :
            \E r : /\ records' = [records EXCEPT ![j] = Record(v.status, v.kind, attempts[j], r)]
                   /\ child' = [child EXCEPT ![j] = NoChild]
    BY <1>16, <2>1 DEF SettleHead, Note
  <2>3. /\ UNCHANGED <<strays, attempts, cancel>> /\ pc' \in {"refill", "settle"}
    BY <1>16 DEF SettleHead, left, flags
  <2>4. child[j].cause # "none" => v.status # "completed"
    BY <2>2 DEF Verdicts, Classify, StatusOf
  <2>5. \A k \in Jobs : k # j => child'[k] = child[k] /\ records'[k] = records[k]
    BY <1>1, <2>2
  <2>6. child'[j] = NoChild /\ records'[j].status = v.status
    BY <1>1, <2>2 DEF Record
  <2>7. child[j].life = "finished"
    BY <2>1 DEF IInv, Places
  <2>8. \A k \in Jobs : Busy(k)' => attempts'[k] >= 1
    BY <2>3, <2>5, <2>6 DEF Told, Busy, NoChild
  <2>9. Cut(j) => Cut(j)'
    BY <2>3, <2>4, <2>6, <2>7 DEF Cut, Busy, NoChild
  <2>10. \A k \in Jobs : k # j /\ Cut(k) => Cut(k)'
    BY <2>3, <2>5 DEF Cut, Busy
  <2> QED
    BY <1>1, <2>3, <2>8, <2>9, <2>10 DEF Told
<1> QED
  BY <1>3, <1>4, <1>6, <1>7, <1>8, <1>9, <1>10, <1>12, <1>13, <1>14, <1>15, <1>16
     DEF Next, Parent

\* A parent that lives and can write leaves no child of its own behind, whatever
\* its children do, never runs more of them than it has slots, and a job that
\* completed at its first attempt in a run nobody cancelled leaves no descendant.
THEOREM NothingSurvives ==
    ASSUME Faults \cap {"kill", "write_io", "journal_io", "unreapable"} = {}
    PROVE  Spec => []NothingLeftRunning
<1>1. Init => Contained /\ Told
  <2>1. ASSUME Init PROVE Active = {}
    BY <2>1 DEF Init, Fresh, NoChild, Active
  <2>2. Cardinality({}) <= Slots
    BY FS_EmptySet
  <2>3. Init => Told
    BY DEF Init, Told, Busy, Fresh, NoChild
  <2> QED
    BY <2>1, <2>2, <2>3 DEF Init, Contained
<1>2. IInv /\ Contained /\ Told /\ [Next]_vars => Contained' /\ Told'
  <2>1. ASSUME Contained, UNCHANGED vars PROVE Contained'
    BY <2>1 DEF vars, left, work, Contained, Active
  <2>2. ASSUME Told, UNCHANGED vars PROVE Told'
    BY <2>2 DEF vars, left, work, flags, Told, Cut, Busy
  <2> QED
    BY <2>1, <2>2, ContainedStep, ToldStep
<1>3. IInv /\ Contained /\ Told => NothingLeftRunning
  <2> SUFFICES ASSUME IInv, Contained, Told
               PROVE  /\ pc \notin {"refill", "poll"} => Alive = {}
                      /\ pc = "publish" /\ ~cancel =>
                            \A j \in strays : records[j].status # "completed" \/ attempts[j] > 1
    BY DEF Contained, NothingLeftRunning
  <2>1. CASE pc \in {"idle", "claimed", "ready"}
    BY <2>1 DEF IInv, Quiet, Fresh, NoChild, Alive
  <2>2. CASE pc \notin {"idle", "claimed", "ready"}
    <3>1. pc \notin {"refill", "poll"} => Active = {}
      BY <2>2 DEF IInv, TypeOK, Stage, Contained
    <3>2. pc = "publish" => \A j \in Jobs : child[j].life # "finished"
      BY EmptyRange DEF Told, IInv, Places
    <3>3. strays \subseteq Jobs
      BY DEF IInv, TypeOK
    <3> QED
      BY <3>1, <3>2, <3>3 DEF Active, Alive, Told, Cut
  <2> QED
    BY <2>1, <2>2
<1> QED
  BY <1>1, <1>2, <1>3, Invariant, PTL DEF Spec
=============================================================================
