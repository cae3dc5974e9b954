--------------------------- MODULE Native_proofs ---------------------------
(***************************************************************************)
(* What the native parts beside the supervisor keep in every behaviour of   *)
(* NativeSpec, for any number of creators, keys, chunks, replies and stored  *)
(* reports: baselines are committed whole, neither the comparator nor a      *)
(* profile's worker is believed or left behind when it should not be, a      *)
(* comparison tells of every pair it wrote, a reading accounts for all it    *)
(* emitted, and a command's exit code and its replay are true.               *)
(***************************************************************************)
EXTENDS NativeParts, FiniteSetTheorems, FunctionTheorems, SequenceTheorems, WellFoundedInduction, NaturalsInduction, TLAPS

(***************************************************************************)
(* Baselines.  The staging directory belongs to the one creator that fills  *)
(* or empties it, the sidecar to the one that has renamed its own: a bundle *)
(* is never empty, so a second rename onto it fails.                        *)
(***************************************************************************)
Committers == {"committed", "uncommitting", "removing", "done"}
Stagers == {"writing", "cleaning"}
Steps == {"start", "checked", "approved"} \cup Working \cup Ended

Written(c) ==
    {f \in [key : Keys, by : Creators] : f.by = c /\ f.key \in bundle[c] /\ f.key \notin todo[c]}

CreatorsFit ==
    /\ step \in [Creators -> Steps]
    /\ bundle \in [Creators -> SUBSET Keys] /\ todo \in [Creators -> SUBSET Keys]
    /\ manifest \in Creators \cup {NoBaseline}
    /\ \A c \in Creators :
        /\ step[c] \in {"approved", "clear"} \cup Stagers \cup Committers => bundle[c] # {}
        /\ step[c] \in {"approved", "clear"} => todo[c] = bundle[c]

OneStages ==
    /\ \A c \in Creators : step[c] \in Stagers =>
        staging.there /\ \A d \in Creators : step[d] \in Stagers => d = c
    /\ \A c \in Creators : step[c] = "writing" =>
        /\ todo[c] \subseteq bundle[c]
        /\ staging = [there |-> TRUE, files |-> Written(c)]
    /\ staging.there => \E c \in Creators : step[c] \in Stagers \cup {"killed"}

OneCommits ==
    /\ \A c \in Creators : step[c] \in Committers => sidecar = Whole(c)
    /\ sidecar.there => \E c \in Creators : step[c] \in Committers \cup {"killed"}
    /\ manifest # NoBaseline => step[manifest] = "done"
    /\ \A c \in Creators : step[c] = "done" => manifest = c

BaselinesInv == CreatorsFit /\ (Unswept => OneStages /\ OneCommits)

LEMMA BaselinesBegin == BaselinesInit => BaselinesInv
BY DEF BaselinesInit, BaselinesInv, CreatorsFit, OneStages, OneCommits, Steps, Working, Ended,
    Stagers, Committers, NoDir

\* Two creators never both hold a sidecar.
LEMMA OneCommitter ==
    ASSUME CreatorsFit, OneCommits, NEW c \in Creators, NEW d \in Creators,
           step[c] \in Committers, step[d] \in Committers
    PROVE  c = d
<1>1. Whole(c) = Whole(d) /\ bundle[c] # {}
    BY DEF CreatorsFit, OneCommits, Stagers, Committers
<1>2. PICK k : k \in bundle[c]
    BY <1>1
<1>3. [key |-> k, by |-> c] \in [key : bundle[d], by : {d}]
    BY <1>1, <1>2 DEF Whole
<1> QED BY <1>3

\* The records of the creators.
LEMMA CreatorsStayFit ==
    ASSUME CreatorsFit, NEW c \in Creators, Create(c)
    PROVE  CreatorsFit'
<1> USE DEF CreatorsFit, Goto, Steps, Working, Ended, Stagers, Committers
<1>1. CASE CheckTarget(c) BY <1>1 DEF CheckTarget
<1>2. CASE ReadRun(c)
  <2>1. PICK run \in RunChoices :
          IF Acceptable(run)
          THEN /\ Goto(c, "checked", "approved")
               /\ bundle' = [bundle EXCEPT ![c] = KeysOf(run.files)]
               /\ todo' = [todo EXCEPT ![c] = KeysOf(run.files)]
          ELSE Goto(c, "checked", "refused") /\ UNCHANGED <<bundle, todo>>
    BY <1>2 DEF ReadRun
  <2>2. run.files \subseteq RunFiles
    BY <2>1, BaselineAssumption DEF Runs
  <2>3. KeysOf(run.files) \subseteq Keys
    BY <2>2 DEF KeysOf, RunFiles
  <2>4. run.files # {} => KeysOf(run.files) # {}
    BY DEF KeysOf
  <2>5. CASE Acceptable(run)
    <3>1. KeysOf(run.files) # {} BY <2>4, <2>5 DEF Acceptable
    <3> QED BY <1>2, <2>1, <2>3, <2>5, <3>1 DEF ReadRun
  <2>6. CASE ~Acceptable(run) BY <1>2, <2>1, <2>6 DEF ReadRun
  <2> QED BY <2>5, <2>6
<1>3. CASE CheckStaging(c) BY <1>3 DEF CheckStaging
<1>4. CASE MakeStaging(c) BY <1>4 DEF MakeStaging
<1>5. CASE WriteReport(c) BY <1>5 DEF WriteReport
<1>6. CASE WriteFails(c) BY <1>6 DEF WriteFails
<1>7. CASE Rename(c) BY <1>7 DEF Rename
<1>8. CASE WriteManifest(c) BY <1>8 DEF WriteManifest
<1>9. CASE ManifestFails(c) BY <1>9 DEF ManifestFails
<1>10. CASE Clean(c) BY <1>10 DEF Clean
<1>11. CASE RemoveSidecar(c) BY <1>11 DEF RemoveSidecar
<1>12. CASE Kill(c) BY <1>12 DEF Kill
<1> QED BY <1>1, <1>2, <1>3, <1>4, <1>5, <1>6, <1>7, <1>8, <1>9, <1>10, <1>11, <1>12 DEF Create

\* A creator that has swept another's staging directory stays known as such.
LEMMA SweptStays ==
    ASSUME CreatorsFit, NEW c \in Creators, Create(c), Unswept'
    PROVE  Unswept
<1>1. \A d \in Creators : step[d] \in {"sweeping", "swept"} => step'[d] \in {"sweeping", "swept"}
    BY DEF CreatorsFit, Create, CheckTarget, ReadRun, CheckStaging, MakeStaging, WriteReport, WriteFails,
        Rename, WriteManifest, ManifestFails, Clean, RemoveSidecar, Kill, Goto, Working
<1> QED BY <1>1 DEF Unswept

LEMMA StagingStaysOwned ==
    ASSUME CreatorsFit, OneStages, OneCommits, NEW c \in Creators, Create(c), Unswept'
    PROVE  OneStages'
<1> USE DEF CreatorsFit, Goto, Stagers, OneStages, Written
<1>1. CASE CheckTarget(c) BY <1>1 DEF CheckTarget
<1>2. CASE ReadRun(c)
  <2>1. step[c] = "checked" /\ step'[c] \in {"approved", "refused"} /\ UNCHANGED staging
    BY <1>2 DEF ReadRun
  <2>2. \A d \in Creators : d # c => step'[d] = step[d] /\ bundle'[d] = bundle[d] /\ todo'[d] = todo[d]
    BY <1>2 DEF ReadRun
  <2> QED BY <2>1, <2>2
<1>3. CASE CheckStaging(c) BY <1>3 DEF CheckStaging
<1>4. CASE MakeStaging(c)
  <2>1. CASE staging.there
    <3>1. step[c] = "clear" /\ step' = [step EXCEPT ![c] = "refused"] /\ UNCHANGED <<bundle, todo, staging>>
      BY <1>4, <2>1 DEF MakeStaging
    <3> QED BY <3>1
  <2>2. CASE ~staging.there
    <3>1. \A d \in Creators : step[d] \notin Stagers BY <2>2
    <3>3. step' = [step EXCEPT ![c] = "writing"] /\ staging' = [there |-> TRUE, files |-> {}]
          /\ UNCHANGED <<bundle, todo>> /\ todo[c] = bundle[c]
      BY <1>4, <2>2 DEF MakeStaging, Empty
    <3>4. \A d \in Creators : step'[d] \in Stagers => d = c
      BY <3>1, <3>3
    <3>5. Written(c)' = {}
      BY <3>3
    <3>6. staging' = [there |-> TRUE, files |-> Written(c)']
      BY <3>3, <3>5
    <3>7. step'[c] = "writing" /\ todo'[c] \subseteq bundle'[c]
      BY <3>3
    <3> HIDE DEF Written
    <3> QED BY <3>4, <3>6, <3>7
  <2> QED BY <2>1, <2>2
<1>5. CASE WriteReport(c)
  <2>1. PICK key \in todo[c] :
          /\ staging' = Put(staging, [key |-> key, by |-> c])
          /\ todo' = [todo EXCEPT ![c] = todo[c] \ {key}]
    BY <1>5 DEF WriteReport
  <2>2. staging = [there |-> TRUE, files |-> Written(c)] /\ todo[c] \subseteq bundle[c]
    BY <1>5 DEF WriteReport
  <2>3. UNCHANGED <<step, bundle>>
    BY <1>5 DEF WriteReport
  <2>4. Written(c)' = {f \in Written(c) : f.key # key} \cup {[key |-> key, by |-> c]}
    <3>1. \A k : k \in bundle'[c] /\ k \notin todo'[c] <=> k = key \/ (k \in bundle[c] /\ k \notin todo[c])
      BY <2>1, <2>2, <2>3
    <3> QED BY <3>1, <2>1
  <2>5. staging' = [there |-> TRUE, files |-> Written(c)']
    BY <2>1, <2>2, <2>4 DEF Put
  <2>6. todo'[c] \subseteq bundle'[c]
    BY <2>1, <2>2, <2>3
  <2>7. \A d \in Creators : step[d] \in Stagers => d = c
    BY <1>5 DEF WriteReport
  <2>8. step[c] = "writing"
    BY <1>5 DEF WriteReport
  <2> QED BY <2>3, <2>5, <2>6, <2>7, <2>8
<1>6. CASE WriteFails(c) BY <1>6 DEF WriteFails
<1>7. CASE Rename(c) BY <1>7 DEF Rename, NoDir
<1>8. CASE WriteManifest(c) BY <1>8 DEF WriteManifest
<1>9. CASE ManifestFails(c) BY <1>9 DEF ManifestFails
<1>10. CASE Clean(c)
  <2>1. CASE step[c] = "cleaning" BY <1>10, <2>1 DEF Clean, NoDir
  <2>2. CASE step[c] = "uncommitting"
    <3>1. ~staging.there
        BY <1>10, <2>2 DEF Clean, Unswept
    <3> QED BY <1>10, <2>2, <3>1 DEF Clean, NoDir
  <2> QED BY <1>10, <2>1, <2>2 DEF Clean
<1>11. CASE RemoveSidecar(c) BY <1>11 DEF RemoveSidecar
<1>12. CASE Kill(c) BY <1>12 DEF Kill
<1> QED BY <1>1, <1>2, <1>3, <1>4, <1>5, <1>6, <1>7, <1>8, <1>9, <1>10, <1>11, <1>12 DEF Create

LEMMA SidecarStaysOwned ==
    ASSUME CreatorsFit, OneStages, OneCommits, NEW c \in Creators, Create(c), Unswept'
    PROVE  OneCommits'
<1> USE DEF CreatorsFit, Goto, Committers, OneCommits, Whole
<1>1. CASE CheckTarget(c) BY <1>1 DEF CheckTarget
<1>2. CASE ReadRun(c)
  <2>1. step[c] = "checked" /\ step'[c] \in {"approved", "refused"}
    BY <1>2 DEF ReadRun
  <2>2. \A d \in Creators : d # c => step'[d] = step[d] /\ bundle'[d] = bundle[d]
    BY <1>2 DEF ReadRun
  <2>3. UNCHANGED <<sidecar, manifest>> BY <1>2 DEF ReadRun
  <2> QED BY <2>1, <2>2, <2>3
<1>3. CASE CheckStaging(c) BY <1>3 DEF CheckStaging
<1>4. CASE MakeStaging(c) BY <1>4 DEF MakeStaging
<1>5. CASE WriteReport(c) BY <1>5 DEF WriteReport
<1>6. CASE WriteFails(c) BY <1>6 DEF WriteFails
<1>7. CASE Rename(c)
  <2>1. CASE ~(staging.there /\ sidecar.files = {}) BY <1>7, <2>1 DEF Rename
  <2>2. CASE staging.there /\ sidecar.files = {}
    <3>1. \A d \in Creators : step[d] \notin Committers
      <4> SUFFICES ASSUME NEW d \in Creators, step[d] \in Committers PROVE FALSE
        OBVIOUS
      <4>1. bundle[d] # {} /\ sidecar = Whole(d) BY DEF Stagers
      <4>2. PICK k : k \in bundle[d] BY <4>1
      <4>3. sidecar.files = [key : bundle[d], by : {d}] BY <4>1
      <4>4. [key |-> k, by |-> d] \in sidecar.files BY <4>2, <4>3
      <4> QED BY <2>2, <4>4
    <3>2. step[c] = "writing" /\ step' = [step EXCEPT ![c] = "committed"] /\ sidecar' = staging
          /\ UNCHANGED <<bundle, todo, manifest>> /\ todo[c] = {}
      BY <1>7, <2>2 DEF Rename
    <3>3. staging = [there |-> TRUE, files |-> Written(c)]
      BY <3>2 DEF OneStages, Written
    <3>4. staging.files = [key : bundle[c], by : {c}]
      BY <3>2, <3>3 DEF Written
    <3>5. sidecar' = [there |-> TRUE, files |-> [key : bundle'[c], by : {c}]]
      BY <3>2, <3>3, <3>4
    <3>6. manifest = NoBaseline
      BY <3>1
    <3> QED BY <3>1, <3>2, <3>5, <3>6
  <2> QED BY <2>1, <2>2
<1>8. CASE WriteManifest(c)
  <2>1. \A d \in Creators : step[d] \in Committers => d = c
    BY <1>8, OneCommitter DEF WriteManifest
  <2> QED BY <1>8, <2>1 DEF WriteManifest
<1>9. CASE ManifestFails(c) BY <1>9 DEF ManifestFails
<1>10. CASE Clean(c)
  <2>1. CASE step[c] = "cleaning" BY <1>10, <2>1 DEF Clean
  <2>2. CASE step[c] = "uncommitting"
    <3>1. step'[c] = "removing" /\ UNCHANGED <<bundle, todo, sidecar, manifest>>
      BY <1>10, <2>2 DEF Clean, Unswept
    <3> QED BY <1>10, <2>2, <3>1 DEF Clean
  <2> QED BY <1>10, <2>1, <2>2 DEF Clean
<1>11. CASE RemoveSidecar(c)
  <2>1. step[c] = "removing" /\ step' = [step EXCEPT ![c] = "failed"] /\ sidecar' = NoDir
        /\ UNCHANGED <<bundle, todo, manifest>>
    BY <1>11 DEF RemoveSidecar, Unswept
  <2>2. \A d \in Creators : step[d] \in Committers => d = c
    BY <2>1, OneCommitter
  <2> QED BY <2>1, <2>2 DEF NoDir
<1>12. CASE Kill(c)
  <2>1. step[c] # "done" BY <1>12 DEF Kill, Working
  <2> QED BY <1>12, <2>1 DEF Kill
<1> QED BY <1>1, <1>2, <1>3, <1>4, <1>5, <1>6, <1>7, <1>8, <1>9, <1>10, <1>11, <1>12 DEF Create

LEMMA BaselinesKeep ==
    ASSUME BaselinesInv, BaselinesNext
    PROVE  BaselinesInv'
<1>1. PICK c \in Creators : Create(c)
    BY DEF BaselinesNext
<1> QED BY <1>1, CreatorsStayFit, SweptStays, StagingStaysOwned, SidecarStaysOwned DEF BaselinesInv

LEMMA BaselinesImply ==
    ASSUME BaselinesInv
    PROVE  BaselinesAreWhole
<1>1. ManifestIsWhole
    BY DEF BaselinesInv, CreatorsFit, OneCommits, ManifestIsWhole, Committers
<1>2. FailureLeavesNothing
    BY BaselineAssumption DEF BaselinesInv, OneStages, OneCommits, FailureLeavesNothing, Committers, Stagers, Ended
<1> QED BY <1>1, <1>2 DEF BaselinesAreWhole

(***************************************************************************)
(* The exchange with the comparator.  What it has said is in its pipe or    *)
(* counted, the request is written before it can answer with a result, and  *)
(* the loop ends only when all three streams have.                          *)
(***************************************************************************)
Phases == {"ready", "pumping", "waiting", "ended"}
Comparators ==
    [life : {"none", "running", "killed", "crashed", "failed", "exited"}, read : Nat,
     reply : Replies, left : Nat]

ExchangeTyped ==
    /\ phase \in Phases /\ unsent \in Nat /\ open \subseteq Streams
    /\ received \in [{"stdout", "stderr"} -> Nat] /\ pipes \in [Streams -> Nat]
    /\ child \in Comparators

NotStarted ==
    phase = "ready" =>
        /\ child = NoChild /\ unsent > 0
        /\ received["stdout"] = 0 /\ pipes["stdout"] = 0

Exchanging == phase \in {"pumping", "waiting"}

Pumping ==
    Exchanging =>
        /\ phase = "waiting" => open = {}
        /\ child.life # "none" /\ received["stdout"] <= MaxResponse
        /\ "stdout" \notin open => ~Alive /\ pipes["stdout"] = 0
        /\ "stdin" \in open => unsent > 0
        /\ child.reply = "none" /\ Alive /\ "stdin" \notin open => unsent = 0
        /\ child.reply = "result" => unsent = 0
        /\ child.reply = "result" /\ child.left = 0 => received["stdout"] + pipes["stdout"] > 0

ExchangeInv ==
    /\ ExchangeTyped /\ NotStarted /\ Pumping
    /\ answer = "result" => phase = "ended"
    /\ ExchangeIsClean

LEMMA BridgeBegins == BridgeInit => ExchangeInv
<1> SUFFICES ASSUME BridgeInit PROVE ExchangeInv
  OBVIOUS
<1>1. NoChild \in Comparators
  BY DEF NoChild, Comparators, Replies
<1> QED BY <1>1, BridgeAssumption DEF BridgeInit, ExchangeInv, ExchangeTyped, NotStarted, Pumping, Exchanging,
      Phases, ExchangeIsClean, AnswerIsWhole, NothingStays, NoChild, Alive, Streams

\* The child's record after any of its steps, or the group's end.
LEMMA ChildIsRecord ==
    ASSUME child \in Comparators
    PROVE  /\ child.life \in {"none", "running", "killed", "crashed", "failed", "exited"}
           /\ child.reply \in Replies /\ child.left \in Nat /\ child.read \in Nat
           /\ \A how \in {"killed", "crashed", "failed", "exited"} :
                  LET c == [child EXCEPT !.life = how]
                  IN  c \in Comparators /\ c.life = how /\ c.reply = child.reply /\ c.left = child.left
BY DEF Comparators, Replies

LEMMA ParentKeepsExchange ==
    ASSUME ExchangeInv, Parent \/ SpawnFails \/ Interrupted \/ DeadlinePasses
    PROVE  ExchangeInv'
<1> USE DEF ExchangeInv, ExchangeTyped, NotStarted, Pumping, Exchanging, Phases,
        ExchangeIsClean, AnswerIsWhole, NothingStays, Alive, End
<1>0. /\ child.life \in {"none", "running", "killed", "crashed", "failed", "exited"}
      /\ child.reply \in Replies /\ child.left \in Nat
  BY ChildIsRecord
<1>1. CASE RefuseRequest BY <1>1 DEF RefuseRequest, NoChild
<1>2. CASE SpawnFails BY <1>2 DEF SpawnFails, NoChild
<1>3. CASE Spawn
  <2>1. child' = [life |-> "running", read |-> 0, reply |-> "none", left |-> 0]
    BY <1>3 DEF Spawn, NoChild
  <2>2. child' \in Comparators
    BY <2>1 DEF Comparators, Replies
  <2> QED BY <1>3, <2>1, <2>2, BridgeAssumption DEF Spawn, Streams
<1>4. CASE WriteRequest
  <2>1. unsent > 0
    BY <1>4 DEF WriteRequest
  <2>2. CASE Alive /\ child.reply = "none"
    <3>1. /\ unsent' = unsent - 1 /\ pipes' = [pipes EXCEPT !["stdin"] = pipes["stdin"] + 1]
          /\ open' = IF unsent = 1 THEN open \ {"stdin"} ELSE open
          /\ UNCHANGED <<phase, received, answer, late, scratch, child>>
      BY <1>4, <2>2 DEF WriteRequest
    <3>2. pipes' \in [Streams -> Nat] /\ pipes'["stdout"] = pipes["stdout"]
      BY <3>1 DEF Streams
    <3>3. phase = "pumping" /\ answer # "result"
      BY <1>4 DEF WriteRequest
    <3>4. unsent' \in Nat /\ ("stdin" \in open' => unsent' > 0) /\ ("stdin" \notin open' => unsent' = 0)
      BY <1>4, <2>1, <3>1 DEF WriteRequest
    <3> QED BY <1>0, <2>2, <3>1, <3>2, <3>3, <3>4
  <2>3. CASE ~(Alive /\ child.reply = "none")
    <3>1. open' = open \ {"stdin"} /\ UNCHANGED <<phase, unsent, pipes, received, answer, late, scratch, child>>
      BY <1>4, <2>3 DEF WriteRequest
    <3>2. phase = "pumping" /\ answer # "result"
      BY <1>4 DEF WriteRequest
    <3> QED BY <1>0, <2>3, <3>1, <3>2
  <2> QED BY <2>2, <2>3
<1>5. ASSUME NEW s \in {"stdout", "stderr"}, ReadStream(s) PROVE ExchangeInv'
  <2>1. CASE pipes[s] > 0
    <3>1. CASE received[s] + 1 > CapOf(s)
      <4>1. child' \in Comparators /\ child'.life # "running"
        BY <1>0, <1>5, <2>1, <3>1, ChildIsRecord DEF ReadStream, KillGroup
      <4> QED BY <1>5, <2>1, <3>1, <4>1 DEF ReadStream, Streams
    <3>2. CASE ~(received[s] + 1 > CapOf(s))
      <4>1. s = "stdout" => received[s] + 1 <= MaxResponse
        BY <3>2, BridgeAssumption DEF CapOf
      <4>2. /\ pipes' = [pipes EXCEPT ![s] = pipes[s] - 1] /\ received' = [received EXCEPT ![s] = received[s] + 1]
            /\ UNCHANGED <<phase, unsent, answer, open, late, scratch, child>>
        BY <1>5, <2>1, <3>2 DEF ReadStream
      <4>3. phase = "pumping" /\ answer # "result" /\ s \in open
        BY <1>5 DEF ReadStream
      <4>4. pipes' \in [Streams -> Nat] /\ received' \in [{"stdout", "stderr"} -> Nat]
        BY <1>5, <2>1, <4>2 DEF Streams
      <4>5. /\ received'["stdout"] + pipes'["stdout"] = received["stdout"] + pipes["stdout"]
            /\ received'["stdout"] <= MaxResponse
        BY <1>5, <2>1, <4>1, <4>2, <4>3, BridgeAssumption DEF Streams
      <4>6. "stdout" \notin open => pipes'["stdout"] = 0
        BY <1>5, <4>2, <4>3 DEF Streams
      <4> QED BY <1>0, <4>2, <4>3, <4>4, <4>5, <4>6
    <3> QED BY <3>1, <3>2
  <2>2. CASE pipes[s] = 0
    <3>1. /\ open' = open \ {s} /\ ~Alive /\ phase = "pumping" /\ answer # "result"
          /\ UNCHANGED <<phase, unsent, pipes, received, answer, late, scratch, child>>
      BY <1>5, <2>2 DEF ReadStream
    <3>2. "stdout" \notin open' => pipes["stdout"] = 0
      BY <2>2, <3>1
    <3> QED BY <1>0, <1>5, <3>1, <3>2
  <2> QED BY <1>5, <2>1, <2>2 DEF Streams
<1>6. CASE TimesOut
  <2>1. child' \in Comparators /\ child'.life # "running"
    BY <1>0, <1>6, ChildIsRecord DEF TimesOut, KillGroup
  <2> QED BY <1>6, <2>1 DEF TimesOut
<1>7. CASE PumpDone BY <1>7 DEF PumpDone
<1>8. CASE Judge
  <2>1. answer' = "result" => child.life = "exited" /\ child.reply = "result" /\ child.left = 0
    BY <1>0, <1>8 DEF Judge, Decode
  <2>2. phase = "waiting" /\ ~Alive /\ phase' = "ended" /\ ~scratch' /\ open' = {}
        /\ UNCHANGED <<unsent, received, child, pipes>>
    BY <1>8 DEF Judge
  <2> QED BY <1>0, <2>1, <2>2, BridgeAssumption
<1>9. CASE Interrupted BY <1>9 DEF Interrupted
<1>10. CASE DeadlinePasses BY <1>10 DEF DeadlinePasses
<1> QED BY <1>1, <1>2, <1>3, <1>4, <1>5, <1>6, <1>7, <1>8, <1>9, <1>10 DEF Parent

LEMMA ComparatorKeepsExchange ==
    ASSUME ExchangeInv, Comparator
    PROVE  ExchangeInv'
<1> USE DEF ExchangeInv, ExchangeTyped, NotStarted, Pumping, Exchanging, Phases,
        ExchangeIsClean, AnswerIsWhole, NothingStays, Alive
<1>0. /\ child.life \in {"none", "running", "killed", "crashed", "failed", "exited"}
      /\ child.reply \in Replies /\ child.left \in Nat /\ child.read \in Nat
  BY ChildIsRecord
<1>1. child.life = "running" /\ phase # "ready" /\ answer # "result"
      /\ (phase = "ended" => answer = "interrupted")
      /\ UNCHANGED <<phase, unsent, open, received, answer, late, scratch>>
  <2>1. Alive /\ UNCHANGED <<phase, unsent, open, received, answer, late, scratch>>
    BY DEF Comparator, ChildReads, ChildAnswers, ChildWrites, ChildExits, ChildDies, ChildFloods
  <2> QED BY <2>1 DEF NoChild
<1>2. CASE ChildReads
  <2>1. child' \in Comparators /\ child'.life = "running" /\ child'.reply \in {"none", "refusal"}
    <3>1. child.reply = "none" /\ child.read + 1 \in Nat
      BY <1>0, <1>2 DEF ChildReads
    <3>2. \/ child' = [child EXCEPT !.read = child.read + 1, !.reply = "refusal", !.left = 1]
          \/ child' = [child EXCEPT !.read = child.read + 1]
      BY <1>2 DEF ChildReads
    <3> DEFINE n == child.read + 1
    <3>3. n \in Nat /\ 1 \in Nat /\ "refusal" \in Replies
      BY <3>1 DEF Replies
    <3> HIDE DEF n
    <3>4. /\ [child EXCEPT !.read = n, !.reply = "refusal", !.left = 1] \in Comparators
          /\ [child EXCEPT !.read = n] \in Comparators
      BY <3>3, Zenon DEF Comparators
    <3>5. child' \in Comparators
      BY <3>2, <3>4 DEF n
    <3>6. child'.life = child.life /\ child'.reply \in {child.reply, "refusal"}
      BY <3>2 DEF Comparators
    <3> QED BY <1>1, <3>1, <3>5, <3>6
  <2> QED BY <1>1, <1>2, <2>1 DEF ChildReads, Streams
<1>3. CASE ChildAnswers
  <2>1. child' \in Comparators /\ child'.life = "running" /\ child'.reply # "none" /\ child'.left > 0
    <3>1. PICK reply \in Replies \ {"none"}, length \in 1..2 :
            child' = [child EXCEPT !.reply = reply, !.left = length]
      BY <1>3 DEF ChildAnswers
    <3>2. length \in Nat /\ length > 0
      OBVIOUS
    <3> QED BY <1>1, <3>1, <3>2 DEF Comparators
  <2> QED BY <1>1, <1>3, <2>1 DEF ChildAnswers
<1>4. CASE ChildWrites
  <2>1. child' \in Comparators /\ child'.life = "running" /\ child'.reply = child.reply
    BY <1>0, <1>4 DEF ChildWrites, Comparators, Replies
  <2> QED BY <1>1, <1>4, <2>1 DEF ChildWrites, Streams
<1>5. CASE ChildExits
  <2>1. child' \in Comparators /\ child'.life = "exited" /\ child'.reply = child.reply /\ child'.left = child.left
    BY <1>5, ChildIsRecord DEF ChildExits
  <2> QED BY <1>1, <1>5, <2>1 DEF ChildExits
<1>6. CASE ChildDies
  <2>1. child' \in Comparators /\ child'.life \in {"crashed", "failed", "exited"}
        /\ child'.reply = child.reply /\ child'.left = child.left
    BY <1>6, ChildIsRecord DEF ChildDies
  <2> QED BY <1>1, <1>6, <2>1 DEF ChildDies
<1>7. CASE ChildFloods
  <2>1. PICK s \in {"stdout", "stderr"} :
          /\ pipes' = [pipes EXCEPT ![s] = pipes[s] + 1]
          /\ child' = IF s = "stdout" THEN [child EXCEPT !.reply = "broken"] ELSE child
    BY <1>7 DEF ChildFloods
  <2>2. child' \in Comparators /\ child'.life = "running" /\ (child'.reply = "broken" \/ child' = child)
    BY <1>0, <1>1, <2>1 DEF Comparators, Replies
  <2>3. pipes' \in [Streams -> Nat] /\ pipes'["stdout"] >= pipes["stdout"]
    BY <2>1 DEF Streams
  <2> QED BY <1>1, <2>1, <2>2, <2>3 DEF Streams
<1> QED BY <1>2, <1>3, <1>4, <1>5, <1>6, <1>7 DEF Comparator

LEMMA ExchangeKeeps ==
    ASSUME ExchangeInv, BridgeNext
    PROVE  ExchangeInv'
BY ParentKeepsExchange, ComparatorKeepsExchange DEF BridgeNext

(***************************************************************************)
(* The exchange with a profile's worker.  A thread that has seen the end of *)
(* its stream has seen the last of every process that could write to it.    *)
(***************************************************************************)
WorkerStreams ==
    [flying : Nat, kept : Nat, foreign : BOOLEAN, overflow : BOOLEAN, closed : BOOLEAN]

ClosedForGood ==
    \A s \in Outputs :
        stream[s].closed =>
            stream[s].flying = 0 /\ Writers = {} /\ parent # "ready" /\ leader.life # "none"

WorkerInv ==
    /\ stream \in [Outputs -> WorkerStreams]
    /\ DOMAIN leader = {"life", "reply", "written"} /\ DOMAIN descendant = {"life", "reply", "written"}
    /\ leader.written \in Nat /\ descendant.written \in Nat
    /\ ClosedForGood
    /\ parent = "ready" => leader.life = "none" /\ descendant.life = "none"
    /\ leader.life = "none" => descendant.life = "none"
    /\ taken = "accepted" => parent = "ended" /\ \A s \in Outputs : stream[s].closed
    /\ WorkerIsNotTrusted

LEMMA WorkerBegins == WorkerInit => WorkerInv
BY DEF WorkerInit, WorkerInv, ClosedForGood, WorkerStreams, NoStream, NoProcess, Outputs, WorkerIsNotTrusted

LEMMA NoWriters == Writers = {} <=> leader.life # "running" /\ descendant.life # "running"
BY DEF Writers

\* The parent's side: nothing runs once the request has ended, except for a
\* worker that was forgotten.
LEMMA ParentKeepsWorker ==
    ASSUME WorkerInv, Supervise \/ WriteStdin \/ WorkerForgotten \/ WorkerDeadline
    PROVE  WorkerInv'
<1> USE DEF WorkerInv, ClosedForGood, WorkerIsNotTrusted
<1>1. CASE StartWorker BY <1>1 DEF StartWorker, NoProcess, Writers
<1>2. CASE WaitReturns BY <1>2 DEF WaitReturns, Writers
<1>3. CASE KillWorkers BY <1>3 DEF KillWorkers, Writers
<1>4. CASE JoinThreads
  <2>1. \A s \in Outputs : stream[s].closed /\ stream[s].flying = 0
    BY <1>4 DEF JoinThreads
  <2>2. Writers = {} /\ "stdout" \in Outputs
    BY <2>1 DEF Outputs
  <2>3. parent' = "ended" /\ taken' = JudgeWorker /\ UNCHANGED <<leader, descendant, stream>>
    BY <1>4 DEF JoinThreads
  <2>4. taken # "accepted"
    BY <1>4 DEF JoinThreads
  <2>5. ASSUME taken' = "accepted"
        PROVE  /\ leader.life = "exited"
               /\ \E process \in {leader, descendant} :
                     /\ process.reply # NoReply
                     /\ process.reply.ok /\ process.reply.version /\ process.reply.pages
                     /\ process.written = process.reply.length /\ stream["stdout"].kept = process.written
                     /\ leader.written + descendant.written = process.written
               /\ ~stream["stdout"].foreign /\ \A s \in Outputs : ~stream[s].overflow
    <3>1. /\ leader.life = "exited" /\ OneReply
          /\ AnswerRead.ok /\ AnswerRead.version /\ AnswerRead.pages
          /\ \A s \in Outputs : ~stream[s].overflow
      BY <2>3, <2>4, <2>5 DEF JudgeWorker
    <3>2. /\ leader.written = 0 \/ descendant.written = 0
          /\ Author.reply # NoReply /\ Author.written = Author.reply.length
          /\ stream["stdout"].kept = Author.reply.length /\ ~stream["stdout"].foreign
      BY <3>1 DEF OneReply, AnswerRead
    <3>3. Author \in {leader, descendant} /\ leader.written + descendant.written = Author.written
      <4>1. CASE leader.written > 0
        BY <3>2, <4>1 DEF Author
      <4>2. CASE ~(leader.written > 0)
        BY <3>2, <4>2 DEF Author
      <4> QED BY <4>1, <4>2
    <3>4. Author.reply.ok /\ Author.reply.version /\ Author.reply.pages
      BY <3>1 DEF AnswerRead
    <3> QED BY <3>1, <3>2, <3>3, <3>4
  <2>6. Writers' = {}
    BY <2>2, <2>3 DEF Writers
  <2> QED BY <2>1, <2>2, <2>3, <2>5, <2>6
<1>5. CASE WriteStdin BY <1>5 DEF WriteStdin, Writers
<1>6. CASE WorkerForgotten BY <1>6 DEF WorkerForgotten, Writers
<1>7. CASE WorkerDeadline BY <1>7 DEF WorkerDeadline, Writers
<1> QED BY <1>1, <1>2, <1>3, <1>4, <1>5, <1>6, <1>7 DEF Supervise

LEMMA DrainKeepsWorker ==
    ASSUME WorkerInv, NEW s \in Outputs, DrainStream(s)
    PROVE  WorkerInv'
<1> USE DEF WorkerInv, ClosedForGood, WorkerIsNotTrusted
<1>1. /\ UNCHANGED <<parent, leader, descendant, taken>> /\ ~stream[s].closed /\ parent # "ready"
      /\ UNCHANGED Writers
  BY DEF DrainStream, Writers
<1>2. stream' \in [Outputs -> WorkerStreams]
      /\ (\A t \in Outputs : t # s => stream'[t] = stream[t])
      /\ (stream'[s].closed => stream'[s].flying = 0 /\ Writers = {} /\ leader.life # "none")
  <2>1. stream[s] \in WorkerStreams
    OBVIOUS
  <2>2. CASE stream[s].flying > 0
    <3> DEFINE kept == IF stream[s].kept < MaxCapture THEN stream[s].kept + 1 ELSE stream[s].kept
               flying == stream[s].flying - 1
               overflow == stream[s].overflow \/ kept >= MaxCapture
    <3>1. kept \in Nat /\ flying \in Nat /\ overflow \in BOOLEAN
      BY <2>1, <2>2, WorkerAssumption DEF WorkerStreams
    <3>2. stream' = [stream EXCEPT ![s].flying = flying, ![s].kept = kept, ![s].overflow = overflow]
      BY <2>2 DEF DrainStream
    <3> HIDE DEF kept, flying, overflow
    <3>3. [stream[s] EXCEPT !.flying = flying, !.kept = kept, !.overflow = overflow] \in WorkerStreams
      BY <2>1, <3>1, Zenon DEF WorkerStreams
    <3>4. stream' = [stream EXCEPT ![s] = [stream[s] EXCEPT !.flying = flying, !.kept = kept, !.overflow = overflow]]
      BY <3>2
    <3>5. ~stream'[s].closed
      BY <1>1, <3>4 DEF WorkerStreams
    <3> QED BY <3>3, <3>4, <3>5
  <2>3. CASE ~(stream[s].flying > 0)
    <3>1. stream' = [stream EXCEPT ![s].closed = TRUE] /\ stream[s].flying = 0
          /\ Writers = {} /\ leader.life # "none"
      BY <2>3 DEF DrainStream
    <3>2. [stream[s] EXCEPT !.closed = TRUE] \in WorkerStreams
      BY <2>1, Zenon DEF WorkerStreams
    <3>3. stream' = [stream EXCEPT ![s] = [stream[s] EXCEPT !.closed = TRUE]]
      BY <3>1
    <3>4. stream'[s].flying = 0
      BY <2>1, <3>1, <3>3 DEF WorkerStreams
    <3> QED BY <3>1, <3>2, <3>3, <3>4
  <2> QED BY <2>2, <2>3
<1>3. taken # "accepted"
  BY <1>1
<1> QED BY <1>1, <1>2, <1>3

\* The worker's side: a step is one of a process that still runs.
LEMMA ProcessesKeepWorker ==
    ASSUME WorkerInv, WorkerReads \/ WorkerWrites \/ WorkerNoise \/ WorkerSpawns \/ DescendantWrites \/ WorkerExits
    PROVE  WorkerInv'
<1> USE DEF WorkerInv, ClosedForGood, WorkerIsNotTrusted
<1>1. Writers # {} /\ leader.life # "none" /\ parent # "ready" /\ UNCHANGED <<parent, taken>>
  BY DEF WorkerReads, WorkerWrites, WorkerNoise, WorkerSpawns, DescendantWrites, WorkerExits, Writers
<1>2. /\ taken # "accepted" /\ (parent = "ended" => taken = "interrupted")
      /\ \A s \in Outputs : ~stream[s].closed
  BY <1>1 DEF Outputs
<1>3. stream' \in [Outputs -> WorkerStreams] /\ leader'.life # "none"
      /\ DOMAIN leader' = {"life", "reply", "written"} /\ DOMAIN descendant' = {"life", "reply", "written"}
      /\ leader'.written \in Nat /\ descendant'.written \in Nat
      /\ \A s \in Outputs : stream'[s].closed = stream[s].closed
  <2>1. CASE WorkerReads
    BY <1>1, <2>1 DEF WorkerReads
  <2>2. CASE WorkerWrites
    BY <1>1, <2>2 DEF WorkerWrites, WorkerStreams, Outputs
  <2>3. CASE WorkerNoise
    BY <1>1, <2>3 DEF WorkerNoise, WorkerStreams, Outputs
  <2>4. CASE WorkerSpawns
    <3>1. PICK reply : descendant' = [NoProcess EXCEPT !.life = "running", !.reply = reply]
      BY <2>4 DEF WorkerSpawns
    <3> QED BY <1>1, <2>4, <3>1 DEF WorkerSpawns, NoProcess
  <2>5. CASE DescendantWrites
    BY <1>1, <2>5 DEF DescendantWrites, WorkerStreams, Outputs
  <2>6. CASE WorkerExits
    BY <1>1, <2>6 DEF WorkerExits
  <2> QED BY <2>1, <2>2, <2>3, <2>4, <2>5, <2>6
<1> QED BY <1>1, <1>2, <1>3

LEMMA WorkerKeeps ==
    ASSUME WorkerInv, WorkerNext
    PROVE  WorkerInv'
BY ParentKeepsWorker, DrainKeepsWorker, ProcessesKeepWorker DEF WorkerNext

(***************************************************************************)
(* Comparison.  Each artifact says what comparing its two reports gives for  *)
(* some answer of the comparator, and the verdict is made of all of them:   *)
(* a status names its exit code, so the gravest code there is decides.      *)
(***************************************************************************)
Answers(left, right) ==
    IF left # NoReport /\ right # NoReport THEN Alignments(left, right) ELSE {NoReport}

Compared(key) ==
    LET left == ReportOf(asked.left, key)
        right == ReportOf(asked.right, key)
    IN  /\ left # NoReport \/ right # NoReport
        /\ \E a \in Answers(left, right) : outcome[key] = BuildComparison(left, right, a)

VerdictOfAll ==
    [status |-> StatusOfAll(Worst), code |-> Worst, canonical |-> IF asked.writes THEN Canonical ELSE NoReport]

CompareInv ==
    \/ stage = "ended" /\ outcome = <<>>
    \/ /\ asked \in CompareRequests
       /\ stage \in {"loading", "checking"} => outcome = <<>>
       /\ DOMAIN outcome \subseteq CompareKeys
       /\ \A key \in DOMAIN outcome : Compared(key)
       /\ stage = "comparing" => CompareKeys # {}
       /\ Concluded => CompareKeys # {} /\ verdict = VerdictOfAll

LEMMA CompareBegins == CompareInit \/ (stage = "ended" /\ outcome = <<>>) => CompareInv
BY DEF CompareInit, CompareInv, Concluded

\* The least of some numbers.
LEMMA LeastOf ==
    ASSUME NEW T, T \subseteq Nat, T # {}
    PROVE  SetMin(T) \in T
<1>1. \E x \in T : \A y \in T : <<y, x>> \notin OpToRel(<, Nat)
  BY NatLessThanWellFounded, WFMin
<1>2. \A x, y \in Nat : x < y => <<x, y>> \in OpToRel(<, Nat)
  BY DEF OpToRel
<1>3. \E x \in T : \A y \in T : ~(y < x)
  BY <1>1, <1>2
<1>4. \E x \in T : \A y \in T : x <= y
  BY <1>3
<1> QED BY <1>4 DEF SetMin

LEMMA KeysAreNumbers == ASSUME asked \in CompareRequests PROVE CompareKeys \subseteq Nat
BY CompareAssumption DEF CompareKeys, Loaded

LEMMA CompareKeeps ==
    ASSUME CompareInv, CompareNext
    PROVE  CompareInv'
<1> USE DEF Concluded
<1>1. /\ stage # "ended"
      /\ asked \in CompareRequests
      /\ stage \in {"loading", "checking"} => outcome = <<>>
      /\ DOMAIN outcome \subseteq CompareKeys
      /\ \A key \in DOMAIN outcome : Compared(key)
  BY DEF CompareInv, CompareNext, LoadSides, CheckSides, CompareKey, Conclude
<1>2. asked' = asked
  BY DEF CompareNext, LoadSides, CheckSides, CompareKey, Conclude, EndWith
<1>3. CompareKeys' = CompareKeys
  BY <1>2 DEF CompareKeys, Loaded
<1>4. \A key : outcome'[key] = outcome[key] /\ Compared(key) => Compared(key)'
  BY <1>2 DEF Compared, BuildComparison
<1>5. CASE LoadSides \/ CheckSides
  <2>1. outcome' = <<>> /\ outcome = <<>>
    BY <1>1, <1>5 DEF LoadSides, CheckSides, EndWith
  <2>2. DOMAIN outcome' = {} /\ DOMAIN outcome = {}
    BY <2>1
  <2>3. stage' = "comparing" => CompareKeys # {}
    BY <1>5 DEF LoadSides, CheckSides, EndWith
  <2> QED BY <2>1, <2>2, <2>3, <1>1, <1>2, <1>3 DEF CompareInv
<1>6. CASE CompareKey
  <2>1. PICK key : key = SetMin(CompareKeys \ DOMAIN outcome)
    OBVIOUS
  <2>2. key \in CompareKeys \ DOMAIN outcome
    <3>1. CompareKeys \ DOMAIN outcome \subseteq Nat /\ CompareKeys \ DOMAIN outcome # {}
      BY <1>1, <1>6, KeysAreNumbers DEF CompareKey
    <3> QED BY <2>1, <3>1, LeastOf
  <2>3. PICK left, right : left = ReportOf(asked.left, key) /\ right = ReportOf(asked.right, key)
    OBVIOUS
  <2>4. CASE UNCHANGED outcome /\ stage' = "ended" /\ CompareKeys # DOMAIN outcome
    BY <2>4, <1>1, <1>2, <1>3, <1>4 DEF CompareInv
  <2>5. CASE /\ UNCHANGED stage /\ (left # NoReport \/ right # NoReport)
             /\ \E a \in Answers(left, right) :
                   outcome' = [k \in DOMAIN outcome \cup {key} |->
                                  IF k = key THEN BuildComparison(left, right, a) ELSE outcome[k]]
    <3>1. PICK a \in Answers(left, right) :
             outcome' = [k \in DOMAIN outcome \cup {key} |->
                            IF k = key THEN BuildComparison(left, right, a) ELSE outcome[k]]
      BY <2>5
    <3>2. /\ DOMAIN outcome' = DOMAIN outcome \cup {key}
          /\ outcome'[key] = BuildComparison(left, right, a)
          /\ \A k \in DOMAIN outcome : outcome'[k] = outcome[k]
      BY <3>1, <2>2
    <3>3. Compared(key)'
      BY <3>1, <3>2, <2>3, <2>5, <1>2 DEF Compared, BuildComparison
    <3>4. \A k \in DOMAIN outcome' : Compared(k)'
      BY <3>2, <3>3, <1>1, <1>4
    <3>5. stage' = "comparing" /\ CompareKeys # {}
      <4>1. stage = "comparing"
        BY <1>6 DEF CompareKey
      <4> QED BY <4>1, <2>2, <2>5
    <3> QED BY <3>2, <3>4, <3>5, <2>2, <1>1, <1>2, <1>3 DEF CompareInv
  <2>6. CompareKeys # DOMAIN outcome /\ Answers(left, right) =
            IF left # NoReport /\ right # NoReport THEN Alignments(left, right) ELSE {NoReport}
    BY <1>6 DEF CompareKey, Answers
  <2>7. left = NoReport /\ right = NoReport => UNCHANGED outcome /\ stage' = "ended"
    BY <1>6, <2>1, <2>3 DEF CompareKey, EndWith
  <2>8. left # NoReport \/ right # NoReport =>
          \/ UNCHANGED outcome /\ stage' = "ended"
          \/ /\ \E a \in Answers(left, right) :
                  outcome' = [k \in DOMAIN outcome \cup {key} |->
                                IF k = key THEN BuildComparison(left, right, a) ELSE outcome[k]]
             /\ UNCHANGED stage
    BY <1>6, <2>1, <2>3, <2>6 DEF CompareKey, EndWith
  <2> QED BY <2>4, <2>5, <2>6, <2>7, <2>8
<1>7. CASE Conclude
  <2>1. UNCHANGED outcome /\ CompareKeys = DOMAIN outcome /\ verdict' = VerdictOfAll
    BY <1>7 DEF Conclude, VerdictOfAll
  <2>2. VerdictOfAll' = VerdictOfAll
    BY <2>1, <1>2 DEF VerdictOfAll, StatusOfAll, Worst, Canonical, CodeOf
  <2>3. \A key \in DOMAIN outcome' : Compared(key)'
    BY <2>1, <1>1, <1>4
  <2>4. CompareKeys # {} /\ stage' = "ended"
    BY <1>1, <1>7 DEF Conclude, CompareInv
  <2> QED BY <2>1, <2>2, <2>3, <2>4, <1>1, <1>2, <1>3 DEF CompareInv
<1> QED BY <1>5, <1>6, <1>7 DEF CompareNext

\* A status of a pair names its exit code.
Graded ==
    {Pair("regressed", REGRESSION), Pair("errored", PARTIAL), Pair("incomparable", INCOMPARABLE),
     Pair("changed", OK), Pair("unchanged", OK)}

LEMMA PairsAreGraded ==
    \A left, right, a : BuildComparison(left, right, a) \in Graded
BY DEF BuildComparison, BothPresent, OneSideMissing, Graded

LEMMA WorstIsGravest ==
    ASSUME DOMAIN outcome # {}, \A key \in DOMAIN outcome : outcome[key] \in Graded
    PROVE  /\ \E key \in DOMAIN outcome : Worst = CodeOf(key)
           /\ \A key \in DOMAIN outcome : Precedence(CodeOf(key)) <= Precedence(Worst)
<1> DEFINE codes == {CodeOf(key) : key \in DOMAIN outcome}
<1>1. codes \subseteq {OK, PARTIAL, REGRESSION, INCOMPARABLE} /\ codes # {}
  BY DEF CodeOf, Graded, Pair
<1>2. /\ Precedence(OK) = 0 /\ Precedence(PARTIAL) = 6
      /\ Precedence(INCOMPARABLE) = 7 /\ Precedence(REGRESSION) = 8
  BY DEF Precedence, OK, PARTIAL, INCOMPARABLE, REGRESSION, INVALID, MISSING
<1> HIDE DEF codes
<1>3. \E w \in codes : \A c \in codes : Precedence(c) <= Precedence(w)
  <2>1. CASE REGRESSION \in codes BY <2>1, <1>1, <1>2
  <2>2. CASE REGRESSION \notin codes /\ INCOMPARABLE \in codes BY <2>2, <1>1, <1>2
  <2>3. CASE REGRESSION \notin codes /\ INCOMPARABLE \notin codes /\ PARTIAL \in codes BY <2>3, <1>1, <1>2
  <2>4. CASE REGRESSION \notin codes /\ INCOMPARABLE \notin codes /\ PARTIAL \notin codes BY <2>4, <1>1, <1>2
  <2> QED BY <2>1, <2>2, <2>3, <2>4
<1>4. \E w \in codes : \A key \in DOMAIN outcome : Precedence(CodeOf(key)) <= Precedence(w)
  BY <1>3 DEF codes
<1>5. Worst \in codes /\ \A key \in DOMAIN outcome : Precedence(CodeOf(key)) <= Precedence(Worst)
  <2>1. Worst = CHOOSE w \in codes : \A key \in DOMAIN outcome : Precedence(CodeOf(key)) <= Precedence(w)
    BY DEF Worst, codes
  <2> QED BY <2>1, <1>4
<1> QED BY <1>5 DEF codes

LEMMA VerdictIsTrue ==
    ASSUME CompareInv
    PROVE  VerdictTellsAll
<1> SUFFICES ASSUME Concluded PROVE VerdictTellsAll
  BY DEF VerdictTellsAll
<1>1. /\ asked \in CompareRequests /\ DOMAIN outcome = CompareKeys /\ CompareKeys # {}
      /\ verdict = VerdictOfAll /\ \A key \in DOMAIN outcome : Compared(key)
  BY DEF CompareInv, Concluded
<1>2. \A key \in DOMAIN outcome : outcome[key] \in Graded
  BY <1>1, PairsAreGraded DEF Compared
<1>3. /\ \E key \in DOMAIN outcome : Worst = CodeOf(key)
      /\ \A key \in DOMAIN outcome : Precedence(CodeOf(key)) <= Precedence(Worst)
  BY <1>1, <1>2, WorstIsGravest
<1>4. verdict.code = Worst /\ verdict.status = StatusOfAll(Worst)
      /\ verdict.canonical = IF asked.writes THEN Canonical ELSE NoReport
  BY <1>1 DEF VerdictOfAll
<1>5. /\ Precedence(OK) = 0 /\ Precedence(PARTIAL) = 6
      /\ Precedence(INCOMPARABLE) = 7 /\ Precedence(REGRESSION) = 8
  BY DEF Precedence, OK, PARTIAL, INCOMPARABLE, REGRESSION, INVALID, MISSING
<1>6. /\ OK # PARTIAL /\ OK # REGRESSION /\ OK # INCOMPARABLE
      /\ PARTIAL # REGRESSION /\ PARTIAL # INCOMPARABLE /\ REGRESSION # INCOMPARABLE
  BY DEF OK, PARTIAL, REGRESSION, INCOMPARABLE
<1>7. \A key \in DOMAIN outcome :
        /\ outcome[key].status \in {"regressed", "errored", "incomparable", "changed", "unchanged"}
        /\ CodeOf(key) = CASE outcome[key].status = "regressed" -> REGRESSION
                           [] outcome[key].status = "incomparable" -> INCOMPARABLE
                           [] outcome[key].status = "errored" -> PARTIAL
                           [] outcome[key].status = "changed" /\ asked.failOnChanged -> REGRESSION
                           [] OTHER -> OK
  BY <1>2 DEF Graded, Pair, CodeOf
<1>8a. Has({"regressed"}) \/ (asked.failOnChanged /\ Has({"changed"})) <=>
          \E key \in DOMAIN outcome : CodeOf(key) = REGRESSION
  BY <1>6, <1>7 DEF Has
<1>8. Worst = IF Has({"regressed"}) \/ (asked.failOnChanged /\ Has({"changed"})) THEN REGRESSION
              ELSE IF Has({"incomparable"}) THEN INCOMPARABLE
              ELSE IF Has({"errored"}) THEN PARTIAL
              ELSE OK
  <2>1. CASE Has({"regressed"}) \/ (asked.failOnChanged /\ Has({"changed"}))
    BY <1>3, <1>5, <1>6, <1>7, <1>8a, <2>1
  <2>2. CASE ~(Has({"regressed"}) \/ (asked.failOnChanged /\ Has({"changed"}))) /\ Has({"incomparable"})
    <3>1. \E key \in DOMAIN outcome : CodeOf(key) = INCOMPARABLE
      BY <1>7, <2>2 DEF Has
    <3> QED BY <1>3, <1>5, <1>6, <1>7, <1>8a, <2>2, <3>1
  <2>3. CASE ~(Has({"regressed"}) \/ (asked.failOnChanged /\ Has({"changed"}))) /\ ~Has({"incomparable"}) /\ Has({"errored"})
    BY <1>3, <1>5, <1>7, <2>3 DEF Has
  <2>4. CASE ~(Has({"regressed"}) \/ (asked.failOnChanged /\ Has({"changed"}))) /\ ~Has({"incomparable"}) /\ ~Has({"errored"})
    BY <1>3, <1>5, <1>7, <2>4 DEF Has
  <2> QED BY <2>1, <2>2, <2>3, <2>4
<1>9. StatusOfAll(Worst) = "unchanged" <=> \A key \in CompareKeys : outcome[key].status = "unchanged"
  BY <1>1, <1>6, <1>7, <1>8 DEF StatusOfAll, Has
<1>10. asked.writes /\ Has({"regressed", "errored", "incomparable"}) =>
          outcome[verdict.canonical].status \notin {"unchanged", "changed"}
  <2> SUFFICES ASSUME asked.writes, Has({"regressed", "errored", "incomparable"})
               PROVE  outcome[verdict.canonical].status \notin {"unchanged", "changed"}
    OBVIOUS
  <2> DEFINE grave == {k \in DOMAIN outcome : outcome[k].status \in {"regressed", "errored", "incomparable"}}
  <2>1. grave \subseteq Nat /\ grave # {}
    BY <1>1, KeysAreNumbers DEF Has
  <2>2. verdict.canonical = SetMin(grave)
    BY <1>4, <2>1 DEF Canonical
  <2>3. SetMin(grave) \in grave
    BY <2>1, LeastOf
  <2> QED BY <2>2, <2>3
<1> QED BY <1>1, <1>4, <1>8, <1>9, <1>10 DEF VerdictTellsAll

LEMMA LossShows ==
    ASSUME CompareInv
    PROVE  LossIsSeen
<1> SUFFICES ASSUME Concluded PROVE LossIsSeen
  BY DEF LossIsSeen
<1>1. DOMAIN outcome = CompareKeys /\ \A key \in CompareKeys : Compared(key)
  BY DEF CompareInv, Concluded
<1>2. VerdictTellsAll
  BY VerdictIsTrue
<1>3. ASSUME NEW key \in CompareKeys, outcome[key].status = "unchanged"
      PROVE  ~Lost(key)
  <2> DEFINE left == ReportOf(asked.left, key)
             right == ReportOf(asked.right, key)
  <2>1. PICK a \in Answers(left, right) : outcome[key] = BuildComparison(left, right, a)
    BY <1>1, <1>3 DEF Compared
  <2>2. left # NoReport /\ right # NoReport /\ ~ReadingChanged(left, right, a)
    BY <1>3, <2>1 DEF BuildComparison, BothPresent, OneSideMissing, Pair
  <2>3. StatusesOf(left) = StatusesOf(right) /\ Texts(left.occurrences) = Texts(right.occurrences)
    BY <2>2 DEF ReadingChanged, ChecksDiffer
  <2>4. DOMAIN left.checks = DOMAIN right.checks
        /\ \A c \in DOMAIN left.checks : left.checks[c].status = right.checks[c].status
    <3>1. DOMAIN StatusesOf(left) = DOMAIN left.checks /\ DOMAIN StatusesOf(right) = DOMAIN right.checks
          /\ (\A c \in DOMAIN left.checks : StatusesOf(left)[c] = left.checks[c].status)
          /\ \A c \in DOMAIN right.checks : StatusesOf(right)[c] = right.checks[c].status
      BY DEF StatusesOf
    <3> QED BY <2>3, <3>1
  <2>5. DOMAIN left.occurrences = DOMAIN right.occurrences
        /\ \A i \in DOMAIN left.occurrences : left.occurrences[i].raw = right.occurrences[i].raw
    <3>1. \A o : DOMAIN Texts(o) = DOMAIN o /\ \A i \in DOMAIN o : Texts(o)[i] = o[i].raw
      BY DEF Texts
    <3> QED BY <2>3, <3>1
  <2> QED BY <2>2, <2>4, <2>5 DEF Lost, Completed
<1>4. ASSUME NEW key \in CompareKeys, Fewer(key), Policy(asked.rules, "failOnCoverageLoss")
      PROVE  outcome[key].status = "regressed"
  <2> DEFINE left == ReportOf(asked.left, key)
             right == ReportOf(asked.right, key)
  <2>1. PICK a \in Answers(left, right) : outcome[key] = BuildComparison(left, right, a)
    BY <1>1 DEF Compared
  <2>2. CASE right = NoReport
    BY <1>4, <2>1, <2>2 DEF BuildComparison, OneSideMissing, Pair
  <2>3. CASE right # NoReport
    BY <1>4, <2>1, <2>3 DEF Fewer, BuildComparison, BothPresent, CoverageLost, Pair
  <2> QED BY <2>2, <2>3
<1>5. verdict.status = "unchanged" => \A key \in CompareKeys : ~Lost(key)
  BY <1>2, <1>3 DEF VerdictTellsAll
<1>6. ASSUME NEW key \in CompareKeys, Fewer(key), Policy(asked.rules, "failOnCoverageLoss")
      PROVE  verdict.code = REGRESSION
  <2>1. Has({"regressed"})
    BY <1>1, <1>4, <1>6 DEF Has
  <2> QED BY <2>1, <1>2 DEF VerdictTellsAll
<1> QED BY <1>5, <1>6 DEF LossIsSeen

(***************************************************************************)
(* The readers.  A walk has kept, emitted or pending, exactly the pieces of *)
(* the page that begin before its open run, or before the next item when no *)
(* run is open, numbered in the order of the page.                          *)
(***************************************************************************)
Pieces == [ordinal : Nat, from : Nat, length : Nat]
OpenRuns == [from : Nat, length : Nat, box : Nat]
Walks == [run : OpenRuns, ordinal : Nat, chunk : Seq(Pieces), emitted : Seq(Pieces),
          retained : Seq(Nat), produced : Nat]

Kept(w) == w.emitted \o w.chunk

PieceAt(r, i) ==
    CASE r.reader = "pdfium" -> GlyphAt(r.items, i)
      [] r.reader = "tesseract" -> [from |-> i, length |-> 1]
      [] r.reader = "pypdf" -> [from |-> 1, length |-> Len(r.items)]

WantedAt(r, i) ==
    [ordinal |-> Rank(StartsOf(r), i), from |-> PieceAt(r, i).from, length |-> PieceAt(r, i).length]

StartsBefore(r, at) == {s \in StartsOf(r) : s < at}

KeptFits(r, w, at) ==
    /\ w.retained = IdsOf(w.emitted) /\ w.produced = Len(w.emitted)
    /\ \A i \in DOMAIN Kept(w) : Kept(w)[i].ordinal = i - 1
    /\ \A i \in DOMAIN Kept(w) : \E s \in StartsBefore(r, at) : Kept(w)[i] = WantedAt(r, s)
    /\ \A s \in StartsBefore(r, at) : \E i \in DOMAIN Kept(w) : Kept(w)[i] = WantedAt(r, s)

Counted(r, w, at) == w.ordinal = Len(Kept(w)) /\ w.ordinal = Cardinality(StartsBefore(r, at))

OpenAt(run, c) == IF run.length > 0 THEN run.from ELSE c + 1

RunFits(r, run, c) ==
    /\ run.length > 0 =>
          /\ run.from \in StartsOf(r) /\ run.from + run.length = c + 1
          /\ \A j \in (run.from + 1)..c : Joined(r.items, j)
          /\ IsGlyph(r.items, c) /\ run.box = r.items[c].box
    /\ run.length = 0 => run = NoRun /\ ~IsGlyph(r.items, c)

Ongoing ==
    /\ KeptFits(reading, walk, OpenAt(walk.run, cursor))
    /\ Counted(reading, walk, OpenAt(walk.run, cursor))
    /\ cursor = 0 => walk = EmptyWalk
    /\ reading.reader = "pdfium" => RunFits(reading, walk.run, cursor)
    /\ reading.reader # "pdfium" => walk.run = NoRun
    /\ reading.reader = "tesseract" =>
          /\ walk.ordinal <= MaxWords /\ \A j \in 1..cursor : reading.items[j].kind # "fault"
          /\ crop = NoCrop => cursor = 0
    /\ reading.reader = "pypdf" => cursor = 0

ReadersInv ==
    /\ reading \in ReadingRequests /\ cursor \in 0..Len(reading.items) /\ walk \in Walks
    /\ ReadersKeepAll
    /\ ending = NoEnding => Ongoing

----------------------------------------------------------------------------
LEMMA WantedIs == ASSUME NEW r PROVE Wanted(r) = {WantedAt(r, i) : i \in StartsOf(r)}
BY DEF Wanted, WantedAt, PieceAt

LEMMA RequestIs ==
    ASSUME NEW r \in ReadingRequests
    PROVE  /\ r.reader \in {"pdfium", "pypdf", "tesseract"}
           /\ r.items \in Seq([kind : KindsOf(r.reader), box : Nat])
           /\ Len(r.items) \in Nat /\ DOMAIN r.items = 1..Len(r.items)
           /\ \A i \in 1..Len(r.items) : r.items[i].kind \in KindsOf(r.reader) /\ r.items[i].box \in Nat
<1>1. r.reader \in {"pdfium", "pypdf", "tesseract"}
      /\ r.items \in Seq([kind : KindsOf(r.reader), box : Nat])
    BY RequestsAreReadings
<1>2. Len(r.items) \in Nat /\ DOMAIN r.items = 1..Len(r.items)
    BY <1>1, LenProperties
<1>3. \A i \in 1..Len(r.items) : r.items[i] \in [kind : KindsOf(r.reader), box : Nat]
    BY <1>1, ElementOfSeq
<1> QED BY <1>1, <1>2, <1>3

LEMMA StartsAreFinite ==
    ASSUME NEW r \in ReadingRequests, NEW at
    PROVE  /\ IsFiniteSet(StartsBefore(r, at)) /\ Cardinality(StartsBefore(r, at)) \in Nat
           /\ StartsOf(r) \subseteq Nat \ {0}
<1>1. r.reader \in {"pdfium", "pypdf", "tesseract"} /\ Len(r.items) \in Nat
      /\ DOMAIN r.items = 1..Len(r.items)
    BY RequestIs
<1>2. StartsOf(r) \subseteq (1..Len(r.items)) \cup {1}
    BY <1>1 DEF StartsOf
<1>3. IsFiniteSet((1..Len(r.items)) \cup {1})
  <2>1. IsFiniteSet(1..Len(r.items))
      BY <1>1, FS_Interval
  <2> QED BY <2>1, FS_AddElement
<1>4. StartsBefore(r, at) \in SUBSET ((1..Len(r.items)) \cup {1})
    BY <1>2 DEF StartsBefore
<1>5. IsFiniteSet(StartsBefore(r, at))
    BY <1>3, <1>4, FS_Subset
<1>6. StartsOf(r) \subseteq Nat \ {0}
    BY <1>1, <1>2
<1> QED BY <1>5, <1>6, FS_CardinalityType

(***************************************************************************)
(* The ordinals of a sequence of pieces, and of two joined.                 *)
(***************************************************************************)
LEMMA IdsAreNumbers ==
    ASSUME NEW s \in Seq(Pieces)
    PROVE  /\ IdsOf(s) \in Seq(Nat) /\ Len(IdsOf(s)) = Len(s)
           /\ \A i \in 1..Len(s) : IdsOf(s)[i] = s[i].ordinal
<1>1. Len(s) \in Nat /\ DOMAIN s = 1..Len(s)
    BY LenProperties
<1>2. \A i \in 1..Len(s) : s[i] \in Pieces
    BY ElementOfSeq
<1>3. \A i \in 1..Len(s) : s[i].ordinal \in Nat
    BY <1>2 DEF Pieces
<1> DEFINE n == Len(s)
           ids == [i \in 1..n |-> s[i].ordinal]
<1>4. IdsOf(s) = ids
    BY <1>1 DEF IdsOf
<1>5. ids \in [1..n -> Nat] /\ n \in Nat
    BY <1>1, <1>3
<1>6. \A i \in 1..n : ids[i] = s[i].ordinal
    OBVIOUS
<1> HIDE DEF ids, n
<1>7. ids \in Seq(Nat) /\ Len(ids) = n
    BY <1>5
<1> QED BY <1>4, <1>6, <1>7 DEF n

Joins(u, s, t) ==
    /\ Len(s) \in Nat /\ Len(t) \in Nat /\ Len(u) = Len(s) + Len(t)
    /\ DOMAIN s = 1..Len(s) /\ DOMAIN t = 1..Len(t) /\ DOMAIN u = 1..(Len(s) + Len(t))
    /\ \A i \in 1..Len(s) : u[i] = s[i]
    /\ \A i \in 1..Len(t) : u[Len(s) + i] = t[i]

LEMMA JoinedLengths ==
    ASSUME NEW S, NEW s \in Seq(S), NEW t \in Seq(S)
    PROVE  s \o t \in Seq(S) /\ Joins(s \o t, s, t)
<1> DEFINE m == Len(s)
           n == Len(t)
           u == s \o t
<1>1. m \in Nat /\ n \in Nat /\ DOMAIN s = 1..m /\ DOMAIN t = 1..n
    BY LenProperties
<1>2. /\ u \in Seq(S) /\ Len(u) = m + n
      /\ \A i \in 1..(m + n) : u[i] = IF i <= m THEN s[i] ELSE t[i - m]
    BY ConcatProperties
<1>3. DOMAIN u = 1..(m + n)
    BY <1>2, LenProperties
<1> HIDE DEF m, n, u
<1>4. \A i \in 1..m : u[i] = s[i]
    BY <1>1, <1>2
<1>5. ASSUME NEW i \in 1..n
      PROVE  u[m + i] = t[i]
  <2>1. m + i \in 1..(m + n) /\ ~(m + i <= m) /\ (m + i) - m = i
      BY <1>1
  <2> QED BY <2>1, <1>2
<1>6. /\ Len(s) \in Nat /\ Len(t) \in Nat /\ Len(u) = Len(s) + Len(t)
      /\ DOMAIN s = 1..Len(s) /\ DOMAIN t = 1..Len(t) /\ DOMAIN u = 1..(Len(s) + Len(t))
      /\ \A i \in 1..Len(s) : u[i] = s[i]
      /\ \A i \in 1..Len(t) : u[Len(s) + i] = t[i]
    BY <1>1, <1>2, <1>3, <1>4, <1>5 DEF m, n
<1>7. Joins(u, s, t)
    BY <1>6, Zenon DEF Joins
<1> QED BY <1>2, <1>7 DEF u

LEMMA SplitIndex ==
    ASSUME NEW m \in Nat, NEW n \in Nat, NEW i \in 1..(m + n)
    PROVE  i \in 1..m \/ \E k \in 1..n : i = m + k
<1>1. CASE i <= m
    BY <1>1
<1>2. CASE ~(i <= m)
  <2>1. i - m \in 1..n /\ i = m + (i - m)
      BY <1>2
  <2> QED BY <2>1
<1> QED BY <1>1, <1>2

LEMMA IdsJoin ==
    ASSUME NEW s \in Seq(Pieces), NEW t \in Seq(Pieces)
    PROVE  IdsOf(s \o t) = IdsOf(s) \o IdsOf(t)
<1> DEFINE a == IdsOf(s)
           b == IdsOf(t)
           c == IdsOf(s \o t)
           m == Len(s)
           n == Len(t)
<1>1. /\ a \in Seq(Nat) /\ Len(a) = m /\ \A i \in 1..m : a[i] = s[i].ordinal
      /\ b \in Seq(Nat) /\ Len(b) = n /\ \A i \in 1..n : b[i] = t[i].ordinal
    BY IdsAreNumbers
<1>2. /\ s \o t \in Seq(Pieces) /\ Len(s \o t) = m + n /\ m \in Nat /\ n \in Nat
      /\ \A i \in 1..m : (s \o t)[i] = s[i]
      /\ \A i \in 1..n : (s \o t)[m + i] = t[i]
    BY JoinedLengths DEF Joins
<1>3. /\ c \in Seq(Nat) /\ Len(c) = m + n
      /\ \A i \in 1..(m + n) : c[i] = (s \o t)[i].ordinal
  <2>1. c \in Seq(Nat) /\ Len(c) = Len(s \o t)
        /\ \A i \in 1..Len(s \o t) : c[i] = (s \o t)[i].ordinal
      BY <1>2, IdsAreNumbers
  <2> QED BY <2>1, <1>2
<1> HIDE DEF a, b, c, m, n
<1>4. /\ a \o b \in Seq(Nat) /\ Len(a \o b) = m + n
      /\ \A i \in 1..m : (a \o b)[i] = a[i]
      /\ \A i \in 1..n : (a \o b)[m + i] = b[i]
  <2> DEFINE d == a \o b
  <2>1. d \in Seq(Nat) /\ Joins(d, a, b)
    <3>1. a \in Seq(Nat) /\ b \in Seq(Nat)
        BY <1>1
    <3> QED BY <3>1, JoinedLengths, Zenon
  <2> HIDE DEF d
  <2>2. Len(a) = m /\ Len(b) = n
      BY <1>1
  <2>3. /\ d \in Seq(Nat) /\ Len(d) = m + n
        /\ \A i \in 1..m : d[i] = a[i]
        /\ \A i \in 1..n : d[m + i] = b[i]
      BY <2>1, <2>2 DEF Joins
  <2> QED BY <2>3 DEF d
<1>5. ASSUME NEW i \in 1..(m + n)
      PROVE  c[i] = (a \o b)[i]
  <2>1. CASE i \in 1..m
    <3>1. c[i] = s[i].ordinal
        BY <2>1, <1>2, <1>3
    <3>2. (a \o b)[i] = a[i] /\ a[i] = s[i].ordinal
        BY <2>1, <1>1, <1>4
    <3> QED BY <3>1, <3>2
  <2>2. CASE \E k \in 1..n : i = m + k
    <3>1. PICK k \in 1..n : i = m + k
        BY <2>2
    <3>2. c[i] = t[k].ordinal
        BY <3>1, <1>2, <1>3
    <3>3. (a \o b)[i] = b[k]
        BY <3>1, <1>4
    <3> QED BY <3>2, <3>3, <1>1
  <2> QED BY <2>1, <2>2, <1>2, SplitIndex
<1>6. c = a \o b
    BY <1>3, <1>4, <1>5, SeqEqual
<1> QED BY <1>6 DEF a, b, c

(***************************************************************************)
(* Emitting the chunk changes nothing of what is kept.                      *)
(***************************************************************************)
LEMMA EmitFields ==
    ASSUME NEW w \in Walks
    PROVE  /\ EmitChunk(w).run = w.run /\ EmitChunk(w).ordinal = w.ordinal
           /\ EmitChunk(w).emitted = w.emitted \o w.chunk /\ EmitChunk(w).chunk = <<>>
           /\ EmitChunk(w).retained = w.retained \o IdsOf(w.chunk)
           /\ EmitChunk(w).produced = w.produced + Len(w.chunk)
           /\ EmitChunk(w) \in Walks
<1>1. /\ w.run \in OpenRuns /\ w.ordinal \in Nat /\ w.chunk \in Seq(Pieces) /\ w.emitted \in Seq(Pieces)
      /\ w.retained \in Seq(Nat) /\ w.produced \in Nat
    BY DEF Walks
<1>2. IdsOf(w.chunk) \in Seq(Nat)
    BY <1>1, IdsAreNumbers
<1> DEFINE e == w.emitted \o w.chunk
           t == w.retained \o IdsOf(w.chunk)
           p == w.produced + Len(w.chunk)
<1>3. e \in Seq(Pieces) /\ t \in Seq(Nat) /\ p \in Nat /\ <<>> \in Seq(Pieces)
    BY <1>1, <1>2
<1>4. EmitChunk(w) = [w EXCEPT !.emitted = e, !.retained = t, !.produced = p, !.chunk = <<>>]
    BY DEF EmitChunk
<1> HIDE DEF e, t, p
<1>5. /\ EmitChunk(w).run = w.run /\ EmitChunk(w).ordinal = w.ordinal
      /\ EmitChunk(w).emitted = e /\ EmitChunk(w).chunk = <<>>
      /\ EmitChunk(w).retained = t /\ EmitChunk(w).produced = p
    BY <1>4, Zenon DEF Walks
<1>6. EmitChunk(w) \in Walks
    BY <1>3, <1>4, Zenon DEF Walks
<1> QED BY <1>5, <1>6 DEF e, t, p

\* Both parts of what a walk keeps.
LEMMA KeptParts ==
    ASSUME NEW w \in Walks
    PROVE  /\ Kept(w) \in Seq(Pieces) /\ DOMAIN Kept(w) = 1..Len(Kept(w))
           /\ Len(w.emitted) \in Nat /\ Len(w.chunk) \in Nat
           /\ Len(Kept(w)) = Len(w.emitted) + Len(w.chunk)
           /\ DOMAIN w.emitted = 1..Len(w.emitted)
           /\ \A i \in 1..Len(w.emitted) : Kept(w)[i] = w.emitted[i]
           /\ \A i \in 1..Len(w.chunk) : Kept(w)[Len(w.emitted) + i] = w.chunk[i]
<1>1. w.chunk \in Seq(Pieces) /\ w.emitted \in Seq(Pieces)
    BY DEF Walks
<1> DEFINE e == w.emitted
           h == w.chunk
           u == e \o h
<1>0. e \in Seq(Pieces) /\ h \in Seq(Pieces)
    BY <1>1
<1> HIDE DEF e, h
<1>2. u \in Seq(Pieces) /\ Joins(u, e, h)
    BY <1>0, JoinedLengths, Zenon
<1> HIDE DEF u
<1>3. DOMAIN u = 1..Len(u)
    BY <1>2 DEF Joins
<1> QED BY <1>2, <1>3, Zenon DEF Kept, Joins, e, h, u

LEMMA EmitFits ==
    ASSUME NEW r, NEW w \in Walks, NEW at, KeptFits(r, w, at)
    PROVE  KeptFits(r, EmitChunk(w), at) /\ Kept(EmitChunk(w)) = Kept(w)
<1> DEFINE v == EmitChunk(w)
<1>1. /\ v.emitted = w.emitted \o w.chunk /\ v.chunk = <<>>
      /\ v.retained = w.retained \o IdsOf(w.chunk) /\ v.produced = w.produced + Len(w.chunk)
      /\ v \in Walks
    BY EmitFields
<1> HIDE DEF v
<1>2. w.chunk \in Seq(Pieces) /\ w.emitted \in Seq(Pieces) /\ v.emitted \in Seq(Pieces)
    BY <1>1 DEF Walks
<1>3. Kept(v) = v.emitted /\ v.emitted = Kept(w)
    BY <1>1, <1>2, ConcatEmptySeq DEF Kept
<1>4. v.produced = Len(v.emitted)
    BY <1>1, <1>3, KeptParts DEF KeptFits
<1>5. v.retained = IdsOf(v.emitted)
    BY <1>1, <1>2, IdsJoin DEF KeptFits
<1>6. KeptFits(r, v, at)
    BY <1>3, <1>4, <1>5 DEF KeptFits
<1> QED BY <1>3, <1>6 DEF v

(***************************************************************************)
(* Keeping one more piece, the next of the page.                            *)
(***************************************************************************)
LEMMA AppendsLater ==
    ASSUME NEW S, NEW e \in Seq(S), NEW h \in Seq(S), NEW o \in S
    PROVE  e \o Append(h, o) = Append(e \o h, o)
<1>1. Append(h, o) = h \o <<o>> /\ <<o>> \in Seq(S)
    BY AppendIsConcat
<1>2. (e \o h) \o <<o>> = e \o (h \o <<o>>)
    BY <1>1, ConcatAssociative
<1>3. e \o h \in Seq(S)
    BY ConcatProperties
<1>4. Append(e \o h, o) = (e \o h) \o <<o>>
    BY <1>3, AppendIsConcat
<1> QED BY <1>1, <1>2, <1>4

LEMMA KeptAppends ==
    ASSUME NEW w \in Walks, NEW v \in Walks, NEW o \in Pieces,
           v.emitted = w.emitted, v.chunk = Append(w.chunk, o)
    PROVE  /\ Len(Kept(v)) = Len(Kept(w)) + 1 /\ Kept(v)[Len(Kept(w)) + 1] = o
           /\ \A i \in 1..Len(Kept(w)) : Kept(v)[i] = Kept(w)[i]
<1>1. w.emitted \in Seq(Pieces) /\ w.chunk \in Seq(Pieces)
    BY DEF Walks
<1> DEFINE k == Kept(w)
<1>2. Kept(v) = Append(k, o) /\ k \in Seq(Pieces)
  <2>1. \A e, h \in Seq(Pieces) : e \o Append(h, o) = Append(e \o h, o)
      BY AppendsLater
  <2>3. w.emitted \o Append(w.chunk, o) = Append(w.emitted \o w.chunk, o)
      BY <1>1, <2>1, Zenon
  <2>2. w.emitted \o w.chunk \in Seq(Pieces)
      BY <1>1, ConcatProperties
  <2> QED BY <2>2, <2>3 DEF Kept
<1> HIDE DEF k
<1>3. /\ Len(Append(k, o)) = Len(k) + 1 /\ Append(k, o)[Len(k) + 1] = o
      /\ \A i \in 1..Len(k) : Append(k, o)[i] = k[i]
    BY <1>2, AppendProperties
<1> QED BY <1>2, <1>3 DEF k

LEMMA KeepFits ==
    ASSUME NEW r \in ReadingRequests, NEW w \in Walks, NEW at, NEW s \in StartsOf(r), NEW next,
           KeptFits(r, w, at), Counted(r, w, at),
           StartsBefore(r, at) = StartsBefore(r, s),
           StartsBefore(r, next) = StartsBefore(r, s) \cup {s},
           PieceAt(r, s).from = s, PieceAt(r, s).length \in Nat
    PROVE  LET v == Keep(w, s, PieceAt(r, s).length)
           IN  /\ v \in Walks /\ v.run = w.run /\ v.ordinal = w.ordinal + 1
               /\ KeptFits(r, v, next) /\ Counted(r, v, next)
<1> DEFINE length == PieceAt(r, s).length
           o == [ordinal |-> w.ordinal, from |-> s, length |-> length]
           added == [w EXCEPT !.ordinal = @ + 1, !.chunk = Append(@, o)]
           bigger == w.ordinal + 1
           longer == Append(w.chunk, o)
           before == StartsBefore(r, s)
<1>1. /\ w.run \in OpenRuns /\ w.ordinal \in Nat /\ w.chunk \in Seq(Pieces) /\ w.emitted \in Seq(Pieces)
      /\ w.retained \in Seq(Nat) /\ w.produced \in Nat
    BY DEF Walks
<1>2. s \in Nat /\ length \in Nat
    BY StartsAreFinite
<1>3. o \in Pieces
    BY <1>1, <1>2 DEF Pieces
<1>4. o = WantedAt(r, s)
  <2>1. Rank(StartsOf(r), s) = w.ordinal
      BY DEF Rank, Counted, StartsBefore
  <2> QED BY <2>1 DEF WantedAt
<1>5. added = [w EXCEPT !.ordinal = bigger, !.chunk = longer]
    OBVIOUS
<1> HIDE DEF o
<1>6. bigger \in Nat /\ longer \in Seq(Pieces)
    BY <1>1, <1>3
<1> HIDE DEF bigger, longer, added
<1>7. /\ added.ordinal = bigger /\ added.chunk = longer /\ added.run = w.run
      /\ added.emitted = w.emitted /\ added.retained = w.retained /\ added.produced = w.produced
    BY <1>5, Zenon DEF Walks
<1>8. added \in Walks
    BY <1>5, <1>6, Zenon DEF Walks
<1>9. /\ Len(Kept(added)) = Len(Kept(w)) + 1 /\ Kept(added)[Len(Kept(w)) + 1] = o
      /\ \A i \in 1..Len(Kept(w)) : Kept(added)[i] = Kept(w)[i]
    BY <1>3, <1>7, <1>8, KeptAppends DEF longer
<1>10. /\ DOMAIN Kept(w) = 1..Len(Kept(w)) /\ DOMAIN Kept(added) = 1..Len(Kept(added))
       /\ Len(Kept(w)) = w.ordinal
    BY <1>8, KeptParts DEF Counted
<1>11. KeptFits(r, added, next)
  <2>1. added.retained = IdsOf(added.emitted) /\ added.produced = Len(added.emitted)
      BY <1>7 DEF KeptFits
  <2>2. ASSUME NEW i \in DOMAIN Kept(added)
        PROVE  \/ i \in DOMAIN Kept(w) /\ Kept(added)[i] = Kept(w)[i]
               \/ i = w.ordinal + 1 /\ Kept(added)[i] = o
      BY <1>1, <1>9, <1>10
  <2>3. \A i \in DOMAIN Kept(added) : Kept(added)[i].ordinal = i - 1
    <3>1. o.ordinal = w.ordinal /\ w.ordinal \in Nat
        BY <1>1 DEF o
    <3>2. \A i \in DOMAIN Kept(w) : Kept(w)[i].ordinal = i - 1
        BY DEF KeptFits
    <3>3. (w.ordinal + 1) - 1 = w.ordinal
        BY <3>1
    <3> SUFFICES ASSUME NEW i \in DOMAIN Kept(added)
                 PROVE  Kept(added)[i].ordinal = i - 1
        OBVIOUS
    <3>4. CASE i \in DOMAIN Kept(w) /\ Kept(added)[i] = Kept(w)[i]
        BY <3>2, <3>4
    <3>5. CASE i = w.ordinal + 1 /\ Kept(added)[i] = o
        BY <3>1, <3>3, <3>5
    <3> QED BY <2>2, <3>4, <3>5
  <2>4. \A i \in DOMAIN Kept(added) : \E t \in StartsBefore(r, next) : Kept(added)[i] = WantedAt(r, t)
      BY <2>2, <1>4 DEF KeptFits
  <2>5. ASSUME NEW t \in StartsBefore(r, next)
        PROVE  \E i \in DOMAIN Kept(added) : Kept(added)[i] = WantedAt(r, t)
    <3>1. CASE t = s
        BY <3>1, <1>1, <1>4, <1>9, <1>10
    <3>2. CASE t # s
      <4>1. PICK i \in DOMAIN Kept(w) : Kept(w)[i] = WantedAt(r, t)
          BY <3>2 DEF KeptFits
      <4>2. i \in DOMAIN Kept(added) /\ Kept(added)[i] = Kept(w)[i]
          BY <1>1, <1>9, <1>10
      <4> QED BY <4>1, <4>2
    <3> QED BY <3>1, <3>2
  <2> QED BY <2>1, <2>3, <2>4, <2>5 DEF KeptFits
<1>12. Counted(r, added, next)
  <2>1. s \notin before /\ IsFiniteSet(before) /\ Cardinality(before) = w.ordinal
    <3>1. s \notin before
        BY <1>2 DEF StartsBefore
    <3>2. IsFiniteSet(before)
        BY StartsAreFinite
    <3>3. Cardinality(before) = w.ordinal
        BY DEF Counted
    <3> QED BY <3>1, <3>2, <3>3
  <2>2. Cardinality(StartsBefore(r, next)) = w.ordinal + 1
    <3> HIDE DEF before
    <3>1. StartsBefore(r, next) = before \cup {s}
        BY DEF before
    <3> QED BY <2>1, <3>1, FS_AddElement
  <2> QED BY <2>2, <1>7, <1>9, <1>10 DEF Counted, bigger
<1>13. Keep(w, s, length) = IF Len(added.chunk) >= OccurrenceChunk THEN EmitChunk(added) ELSE added
    BY DEF Keep, added, o
<1>14. CASE Len(added.chunk) >= OccurrenceChunk
  <2>1. Keep(w, s, length) = EmitChunk(added)
      BY <1>13, <1>14
  <2>2. /\ EmitChunk(added) \in Walks /\ EmitChunk(added).run = added.run
        /\ EmitChunk(added).ordinal = added.ordinal
      BY <1>8, EmitFields
  <2>3. KeptFits(r, EmitChunk(added), next) /\ Kept(EmitChunk(added)) = Kept(added)
      BY <1>8, <1>11, EmitFits
  <2>4. Counted(r, EmitChunk(added), next)
      BY <2>2, <2>3, <1>12 DEF Counted
  <2> QED BY <2>1, <2>2, <2>3, <2>4, <1>7 DEF bigger
<1>15. CASE ~(Len(added.chunk) >= OccurrenceChunk)
    BY <1>7, <1>8, <1>11, <1>12, <1>13, <1>15 DEF bigger
<1> QED BY <1>14, <1>15

(***************************************************************************)
(* The characters of one glyph: as long as they are joined, and the space   *)
(* behind them.                                                            *)
(***************************************************************************)
LEMMA GlyphEnds ==
    ASSUME NEW items, Len(items) \in Nat, DOMAIN items = 1..Len(items),
           NEW i \in 1..Len(items), NEW n \in Nat \ {0}, i + n - 1 <= Len(items),
           \A j \in (i + 1)..(i + n - 1) : Joined(items, j), ~Joined(items, i + n)
    PROVE  GlyphAt(items, i) =
              [from |-> i, length |-> IF i + n \in DOMAIN items /\ items[i + n].kind = "space" THEN n + 1 ELSE n]
<1> DEFINE stretch == {m \in 1..(Len(items) + 1 - i) : \A j \in (i + 1)..(i + m - 1) : Joined(items, j)}
           most == CHOOSE m \in stretch : \A k \in stretch : k <= m
<1>1. n \in stretch
    OBVIOUS
<1>2. ASSUME NEW k \in stretch
      PROVE  k \in Nat /\ k <= n
  <2>1. k \in 1..(Len(items) + 1 - i) /\ \A j \in (i + 1)..(i + k - 1) : Joined(items, j)
      OBVIOUS
  <2>2. k > n => i + n \in (i + 1)..(i + k - 1)
      BY <2>1
  <2> QED BY <2>1, <2>2
<1> HIDE DEF stretch
<1>3. most \in stretch /\ \A k \in stretch : k <= most
    BY <1>1, <1>2
<1>4. most = n
  <2> HIDE DEF most
  <2>1. most \in Nat /\ most <= n
      BY <1>2, <1>3
  <2>2. n <= most
      BY <1>1, <1>3
  <2> QED BY <2>1, <2>2
<1>5. GlyphAt(items, i) =
        [from |-> i, length |-> IF i + most \in DOMAIN items /\ items[i + most].kind = "space" THEN most + 1 ELSE most]
    BY DEF GlyphAt, stretch
<1> HIDE DEF most
<1> QED BY <1>4, <1>5

(***************************************************************************)
(* PDFium's walk.                                                          *)
(***************************************************************************)
LEMMA RunApart ==
    ASSUME NEW w \in Walks, NEW x \in OpenRuns
    PROVE  LET v == [w EXCEPT !.run = x]
           IN  /\ v \in Walks /\ v.run = x /\ v.ordinal = w.ordinal
               /\ \A r, at : KeptFits(r, w, at) => KeptFits(r, v, at)
               /\ \A r, at : Counted(r, w, at) => Counted(r, v, at)
<1> DEFINE v == [w EXCEPT !.run = x]
<1>1. v \in Walks
    BY Zenon DEF Walks
<1>2. /\ v.run = x /\ v.ordinal = w.ordinal /\ v.emitted = w.emitted /\ v.chunk = w.chunk
      /\ v.retained = w.retained /\ v.produced = w.produced
    BY Zenon DEF Walks
<1> HIDE DEF v
<1>3. Kept(v) = Kept(w)
    BY <1>2 DEF Kept
<1>4. \A r, at : KeptFits(r, w, at) => KeptFits(r, v, at)
    BY <1>2, <1>3 DEF KeptFits
<1>5. \A r, at : Counted(r, w, at) => Counted(r, v, at)
    BY <1>2, <1>3 DEF Counted
<1> QED BY <1>1, <1>2, <1>4, <1>5 DEF v

LEMMA GlyphStarts ==
    ASSUME NEW r \in ReadingRequests, r.reader = "pdfium"
    PROVE  /\ \A i : i \in StartsOf(r) <=> IsGlyph(r.items, i) /\ ~Joined(r.items, i)
           /\ \A i : PieceAt(r, i) = GlyphAt(r.items, i) /\ PieceAt(r, i).from = i
<1>1. StartsOf(r) = {i \in DOMAIN r.items : IsGlyph(r.items, i) /\ ~Joined(r.items, i)}
    BY DEF StartsOf
<1>2. \A i : PieceAt(r, i) = GlyphAt(r.items, i)
    BY DEF PieceAt
<1>3. \A i : GlyphAt(r.items, i).from = i
    BY DEF GlyphAt
<1> QED BY <1>1, <1>2, <1>3 DEF IsGlyph

\* No piece begins at what is no glyph, or in the middle of a run.
LEMMA NoStartThere ==
    ASSUME NEW r \in ReadingRequests, NEW c \in Nat, c \notin StartsOf(r)
    PROVE  StartsBefore(r, c + 1) = StartsBefore(r, c)
<1>1. StartsOf(r) \subseteq Nat
    BY StartsAreFinite
<1>2. \A s \in StartsOf(r) : s < c + 1 <=> s < c
    BY <1>1
<1> QED BY <1>2 DEF StartsBefore

LEMMA OneStartInRun ==
    ASSUME NEW r \in ReadingRequests, r.reader = "pdfium", NEW run \in OpenRuns, NEW c \in Nat,
           RunFits(r, run, c), run.length > 0
    PROVE  /\ run.from \in StartsOf(r) /\ run.from \in Nat \ {0} /\ run.length \in Nat \ {0}
           /\ run.from + run.length = c + 1
           /\ StartsBefore(r, c + 1) = StartsBefore(r, run.from) \cup {run.from}
<1>1. /\ run.from \in StartsOf(r) /\ run.from + run.length = c + 1
      /\ \A j \in (run.from + 1)..c : Joined(r.items, j)
    BY DEF RunFits
<1>2. run.from \in Nat \ {0} /\ run.length \in Nat \ {0} /\ StartsOf(r) \subseteq Nat
    BY <1>1, StartsAreFinite DEF OpenRuns
<1>3. \A j \in (run.from + 1)..c : j \notin StartsOf(r)
    BY <1>1, GlyphStarts
<1>4. \A j \in StartsOf(r) : j < c + 1 <=> j < run.from \/ j = run.from
    BY <1>1, <1>2, <1>3
<1> QED BY <1>1, <1>2, <1>4 DEF StartsBefore

\* A run of which the length is known is closed.
LEMMA RunIsClosed ==
    ASSUME NEW r \in ReadingRequests, r.reader = "pdfium", NEW w \in Walks, NEW c \in Nat,
           NEW s \in StartsOf(r), w.run.from = s, w.run.length \in Nat \ {0},
           KeptFits(r, w, s), Counted(r, w, s),
           StartsBefore(r, c) = StartsBefore(r, s) \cup {s},
           PieceAt(r, s).length = w.run.length
    PROVE  LET v == FlushRun(w)
           IN  v \in Walks /\ v.run = NoRun /\ KeptFits(r, v, c) /\ Counted(r, v, c)
<1> DEFINE v == Keep(w, s, PieceAt(r, s).length)
<1>1. v \in Walks /\ KeptFits(r, v, c) /\ Counted(r, v, c)
  <2>1. PieceAt(r, s).from = s /\ PieceAt(r, s).length \in Nat
      BY GlyphStarts
  <2> QED BY <2>1, KeepFits
<1>2. FlushRun(w) = [v EXCEPT !.run = NoRun]
    BY DEF FlushRun
<1> HIDE DEF v
<1>3. NoRun \in OpenRuns
    BY DEF NoRun, OpenRuns
<1> QED BY <1>1, <1>2, <1>3, RunApart

\* n characters from s on are joined, and no more.
PieceLength(r, s, n) ==
    /\ s \in 1..Len(r.items) /\ n \in Nat \ {0} /\ s + n - 1 <= Len(r.items)
    /\ \A j \in (s + 1)..(s + n - 1) : Joined(r.items, j)
    /\ ~Joined(r.items, s + n)

LEMMA PieceIsThatLong ==
    ASSUME NEW r \in ReadingRequests, r.reader = "pdfium", NEW s, NEW n, PieceLength(r, s, n)
    PROVE  PieceAt(r, s).length =
              IF s + n \in DOMAIN r.items /\ r.items[s + n].kind = "space" THEN n + 1 ELSE n
<1>1. Len(r.items) \in Nat /\ DOMAIN r.items = 1..Len(r.items)
    BY RequestIs
<1>2. GlyphAt(r.items, s) =
        [from |-> s, length |-> IF s + n \in DOMAIN r.items /\ r.items[s + n].kind = "space" THEN n + 1 ELSE n]
    BY <1>1, GlyphEnds DEF PieceLength
<1> QED BY <1>2, GlyphStarts

\* The run ends where the next item is neither of its glyph nor a space.
LEMMA RunEnds ==
    ASSUME NEW r \in ReadingRequests, r.reader = "pdfium", NEW w \in Walks, NEW c \in 0..Len(r.items),
           w.run.length > 0, RunFits(r, w.run, c),
           KeptFits(r, w, w.run.from), Counted(r, w, w.run.from),
           ~Joined(r.items, c + 1),
           c + 1 \in DOMAIN r.items => r.items[c + 1].kind # "space"
    PROVE  LET v == FlushRun(w)
           IN  v \in Walks /\ v.run = NoRun /\ KeptFits(r, v, c + 1) /\ Counted(r, v, c + 1)
<1> DEFINE s == w.run.from
           n == w.run.length
<1>1. /\ w.run \in OpenRuns /\ Len(r.items) \in Nat /\ c \in Nat /\ DOMAIN r.items = 1..Len(r.items)
    BY RequestIs DEF Walks
<1>2. /\ s \in StartsOf(r) /\ s \in Nat \ {0} /\ n \in Nat \ {0} /\ s + n = c + 1
      /\ StartsBefore(r, c + 1) = StartsBefore(r, s) \cup {s}
    BY <1>1, OneStartInRun
<1>3. \A j \in (s + 1)..c : Joined(r.items, j)
    BY DEF RunFits
<1> HIDE DEF s, n
<1>4. PieceAt(r, s).length = n
  <2>1. s \in 1..Len(r.items) /\ s + n - 1 <= Len(r.items) /\ s + n - 1 = c
      BY <1>1, <1>2
  <2>2. PieceLength(r, s, n)
      BY <1>2, <1>3, <2>1 DEF PieceLength
  <2>3. ~(s + n \in DOMAIN r.items /\ r.items[s + n].kind = "space")
      BY <1>2
  <2> QED BY <2>2, <2>3, PieceIsThatLong
<1> QED BY <1>1, <1>2, <1>4, RunIsClosed DEF s, n

\* The space behind a glyph is of its piece.
LEMMA SpaceEnds ==
    ASSUME NEW r \in ReadingRequests, r.reader = "pdfium", NEW w \in Walks, NEW c \in Nat, c < Len(r.items),
           w.run.length > 0, RunFits(r, w.run, c),
           KeptFits(r, w, w.run.from), Counted(r, w, w.run.from),
           r.items[c + 1].kind = "space"
    PROVE  LET v == FlushRun(Extend(w, c + 1, w.run.box))
           IN  v \in Walks /\ v.run = NoRun /\ KeptFits(r, v, c + 1) /\ Counted(r, v, c + 1)
<1> DEFINE s == w.run.from
           n == w.run.length
           longer == [from |-> s, length |-> n + 1, box |-> w.run.box]
           u == Extend(w, c + 1, w.run.box)
<1>1. /\ w.run \in OpenRuns /\ Len(r.items) \in Nat /\ DOMAIN r.items = 1..Len(r.items)
      /\ w.run.box \in Nat
    BY RequestIs DEF Walks, OpenRuns
<1>2. /\ s \in StartsOf(r) /\ s \in Nat \ {0} /\ n \in Nat \ {0} /\ s + n = c + 1
      /\ StartsBefore(r, c + 1) = StartsBefore(r, s) \cup {s}
    BY <1>1, OneStartInRun
<1>3. \A j \in (s + 1)..c : Joined(r.items, j)
    BY DEF RunFits
<1>4. u = [w EXCEPT !.run = longer]
    BY <1>2 DEF Extend, Walks
<1> HIDE DEF s, n, u, longer
<1>5. PieceAt(r, s).length = n + 1
  <2>1. s \in 1..Len(r.items) /\ s + n - 1 <= Len(r.items) /\ s + n - 1 = c /\ c + 1 \in DOMAIN r.items
      BY <1>1, <1>2
  <2>2. ~Joined(r.items, s + n) /\ \A j \in (s + 1)..(s + n - 1) : Joined(r.items, j)
    <3>1. ~Joined(r.items, c + 1)
        BY DEF Joined, IsGlyph
    <3> QED BY <3>1, <1>2, <1>3, <2>1
  <2>3. s + n \in DOMAIN r.items /\ r.items[s + n].kind = "space"
      BY <1>2, <2>1
  <2>4. PieceLength(r, s, n)
      BY <1>2, <2>1, <2>2 DEF PieceLength
  <2> QED BY <2>3, <2>4, PieceIsThatLong DEF PieceLength
<1>6. longer \in OpenRuns /\ longer.from = s /\ longer.length = n + 1
    BY <1>1, <1>2 DEF OpenRuns, longer
<1>7. u \in Walks /\ u.run = longer /\ KeptFits(r, u, s) /\ Counted(r, u, s)
    BY <1>4, <1>6, RunApart DEF s
<1>8. u.run.from = s /\ u.run.length \in Nat \ {0} /\ PieceAt(r, s).length = u.run.length
    BY <1>2, <1>5, <1>6, <1>7
<1> QED BY <1>2, <1>7, <1>8, RunIsClosed DEF u

\* A glyph that is not joined opens a run.
LEMMA RunOpens ==
    ASSUME NEW r \in ReadingRequests, r.reader = "pdfium", NEW w \in Walks, NEW c \in Nat, c < Len(r.items),
           w.run = NoRun, KeptFits(r, w, c + 1), Counted(r, w, c + 1),
           r.items[c + 1].kind = "glyph", ~Joined(r.items, c + 1)
    PROVE  LET v == Extend(w, c + 1, r.items[c + 1].box)
           IN  /\ v \in Walks /\ v.run.length = 1
               /\ KeptFits(r, v, OpenAt(v.run, c + 1)) /\ Counted(r, v, OpenAt(v.run, c + 1))
               /\ RunFits(r, v.run, c + 1)
<1> DEFINE box == r.items[c + 1].box
           x == [from |-> c + 1, length |-> 1, box |-> box]
           v == Extend(w, c + 1, box)
<1>1. c + 1 \in 1..Len(r.items) /\ box \in Nat /\ DOMAIN r.items = 1..Len(r.items)
  <2>1. /\ Len(r.items) \in Nat /\ DOMAIN r.items = 1..Len(r.items)
        /\ \A i \in 1..Len(r.items) : r.items[i].box \in Nat
      BY RequestIs
  <2>2. c + 1 \in 1..Len(r.items)
      BY <2>1
  <2> QED BY <2>1, <2>2
<1>2. v = [w EXCEPT !.run = x]
    BY DEF Extend, NoRun, Walks
<1> HIDE DEF v
<1>3. x \in OpenRuns /\ x.from = c + 1 /\ x.length = 1 /\ x.box = box
    BY <1>1 DEF OpenRuns
<1>4. RunFits(r, x, c + 1)
  <2>1. IsGlyph(r.items, c + 1)
      BY <1>1 DEF IsGlyph
  <2>2. c + 1 \in StartsOf(r)
      BY <2>1, GlyphStarts
  <2> QED BY <1>3, <2>1, <2>2 DEF RunFits
<1>5. OpenAt(x, c + 1) = c + 1
    BY <1>3 DEF OpenAt
<1> HIDE DEF x
<1>6. v \in Walks /\ v.run = x /\ KeptFits(r, v, c + 1) /\ Counted(r, v, c + 1)
    BY <1>2, <1>3, RunApart
<1> QED BY <1>3, <1>4, <1>5, <1>6 DEF v

WalkFits(r, w, c) ==
    /\ w \in Walks /\ RunFits(r, w.run, c)
    /\ KeptFits(r, w, OpenAt(w.run, c)) /\ Counted(r, w, OpenAt(w.run, c))

\* With no run open, an item that is no glyph opens none.
LEMMA NoRunStays ==
    ASSUME NEW r \in ReadingRequests, r.reader = "pdfium", NEW w \in Walks, NEW c \in Nat,
           w.run = NoRun, KeptFits(r, w, c + 1), Counted(r, w, c + 1), ~IsGlyph(r.items, c + 1)
    PROVE  WalkFits(r, w, c + 1)
<1>1. StartsBefore(r, (c + 1) + 1) = StartsBefore(r, c + 1)
  <2>1. c + 1 \in Nat /\ c + 1 \notin StartsOf(r)
      BY GlyphStarts
  <2> QED BY <2>1, NoStartThere
<1>2. OpenAt(w.run, c + 1) = (c + 1) + 1
    BY DEF OpenAt, NoRun
<1>3. KeptFits(r, w, (c + 1) + 1) /\ Counted(r, w, (c + 1) + 1)
    BY <1>1 DEF KeptFits, Counted
<1>4. RunFits(r, w.run, c + 1)
    BY DEF RunFits, NoRun
<1> QED BY <1>2, <1>3, <1>4 DEF WalkFits

LEMMA WalkGoesOn ==
    ASSUME NEW r \in ReadingRequests, r.reader = "pdfium", NEW c \in Nat, c < Len(r.items),
           NEW w, WalkFits(r, w, c), r.items[c + 1].kind # "fault"
    PROVE  WalkFits(r, WalkedOn(w, c + 1, r.items[c + 1]), c + 1)
<1> DEFINE item == r.items[c + 1]
           v == WalkedOn(w, c + 1, item)
<1>1. /\ w \in Walks /\ w.run \in OpenRuns /\ w.run.length \in Nat /\ w.run.from \in Nat
      /\ RunFits(r, w.run, c)
      /\ KeptFits(r, w, OpenAt(w.run, c)) /\ Counted(r, w, OpenAt(w.run, c))
    BY DEF WalkFits, Walks, OpenRuns
<1>2. /\ Len(r.items) \in Nat /\ DOMAIN r.items = 1..Len(r.items) /\ c + 1 \in 1..Len(r.items)
      /\ item.kind \in {"glyph", "space", "break"}
  <2>1. /\ Len(r.items) \in Nat /\ DOMAIN r.items = 1..Len(r.items)
        /\ \A i \in 1..Len(r.items) : r.items[i].kind \in KindsOf(r.reader)
      BY RequestIs
  <2>2. c + 1 \in 1..Len(r.items)
      BY <2>1
  <2>3. item.kind \in KindsOf("pdfium")
      BY <2>1, <2>2
  <2> QED BY <2>1, <2>2, <2>3 DEF KindsOf
<1>3. CASE w.run.length > 0
  <2>1. /\ KeptFits(r, w, w.run.from) /\ Counted(r, w, w.run.from)
        /\ IsGlyph(r.items, c) /\ w.run.box = r.items[c].box
      BY <1>1, <1>3 DEF OpenAt, RunFits
  <2>2. CASE item.kind = "glyph" /\ w.run.box = item.box
    <3> DEFINE x == [from |-> w.run.from, length |-> w.run.length + 1, box |-> item.box]
    <3>1. v = Extend(w, c + 1, item.box)
        BY <2>2 DEF WalkedOn
    <3>2. v = [w EXCEPT !.run = x]
        BY <1>1, <1>3, <3>1 DEF Extend, Walks
    <3>3. x \in OpenRuns /\ x.from = w.run.from /\ x.length = w.run.length + 1 /\ x.box = item.box
        BY <1>1, <2>2 DEF OpenRuns
    <3> HIDE DEF x, v
    <3>4. /\ v \in Walks /\ v.run = x /\ KeptFits(r, v, w.run.from) /\ Counted(r, v, w.run.from)
        BY <2>1, <3>2, <3>3, <1>1, RunApart
    <3>5. OpenAt(v.run, c + 1) = w.run.from
        BY <1>1, <3>3, <3>4 DEF OpenAt
    <3>6. IsGlyph(r.items, c + 1) /\ Joined(r.items, c + 1)
      <4>1. (c + 1) - 1 = c
          OBVIOUS
      <4>2. IsGlyph(r.items, c + 1)
          BY <1>2, <2>2 DEF IsGlyph
      <4> QED BY <2>1, <2>2, <4>1, <4>2 DEF Joined
    <3>7. RunFits(r, x, c + 1)
      <4>1. /\ w.run.from \in StartsOf(r) /\ w.run.from + w.run.length = c + 1
            /\ \A j \in (w.run.from + 1)..c : Joined(r.items, j)
          BY <1>1, <1>3 DEF RunFits
      <4>2. x.from + x.length = (c + 1) + 1
          BY <1>1, <4>1, <3>3
      <4>3. \A j \in (x.from + 1)..(c + 1) : Joined(r.items, j)
          BY <1>1, <4>1, <3>3, <3>6
      <4>4. x.length > 0 /\ x.length # 0
          BY <1>1, <1>3, <3>3
      <4> QED BY <4>1, <4>2, <4>3, <4>4, <3>3, <3>6 DEF RunFits
    <3> QED BY <3>4, <3>5, <3>7 DEF WalkFits, v
  <2>3. CASE item.kind = "glyph" /\ w.run.box # item.box
    <3> DEFINE f == FlushRun(w)
    <3>1. ~Joined(r.items, c + 1)
        BY <2>1, <2>3 DEF Joined
    <3>2. f \in Walks /\ f.run = NoRun /\ KeptFits(r, f, c + 1) /\ Counted(r, f, c + 1)
      <4>1. c \in 0..Len(r.items)
          BY <1>2
      <4> QED BY <4>1, <1>1, <1>3, <2>1, <2>3, <3>1, RunEnds
    <3>3. v = Extend(f, c + 1, item.box)
        BY <1>3, <2>3 DEF WalkedOn
    <3> HIDE DEF f
    <3> QED BY <2>3, <3>1, <3>2, <3>3, RunOpens DEF WalkFits
  <2>4. CASE item.kind = "space"
    <3>1. v = FlushRun(Extend(w, c + 1, w.run.box))
        BY <1>1, <1>3, <2>4 DEF WalkedOn
    <3>2. v \in Walks /\ v.run = NoRun /\ KeptFits(r, v, c + 1) /\ Counted(r, v, c + 1)
        BY <1>1, <1>3, <2>1, <2>4, <3>1, SpaceEnds
    <3>3. ~IsGlyph(r.items, c + 1)
        BY <2>4 DEF IsGlyph
    <3> HIDE DEF v
    <3>4. WalkFits(r, v, c + 1)
        BY <3>2, <3>3, NoRunStays
    <3> QED BY <3>4 DEF v
  <2>5. CASE item.kind = "break"
    <3>1. v = FlushRun(w)
        BY <2>5 DEF WalkedOn
    <3>2. ~IsGlyph(r.items, c + 1) /\ ~Joined(r.items, c + 1)
        BY <2>5 DEF IsGlyph, Joined
    <3>3. v \in Walks /\ v.run = NoRun /\ KeptFits(r, v, c + 1) /\ Counted(r, v, c + 1)
      <4>1. c \in 0..Len(r.items)
          BY <1>2
      <4> QED BY <4>1, <1>1, <1>3, <2>1, <2>5, <3>1, <3>2, RunEnds
    <3> HIDE DEF v
    <3>4. WalkFits(r, v, c + 1)
        BY <3>2, <3>3, NoRunStays
    <3> QED BY <3>4 DEF v
  <2> QED BY <1>2, <2>2, <2>3, <2>4, <2>5
<1>4. CASE w.run.length = 0
  <2>1. /\ w.run = NoRun /\ ~IsGlyph(r.items, c) /\ ~(w.run.length > 0)
        /\ KeptFits(r, w, c + 1) /\ Counted(r, w, c + 1)
      BY <1>1, <1>4 DEF OpenAt, RunFits
  <2>2. CASE item.kind = "glyph"
    <3>1. v = Extend(w, c + 1, item.box)
        BY <2>1, <2>2 DEF WalkedOn
    <3>2. ~Joined(r.items, c + 1)
      <4>1. (c + 1) - 1 = c
          OBVIOUS
      <4> QED BY <4>1, <2>1 DEF Joined
    <3> QED BY <1>1, <2>1, <2>2, <3>1, <3>2, RunOpens DEF WalkFits
  <2>3. CASE item.kind \in {"space", "break"}
    <3>1. v = w
        BY <1>4, <2>3 DEF WalkedOn, FlushRun
    <3>2. ~IsGlyph(r.items, c + 1)
        BY <2>3 DEF IsGlyph
    <3> QED BY <1>1, <2>1, <3>1, <3>2, NoRunStays
  <2> QED BY <1>2, <2>2, <2>3
<1> QED BY <1>1, <1>3, <1>4

(***************************************************************************)
(* What a walk emitted, whole pieces of the page in its order.              *)
(***************************************************************************)
EmittedBy(w) == {w.emitted[i] : i \in DOMAIN w.emitted}

LEMMA EmittedIsWanted ==
    ASSUME NEW r, NEW w \in Walks, NEW at, KeptFits(r, w, at)
    PROVE  /\ w.retained = IdsOf(w.emitted) /\ w.produced = Len(w.emitted)
           /\ w.retained = [i \in 1..Len(w.emitted) |-> i - 1]
           /\ EmittedBy(w) \subseteq Wanted(r)
           /\ w.chunk = <<>> => \A i \in StartsBefore(r, at) : WantedAt(r, i) \in EmittedBy(w)
<1>1. /\ DOMAIN Kept(w) = 1..Len(Kept(w)) /\ Len(w.emitted) \in Nat /\ Len(w.chunk) \in Nat
      /\ Len(Kept(w)) = Len(w.emitted) + Len(w.chunk)
      /\ DOMAIN w.emitted = 1..Len(w.emitted)
      /\ \A i \in 1..Len(w.emitted) : Kept(w)[i] = w.emitted[i]
    BY KeptParts
<1>2. \A i \in DOMAIN w.emitted : i \in DOMAIN Kept(w) /\ Kept(w)[i] = w.emitted[i]
  <2> DEFINE m == Len(w.emitted)
             n == Len(w.chunk)
             k == Kept(w)
  <2>1. /\ m \in Nat /\ n \in Nat /\ DOMAIN k = 1..(m + n) /\ DOMAIN w.emitted = 1..m
        /\ \A i \in 1..m : k[i] = w.emitted[i]
      BY <1>1
  <2> HIDE DEF m, n, k
  <2>2. \A i \in 1..m : i \in 1..(m + n)
      BY <2>1
  <2>3. \A i \in DOMAIN w.emitted : i \in DOMAIN k /\ k[i] = w.emitted[i]
      BY <2>1, <2>2, Zenon
  <2> QED BY <2>3 DEF k
<1>3. \A i \in DOMAIN w.emitted : w.emitted[i].ordinal = i - 1
    BY <1>2 DEF KeptFits
<1>4. w.retained = [i \in 1..Len(w.emitted) |-> i - 1]
  <2>1. w.retained = [i \in DOMAIN w.emitted |-> w.emitted[i].ordinal]
      BY DEF KeptFits, IdsOf
  <2> QED BY <2>1, <1>1, <1>3
<1>5. EmittedBy(w) \subseteq Wanted(r)
  <2>1. \A i \in DOMAIN w.emitted : \E s \in StartsOf(r) : w.emitted[i] = WantedAt(r, s)
      BY <1>2 DEF KeptFits, StartsBefore
  <2> QED BY <2>1, WantedIs DEF EmittedBy
<1>6. ASSUME w.chunk = <<>>, NEW i \in StartsBefore(r, at)
      PROVE  WantedAt(r, i) \in EmittedBy(w)
  <2>1. PICK k \in DOMAIN Kept(w) : Kept(w)[k] = WantedAt(r, i)
      BY DEF KeptFits
  <2>2. Len(w.chunk) = 0
      BY <1>6
  <2>3. k \in DOMAIN w.emitted
      BY <1>1, <2>2
  <2> QED BY <2>1, <2>3, <1>2 DEF EmittedBy
<1> QED BY <1>4, <1>5, <1>6 DEF KeptFits

LEMMA EndsAccounted ==
    ASSUME reading \in ReadingRequests, reading' = reading, NEW status \in EndStatuses, NEW w \in Walks, NEW at,
           EndReading(status, w), KeptFits(reading, w, at),
           status = "completed" => w.chunk = <<>> /\ StartsBefore(reading, at) = StartsOf(reading),
           reading.reader = "pdfium" /\ status = "cancelled" =>
              /\ w.chunk = <<>>
              /\ \A i \in StartsOf(reading) :
                    WantedAt(reading, i).from + WantedAt(reading, i).length <= cursor' => i < at,
           reading.reader = "tesseract" => Len(w.emitted) <= MaxWords,
           reading.reader = "tesseract" /\ status = "failed" /\ cursor' > 0 =>
              w.chunk = <<>> /\ \A i \in StartsOf(reading) : i < cursor' => i < at
    PROVE  EmissionIsAccounted' /\ ending' # NoEnding /\ walk' \in Walks
<1>1. /\ walk' = w /\ ending' = [status |-> status, produced |-> w.produced, retained |-> w.retained]
      /\ ending'.status = status /\ ending'.produced = w.produced /\ ending'.retained = w.retained
    BY DEF EndReading
<1>2. ending' \in [status : EndStatuses, produced : Nat, retained : Seq(Nat)]
    BY <1>1 DEF Walks
<1>3. ending' # NoEnding
    BY <1>2, RequestsAreReadings
<1>4. /\ w.retained = IdsOf(w.emitted) /\ w.produced = Len(w.emitted)
      /\ w.retained = [i \in 1..Len(w.emitted) |-> i - 1]
      /\ EmittedBy(w) \subseteq Wanted(reading)
      /\ w.chunk = <<>> => \A i \in StartsBefore(reading, at) : WantedAt(reading, i) \in EmittedBy(w)
    BY EmittedIsWanted
<1>5. Emitted' = EmittedBy(w)
    BY <1>1 DEF Emitted, EmittedBy
<1>6. status = "completed" => EmittedBy(w) = Wanted(reading)
    BY <1>4, WantedIs
<1>7. ASSUME reading.reader = "pdfium", status = "cancelled",
             NEW o \in Wanted(reading), o.from + o.length <= cursor'
      PROVE  o \in EmittedBy(w)
  <2>1. PICK i \in StartsOf(reading) : o = WantedAt(reading, i)
      BY WantedIs
  <2> QED BY <2>1, <1>4, <1>7 DEF StartsBefore
<1>8. ASSUME reading.reader = "tesseract", status = "failed", cursor' > 0,
             NEW o \in Wanted(reading), o.from < cursor'
      PROVE  o \in EmittedBy(w)
  <2>1. PICK i \in StartsOf(reading) : o = WantedAt(reading, i)
      BY WantedIs
  <2>2. o.from = i
      BY <2>1, <1>8 DEF WantedAt, PieceAt
  <2> QED BY <2>1, <2>2, <1>4, <1>8 DEF StartsBefore
<1>9. EmissionIsAccounted'
  <2>1. ending'.retained = IdsOf(walk'.emitted) /\ ending'.produced = Len(walk'.emitted)
        /\ ending'.retained = [i \in 1..Len(walk'.emitted) |-> i - 1]
      BY <1>1, <1>4
  <2> QED BY <1>1, <1>4, <1>5, <1>6, <1>7, <1>8, <2>1 DEF EmissionIsAccounted
<1> QED BY <1>1, <1>3, <1>9

(***************************************************************************)
(* A glyph has at least the characters that a run has joined.               *)
(***************************************************************************)
LEMMA MostOf ==
    ASSUME NEW b \in Nat, NEW T \in SUBSET (1..b), T # {}
    PROVE  \E m \in T : \A k \in T : k <= m
<1> DEFINE D == {b - k : k \in T}
<1>1. D \subseteq Nat /\ D # {}
  <2>1. \A k \in T : k \in 1..b
      OBVIOUS
  <2>2. \A k \in 1..b : b - k \in Nat
      OBVIOUS
  <2> QED BY <2>1, <2>2
<1>2. \E x \in D : \A y \in D : <<y, x>> \notin OpToRel(<, Nat)
    BY <1>1, NatLessThanWellFounded, WFMin
<1>3. \A x, y \in Nat : x < y => <<x, y>> \in OpToRel(<, Nat)
    BY DEF OpToRel
<1>4. PICK x \in D : \A y \in D : ~(y < x)
    BY <1>1, <1>2, <1>3
<1>5. PICK m \in T : x = b - m
    OBVIOUS
<1>6. ASSUME NEW k \in T
      PROVE  k <= m
  <2>1. b - k \in D /\ ~(b - k < b - m)
      BY <1>4, <1>5
  <2>2. k \in Nat /\ m \in Nat
      OBVIOUS
  <2> QED BY <2>1, <2>2
<1> QED BY <1>6

LEMMA GlyphHoldsRun ==
    ASSUME NEW items, Len(items) \in Nat, NEW i \in 1..Len(items), NEW n \in Nat \ {0},
           i + n - 1 <= Len(items), \A j \in (i + 1)..(i + n - 1) : Joined(items, j)
    PROVE  GlyphAt(items, i).length \in Nat /\ n <= GlyphAt(items, i).length
<1> DEFINE stretch == {m \in 1..(Len(items) + 1 - i) : \A j \in (i + 1)..(i + m - 1) : Joined(items, j)}
           most == CHOOSE m \in stretch : \A k \in stretch : k <= m
<1>1. n \in stretch
    OBVIOUS
<1>2. Len(items) + 1 - i \in Nat /\ stretch \in SUBSET (1..(Len(items) + 1 - i))
    OBVIOUS
<1>3. stretch \subseteq Nat
    BY <1>2
<1> HIDE DEF stretch
<1>4. \E m \in stretch : \A k \in stretch : k <= m
    BY <1>1, <1>2, MostOf
<1>5. most \in stretch /\ n <= most
    BY <1>1, <1>4
<1>6. GlyphAt(items, i) =
        [from |-> i, length |-> IF i + most \in DOMAIN items /\ items[i + most].kind = "space" THEN most + 1 ELSE most]
    BY DEF GlyphAt, stretch
<1> HIDE DEF most
<1>7. most \in Nat /\ GlyphAt(items, i).length \in {most, most + 1}
    BY <1>3, <1>5, <1>6
<1> QED BY <1>5, <1>7

\* What PDFium's reader had not closed ends behind the last character it looked at.
LEMMA OpenIsLater ==
    ASSUME NEW r \in ReadingRequests, r.reader = "pdfium", NEW c \in 0..Len(r.items), NEW w, WalkFits(r, w, c),
           NEW i \in StartsOf(r), WantedAt(r, i).from + WantedAt(r, i).length <= c
    PROVE  i < OpenAt(w.run, c)
<1>1. /\ Len(r.items) \in Nat /\ DOMAIN r.items = 1..Len(r.items) /\ c \in Nat
      /\ w.run \in OpenRuns /\ w.run.length \in Nat
    BY RequestIs DEF WalkFits, Walks, OpenRuns
<1>2. i \in 1..Len(r.items)
    BY <1>1 DEF StartsOf
<1>3. WantedAt(r, i).from = i /\ WantedAt(r, i).length = GlyphAt(r.items, i).length
    BY GlyphStarts DEF WantedAt
<1>4. GlyphAt(r.items, i).length \in Nat /\ 1 <= GlyphAt(r.items, i).length
  <2>1. i + 1 - 1 <= Len(r.items) /\ \A j \in (i + 1)..(i + 1 - 1) : Joined(r.items, j)
      BY <1>1, <1>2
  <2> QED BY <1>1, <1>2, <2>1, GlyphHoldsRun
<1>5. i < c + 1
    BY <1>1, <1>2, <1>3, <1>4
<1>6. CASE w.run.length > 0
  <2>1. /\ w.run.from \in StartsOf(r) /\ w.run.from \in Nat \ {0} /\ w.run.length \in Nat \ {0}
        /\ w.run.from + w.run.length = c + 1
        /\ StartsBefore(r, c + 1) = StartsBefore(r, w.run.from) \cup {w.run.from}
      BY <1>1, <1>6, OneStartInRun DEF WalkFits
  <2>2. i < w.run.from \/ i = w.run.from
      BY <2>1, <1>5 DEF StartsBefore
  <2>3. i # w.run.from
    <3> SUFFICES ASSUME i = w.run.from PROVE FALSE
        OBVIOUS
    <3> DEFINE n == w.run.length
    <3>1. n \in Nat \ {0} /\ i + n - 1 <= Len(r.items) /\ i + n = c + 1
        BY <1>1, <2>1
    <3>2. \A j \in (i + 1)..(i + n - 1) : Joined(r.items, j)
      <4>1. \A j \in (i + 1)..c : Joined(r.items, j)
          BY <1>6 DEF WalkFits, RunFits
      <4> HIDE DEF n
      <4>2. n \in Nat /\ i \in Nat /\ c \in Nat /\ i + n = c + 1
          BY <1>1, <1>2, <3>1
      <4>3. i + n - 1 = c
          BY <4>2
      <4> QED BY <4>1, <4>3
    <3> HIDE DEF n
    <3>3. n <= GlyphAt(r.items, i).length
        BY <1>1, <1>2, <3>1, <3>2, GlyphHoldsRun
    <3> QED BY <1>1, <1>2, <1>3, <1>4, <3>1, <3>3
  <2> QED BY <2>2, <2>3, <1>6 DEF OpenAt
<1>7. CASE ~(w.run.length > 0)
    BY <1>5, <1>7 DEF OpenAt
<1> QED BY <1>6, <1>7

(***************************************************************************)
(* The steps of the readers.                                               *)
(***************************************************************************)
LEMMA ReadersIdle ==
    ASSUME ReadersInv, UNCHANGED <<reading, cursor, walk, crop, ending>>
    PROVE  ReadersInv'
<1>1. EmissionIsAccounted'
    BY DEF ReadersInv, ReadersKeepAll, EmissionIsAccounted, Emitted
<1>2. CropHoldsWords'
    BY DEF ReadersInv, ReadersKeepAll, CropHoldsWords
<1>3. Ongoing <=> Ongoing'
    BY DEF Ongoing
<1> QED BY <1>1, <1>2, <1>3 DEF ReadersInv, ReadersKeepAll

LEMMA BeforeAnything ==
    ASSUME NEW r \in ReadingRequests
    PROVE  /\ EmptyWalk \in Walks /\ EmptyWalk.run = NoRun /\ EmptyWalk.ordinal = 0
           /\ EmptyWalk.emitted = <<>> /\ EmptyWalk.chunk = <<>> /\ Kept(EmptyWalk) = <<>>
           /\ KeptFits(r, EmptyWalk, 1) /\ Counted(r, EmptyWalk, 1)
<1>1. EmptyWalk \in Walks
    BY DEF EmptyWalk, Walks, OpenRuns, NoRun
<1>2. /\ EmptyWalk.run = NoRun /\ EmptyWalk.ordinal = 0 /\ EmptyWalk.emitted = <<>>
      /\ EmptyWalk.chunk = <<>> /\ EmptyWalk.retained = <<>> /\ EmptyWalk.produced = 0
    BY DEF EmptyWalk
<1>3. Kept(EmptyWalk) = <<>>
    BY <1>2, ConcatEmptySeq DEF Kept
<1>4. StartsBefore(r, 1) = {}
  <2>1. StartsOf(r) \subseteq Nat \ {0}
      BY StartsAreFinite
  <2>2. \A s \in Nat \ {0} : ~(s < 1)
      OBVIOUS
  <2> QED BY <2>1, <2>2 DEF StartsBefore
<1>5. IdsOf(<<>>) = <<>>
  <2>1. <<>> \in Seq(Pieces) /\ Len(<<>>) = 0
      OBVIOUS
  <2>2. IdsOf(<<>>) \in Seq(Nat) /\ Len(IdsOf(<<>>)) = 0
      BY <2>1, IdsAreNumbers
  <2> QED BY <2>2, EmptySeq
<1>6. Cardinality({}) = 0
    BY FS_EmptySet
<1>7. KeptFits(r, EmptyWalk, 1)
    BY <1>2, <1>3, <1>4, <1>5 DEF KeptFits
<1>8. Counted(r, EmptyWalk, 1)
    BY <1>2, <1>3, <1>4, <1>6 DEF Counted
<1> QED BY <1>1, <1>2, <1>3, <1>7, <1>8

LEMMA ReadersBegin ==
    ASSUME ReadersInit
    PROVE  ReadersInv
<1>1. /\ reading \in ReadingRequests /\ cursor = 0 /\ walk = EmptyWalk /\ crop = NoCrop /\ ending = NoEnding
    BY DEF ReadersInit
<1>2. Len(reading.items) \in Nat /\ DOMAIN reading.items = 1..Len(reading.items)
    BY <1>1, RequestIs
<1>3. OpenAt(NoRun, 0) = 1
    BY DEF OpenAt, NoRun
<1>4. RunFits(reading, NoRun, 0)
    BY <1>2 DEF RunFits, NoRun, IsGlyph
<1>5. Ongoing
    BY <1>1, <1>3, <1>4, BeforeAnything, ReadersAssumption DEF Ongoing
<1>6. ReadersKeepAll
    BY <1>1 DEF ReadersKeepAll, EmissionIsAccounted, CropHoldsWords
<1> QED BY <1>1, <1>2, <1>5, <1>6, BeforeAnything DEF ReadersInv

LEMMA EndsSoundly ==
    ASSUME ReadersInv, UNCHANGED <<reading, crop>>, cursor' \in 0..Len(reading.items),
           NEW status \in EndStatuses, NEW w \in Walks, NEW at,
           EndReading(status, w), KeptFits(reading, w, at),
           status = "completed" => w.chunk = <<>> /\ StartsBefore(reading, at) = StartsOf(reading),
           reading.reader = "pdfium" /\ status = "cancelled" =>
              /\ w.chunk = <<>>
              /\ \A i \in StartsOf(reading) :
                    WantedAt(reading, i).from + WantedAt(reading, i).length <= cursor' => i < at,
           reading.reader = "tesseract" => Len(w.emitted) <= MaxWords,
           reading.reader = "tesseract" /\ status = "failed" /\ cursor' > 0 =>
              w.chunk = <<>> /\ \A i \in StartsOf(reading) : i < cursor' => i < at
    PROVE  ReadersInv'
<1>1. reading \in ReadingRequests /\ reading' = reading /\ CropHoldsWords
    BY DEF ReadersInv, ReadersKeepAll
<1>2. EmissionIsAccounted' /\ ending' # NoEnding /\ walk' \in Walks
    BY <1>1, EndsAccounted
<1>3. CropHoldsWords'
    BY <1>1 DEF CropHoldsWords
<1> QED BY <1>1, <1>2, <1>3 DEF ReadersInv, ReadersKeepAll

\* A reading that goes on emits nothing yet, and its crop stays.
LEMMA GoesOn ==
    ASSUME ReadersInv, UNCHANGED <<reading, crop, ending>>, ending = NoEnding,
           cursor' \in 0..Len(reading.items), walk' \in Walks, Ongoing'
    PROVE  ReadersInv'
<1>1. CropHoldsWords'
    BY DEF ReadersInv, ReadersKeepAll, CropHoldsWords
<1>2. EmissionIsAccounted'
    BY DEF EmissionIsAccounted
<1> QED BY <1>1, <1>2 DEF ReadersInv, ReadersKeepAll

\* All the page begins before its end.
LEMMA AllBegun ==
    ASSUME NEW r \in ReadingRequests, r.reader # "pypdf"
    PROVE  StartsBefore(r, Len(r.items) + 1) = StartsOf(r)
<1>1. Len(r.items) \in Nat /\ DOMAIN r.items = 1..Len(r.items) /\ r.reader \in {"pdfium", "tesseract"}
    BY RequestIs
<1>2. StartsOf(r) \subseteq 1..Len(r.items)
    BY <1>1 DEF StartsOf
<1>3. \A i \in 1..Len(r.items) : i < Len(r.items) + 1
    BY <1>1
<1> QED BY <1>2, <1>3 DEF StartsBefore

LEMMA RefuseKeeps ==
    ASSUME ReadersInv, Refuse
    PROVE  ReadersInv'
<1> DEFINE status == Refusal(reading)
<1>1. /\ ending = NoEnding /\ cursor = 0 /\ EndReading(status, walk)
      /\ reading' = reading /\ crop' = crop /\ cursor' = 0 /\ status # "none"
    BY DEF Refuse
<1>2. reading \in ReadingRequests /\ walk = EmptyWalk /\ cursor' \in 0..Len(reading.items)
    BY <1>1 DEF ReadersInv, Ongoing
<1>3. KeptFits(reading, walk, 1) /\ walk \in Walks /\ Len(walk.emitted) = 0
    BY <1>2, BeforeAnything
<1>4. status \in {"failed", "unsupported", "cancelled"} /\ (status = "cancelled" => reading.reader = "tesseract")
    BY <1>1 DEF Refusal
<1> HIDE DEF status
<1>5. reading.reader = "tesseract" => Len(walk.emitted) <= MaxWords
    BY <1>3, ReadersAssumption
<1>6. status \in EndStatuses /\ status # "completed" /\ ~(reading.reader = "pdfium" /\ status = "cancelled")
    BY <1>4 DEF EndStatuses
<1>7. ~(cursor' > 0)
    BY <1>1
<1> QED BY <1>1, <1>2, <1>3, <1>5, <1>6, <1>7, EndsSoundly DEF EndStatuses

LEMMA PdfiumStopsKeeps ==
    ASSUME ReadersInv, PdfiumStops
    PROVE  ReadersInv'
<1> DEFINE w == EmitChunk(walk)
           at == OpenAt(walk.run, cursor)
<1>1. /\ ending = NoEnding /\ reading.reader = "pdfium" /\ EndReading("cancelled", w)
      /\ reading' = reading /\ crop' = crop /\ cursor' = cursor
    BY DEF PdfiumStops, Reading
<1>2. /\ reading \in ReadingRequests /\ walk \in Walks /\ cursor \in 0..Len(reading.items)
      /\ WalkFits(reading, walk, cursor)
    BY <1>1 DEF ReadersInv, Ongoing, WalkFits
<1>3. w \in Walks /\ w.chunk = <<>> /\ KeptFits(reading, w, at)
    BY <1>2, EmitFields, EmitFits DEF WalkFits
<1>4. \A i \in StartsOf(reading) :
          WantedAt(reading, i).from + WantedAt(reading, i).length <= cursor' => i < at
    BY <1>1, <1>2, OpenIsLater
<1> HIDE DEF w, at
<1> QED BY <1>1, <1>2, <1>3, <1>4, EndsSoundly DEF EndStatuses

LEMMA PdfiumCharacterKeeps ==
    ASSUME ReadersInv, PdfiumCharacter
    PROVE  ReadersInv'
<1> DEFINE item == reading.items[cursor + 1]
           v == WalkedOn(walk, cursor + 1, item)
<1>1. /\ ending = NoEnding /\ reading.reader = "pdfium" /\ cursor < Len(reading.items)
      /\ reading' = reading /\ crop' = crop /\ cursor' = cursor + 1
      /\ IF item.kind = "fault" THEN EndReading("failed", walk) ELSE walk' = v /\ UNCHANGED ending
    BY DEF PdfiumCharacter, Reading
<1>2. /\ reading \in ReadingRequests /\ walk \in Walks /\ cursor \in 0..Len(reading.items)
      /\ Len(reading.items) \in Nat /\ WalkFits(reading, walk, cursor)
    BY <1>1, RequestIs DEF ReadersInv, Ongoing, WalkFits
<1>3. cursor \in Nat /\ cursor' \in 0..Len(reading.items) /\ cursor' # 0
    BY <1>1, <1>2
<1>4. CASE item.kind = "fault"
  <2>1. EndReading("failed", walk) /\ KeptFits(reading, walk, OpenAt(walk.run, cursor))
      BY <1>1, <1>2, <1>4 DEF WalkFits
  <2> QED BY <1>1, <1>2, <1>3, <2>1, EndsSoundly DEF EndStatuses
<1>5. CASE item.kind # "fault"
  <2>1. WalkFits(reading, v, cursor + 1)
      BY <1>1, <1>2, <1>3, <1>5, WalkGoesOn
  <2>2. walk' = v /\ ending' = ending
      BY <1>1, <1>5
  <2> HIDE DEF v, item
  <2>3. WalkFits(reading', walk', cursor')
      BY <1>1, <2>1, <2>2
  <2>4. Ongoing' /\ walk' \in Walks
      BY <1>1, <1>3, <2>3 DEF Ongoing, WalkFits
  <2> QED BY <1>1, <1>3, <2>2, <2>4, GoesOn
<1> QED BY <1>4, <1>5

LEMMA PdfiumEndsKeeps ==
    ASSUME ReadersInv, PdfiumEnds
    PROVE  ReadersInv'
<1> DEFINE v == FlushRun(walk)
           w == EmitChunk(v)
           at == cursor + 1
<1>1. /\ ending = NoEnding /\ reading.reader = "pdfium" /\ cursor = Len(reading.items)
      /\ EndReading("completed", w)
      /\ reading' = reading /\ crop' = crop /\ cursor' = cursor
    BY DEF PdfiumEnds, Reading
<1>2. /\ reading \in ReadingRequests /\ walk \in Walks /\ cursor \in 0..Len(reading.items)
      /\ Len(reading.items) \in Nat /\ DOMAIN reading.items = 1..Len(reading.items)
      /\ WalkFits(reading, walk, cursor) /\ walk.run \in OpenRuns
    BY <1>1, RequestIs DEF ReadersInv, Ongoing, WalkFits, Walks
<1>3. v \in Walks /\ KeptFits(reading, v, at)
  <2>1. CASE walk.run.length > 0
    <3>1. at \notin DOMAIN reading.items
        BY <1>1, <1>2
    <3>2. ~Joined(reading.items, cursor + 1)
        BY <3>1 DEF Joined, IsGlyph
    <3>3. /\ RunFits(reading, walk.run, cursor)
          /\ KeptFits(reading, walk, walk.run.from) /\ Counted(reading, walk, walk.run.from)
        BY <1>2, <2>1 DEF WalkFits, OpenAt
    <3> QED BY <1>1, <1>2, <2>1, <3>1, <3>2, <3>3, RunEnds
  <2>2. CASE ~(walk.run.length > 0)
    <3>1. walk.run.length = 0
        BY <1>2, <2>2 DEF OpenRuns
    <3>2. v = walk
        BY <3>1 DEF FlushRun
    <3>3. OpenAt(walk.run, cursor) = at
        BY <2>2 DEF OpenAt
    <3> QED BY <1>2, <3>2, <3>3 DEF WalkFits
  <2> QED BY <2>1, <2>2
<1> HIDE DEF v
<1>4. w \in Walks /\ w.chunk = <<>> /\ KeptFits(reading, w, at)
    BY <1>3, EmitFields, EmitFits
<1>5. StartsBefore(reading, at) = StartsOf(reading)
    BY <1>1, <1>2, AllBegun
<1> HIDE DEF w, at
<1> QED BY <1>1, <1>2, <1>4, <1>5, EndsSoundly DEF EndStatuses

LEMMA PypdfPageKeeps ==
    ASSUME ReadersInv, PypdfPage
    PROVE  ReadersInv'
<1> DEFINE o == [ordinal |-> 0, from |-> 1, length |-> Len(reading.items)]
           v == [walk EXCEPT !.chunk = <<o>>]
           w == EmitChunk(v)
<1>1. /\ ending = NoEnding /\ reading.reader = "pypdf"
      /\ reading' = reading /\ crop' = crop /\ cursor' = cursor
      /\ \/ \E status \in {"cancelled", "failed"} : EndReading(status, walk)
         \/ EndReading("completed", w)
    BY DEF PypdfPage, Reading
<1>2. /\ reading \in ReadingRequests /\ walk = EmptyWalk /\ cursor = 0
      /\ Len(reading.items) \in Nat
    BY <1>1, RequestIs DEF ReadersInv, Ongoing
<1>3. cursor' \in 0..Len(reading.items)
    BY <1>1, <1>2
<1>4. ASSUME NEW status \in {"cancelled", "failed"}, EndReading(status, walk)
      PROVE  ReadersInv'
  <2>1. KeptFits(reading, walk, 1) /\ walk \in Walks
      BY <1>2, BeforeAnything
  <2>2. status \in EndStatuses /\ status # "completed"
      BY DEF EndStatuses
  <2> QED BY <1>1, <1>3, <1>4, <2>1, <2>2, EndsSoundly DEF EndStatuses
<1>5. CASE EndReading("completed", w)
  <2>1. o \in Pieces
      BY <1>2 DEF Pieces
  <2>2. o = WantedAt(reading, 1) /\ StartsOf(reading) = {1}
    <3>1. StartsOf(reading) = {1} /\ PieceAt(reading, 1) = [from |-> 1, length |-> Len(reading.items)]
        BY <1>1 DEF StartsOf, PieceAt
    <3>2. {j \in {1} : j < 1} = {}
        OBVIOUS
    <3>3. Rank({1}, 1) = 0
        BY <3>2, FS_EmptySet DEF Rank
    <3> QED BY <3>1, <3>3 DEF WantedAt
  <2>3. o.ordinal = 0
      OBVIOUS
  <2> HIDE DEF o
  <2> DEFINE h == <<o>>
  <2>4. h \in Seq(Pieces) /\ h[1] = o /\ DOMAIN h = 1..1 /\ Len(h) = 1
      BY <2>1
  <2> HIDE DEF h
  <2>5. /\ v \in Walks /\ v.chunk = h /\ v.emitted = walk.emitted
        /\ v.retained = walk.retained /\ v.produced = walk.produced
    <3>1. walk \in Walks
        BY <1>2, BeforeAnything
    <3>2. v = [walk EXCEPT !.chunk = h]
        BY DEF h
    <3> HIDE DEF v
    <3> QED BY <2>4, <3>1, <3>2, Zenon DEF Walks
  <2> HIDE DEF v
  <2>6. Kept(v) = h
    <3>1. v.emitted = <<>>
        BY <1>2, <2>5, BeforeAnything
    <3> QED BY <2>4, <2>5, <3>1, ConcatEmptySeq DEF Kept
  <2>7. v.retained = IdsOf(v.emitted) /\ v.produced = Len(v.emitted)
      BY <1>2, <2>5, BeforeAnything DEF KeptFits
  <2>8. StartsBefore(reading, 2) = {1}
      BY <2>2 DEF StartsBefore
  <2>9. KeptFits(reading, v, 2)
    <3>1. DOMAIN h = {1}
        BY <2>4
    <3> QED BY <2>2, <2>3, <2>4, <2>6, <2>7, <2>8, <3>1 DEF KeptFits
  <2>10. w \in Walks /\ w.chunk = <<>> /\ KeptFits(reading, w, 2)
      BY <2>5, <2>9, EmitFields, EmitFits
  <2>11. StartsBefore(reading, 2) = StartsOf(reading)
      BY <2>2, <2>8
  <2> HIDE DEF w
  <2> QED BY <1>1, <1>3, <1>5, <2>10, <2>11, EndsSoundly DEF EndStatuses
<1> QED BY <1>1, <1>4, <1>5

(***************************************************************************)
(* The crop, and where the pixels of the resized crop come from.            *)
(***************************************************************************)
LEMMA ProductsKeepOrder == \A a, b, c \in Nat : a <= b => a * c \in Nat /\ a * c <= b * c
<1>1. \A d, c \in Nat : d * c \in Nat
    OBVIOUS
<1>2. ASSUME NEW a \in Nat, NEW b \in Nat, NEW c \in Nat, a <= b
      PROVE  a * c \in Nat /\ a * c <= b * c
  <2>1. PICK d \in Nat : b = a + d
    <3>1. b - a \in Nat /\ b = a + (b - a)
        BY <1>2
    <3> QED BY <3>1
  <2>2. b * c = a * c + d * c
      BY <2>1
  <2>3. a * c \in Nat /\ d * c \in Nat
      BY <1>1
  <2> QED BY <2>2, <2>3
<1> QED BY <1>2

LEMMA MapsBack ==
    ASSUME NEW from \in Nat, NEW to \in Nat, from <= to, NEW size \in Nat
    PROVE  MapsInto(from, to, size)
<1> DEFINE d == to - from
           least == from * size
           most == d * size
<1>1. d \in Nat /\ to = from + d
    OBVIOUS
<1>2. least \in Nat /\ most \in Nat /\ to * size = least + most
  <2>1. to * size = (from + d) * size
      BY <1>1
  <2>2. (from + d) * size = from * size + d * size
      BY <1>1
  <2> QED BY <1>1, <2>1, <2>2, ProductsKeepOrder
<1>3. ASSUME NEW x \in 0..size
      PROVE  least <= x * d + least /\ x * d + least <= to * size
  <2>1. x \in Nat /\ x <= size
      OBVIOUS
  <2>2. x * d \in Nat /\ x * d <= size * d
      BY <1>1, <2>1, ProductsKeepOrder
  <2>3. size * d = most
      BY <1>1
  <2> DEFINE here == x * d
  <2> HIDE DEF d, least, most, here
  <2>4. here \in Nat /\ here <= most
      BY <2>2, <2>3 DEF here
  <2>5. least <= here + least /\ here + least <= least + most
      BY <1>2, <2>4
  <2> QED BY <1>2, <2>5 DEF here
<1> QED BY <1>3 DEF MapsInto, ToRaster

LEMMA ResizedIsSome ==
    ASSUME NEW size \in Nat, NEW halves \in Nat
    PROVE  Resized(size, halves) \in Nat
<1> DEFINE n == size * halves
<1>1. n \in Nat
    OBVIOUS
<1> HIDE DEF n
<1>2. Half(n) \in Int
  <2>1. n \div 2 \in Int
      BY <1>1
  <2> QED BY <2>1 DEF Half
<1>3. Larger(1, Half(n)) \in Nat
    BY <1>2 DEF Larger
<1> QED BY <1>3 DEF Resized, n

LEMMA PaddedHolds ==
    ASSUME NEW r \in ReadingRequests, r.reader = "tesseract", ValidRegion(r)
    PROVE  LET p == Padded(r)
           IN  /\ p.x0 \in Nat /\ p.x1 \in Nat /\ p.y0 \in Nat /\ p.y1 \in Nat
               /\ p.x0 <= r.region.x0 /\ r.region.x1 <= p.x1 /\ p.x1 <= r.raster.w /\ p.x0 <= p.x1
               /\ p.y0 <= r.region.y0 /\ r.region.y1 <= p.y1 /\ p.y1 <= r.raster.h /\ p.y0 <= p.y1
               /\ r.resize \in Nat
<1> DEFINE x0 == r.region.x0
           x1 == r.region.x1
           y0 == r.region.y0
           y1 == r.region.y1
           width == r.raster.w
           height == r.raster.h
           pad == Larger(PaddingMin, (y1 - y0 + 9) \div 10)
<1>1. /\ r.region \in [x0 : Nat, y0 : Nat, x1 : Nat, y1 : Nat]
      /\ r.raster \in [w : Nat, h : Nat] /\ r.resize \in Nat
    BY RequestsAreReadings
<1>2. x0 \in Nat /\ x1 \in Nat /\ y0 \in Nat /\ y1 \in Nat /\ width \in Nat /\ height \in Nat
    BY <1>1
<1>3. x0 < x1 /\ x1 <= width /\ y0 < y1 /\ y1 <= height
    BY DEF ValidRegion
<1> HIDE DEF x0, x1, y0, y1, width, height
<1>4. pad \in Nat
  <2>1. PaddingMin \in Nat /\ (y1 - y0 + 9) \div 10 \in Int
      BY <1>2, ReadersAssumption
  <2> QED BY <2>1 DEF Larger
<1>5. Padded(r) = [x0 |-> Larger(0, x0 - pad), y0 |-> Larger(0, y0 - pad),
                   x1 |-> Smaller(width, x1 + pad), y1 |-> Smaller(height, y1 + pad)]
    BY DEF Padded, x0, x1, y0, y1, width, height
<1> HIDE DEF pad
<1>6. /\ Larger(0, x0 - pad) \in Nat /\ Larger(0, x0 - pad) <= x0
      /\ Larger(0, y0 - pad) \in Nat /\ Larger(0, y0 - pad) <= y0
    BY <1>2, <1>4 DEF Larger
<1>7. /\ Smaller(width, x1 + pad) \in Nat /\ x1 <= Smaller(width, x1 + pad) /\ Smaller(width, x1 + pad) <= width
      /\ Smaller(height, y1 + pad) \in Nat /\ y1 <= Smaller(height, y1 + pad) /\ Smaller(height, y1 + pad) <= height
    BY <1>2, <1>3, <1>4 DEF Smaller
<1>8. Larger(0, x0 - pad) <= Smaller(width, x1 + pad) /\ Larger(0, y0 - pad) <= Smaller(height, y1 + pad)
    BY <1>2, <1>3, <1>6, <1>7
<1> QED BY <1>1, <1>5, <1>6, <1>7, <1>8 DEF x0, x1, y0, y1, width, height

LEMMA TesseractSoFar ==
    ASSUME ReadersInv, ending = NoEnding, reading.reader = "tesseract"
    PROVE  /\ reading \in ReadingRequests /\ walk \in Walks /\ walk.run = NoRun
           /\ cursor \in Nat /\ cursor <= Len(reading.items) /\ Len(reading.items) \in Nat
           /\ DOMAIN reading.items = 1..Len(reading.items) /\ MaxWords \in Nat
           /\ OpenAt(walk.run, cursor) = cursor + 1
           /\ KeptFits(reading, walk, cursor + 1) /\ Counted(reading, walk, cursor + 1)
           /\ walk.ordinal <= MaxWords /\ \A j \in 1..cursor : reading.items[j].kind # "fault"
           /\ cursor = 0 => walk = EmptyWalk
           /\ crop = NoCrop => cursor = 0
           /\ Len(walk.emitted) <= MaxWords /\ Len(EmitChunk(walk).emitted) <= MaxWords
<1>1. /\ reading \in ReadingRequests /\ walk \in Walks /\ cursor \in 0..Len(reading.items)
      /\ Ongoing /\ walk.run = NoRun
    BY DEF ReadersInv, Ongoing
<1>2. Len(reading.items) \in Nat /\ DOMAIN reading.items = 1..Len(reading.items) /\ MaxWords \in Nat
    BY <1>1, RequestIs, ReadersAssumption
<1>3. OpenAt(walk.run, cursor) = cursor + 1
    BY <1>1 DEF OpenAt, NoRun
<1>4. KeptFits(reading, walk, cursor + 1) /\ Counted(reading, walk, cursor + 1)
    BY <1>1, <1>3 DEF Ongoing
<1>5. walk.ordinal <= MaxWords /\ walk.ordinal = Len(Kept(walk))
    BY <1>1, <1>4 DEF Ongoing, Counted
<1>6. /\ Len(Kept(walk)) = Len(walk.emitted) + Len(walk.chunk) /\ Len(walk.emitted) \in Nat
      /\ Len(walk.chunk) \in Nat
    BY <1>1, KeptParts
<1>7. EmitChunk(walk).emitted = Kept(walk)
    BY <1>1, EmitFields DEF Kept
<1>8. Len(walk.emitted) <= MaxWords /\ Len(EmitChunk(walk).emitted) <= MaxWords
  <2> DEFINE m == Len(walk.emitted)
             n == Len(walk.chunk)
             k == Len(Kept(walk))
  <2>1. m \in Nat /\ n \in Nat /\ k = m + n /\ k <= MaxWords
      BY <1>5, <1>6
  <2> HIDE DEF m, n, k
  <2>2. m <= MaxWords /\ k <= MaxWords
      BY <1>2, <2>1
  <2> QED BY <1>7, <2>2 DEF m, k
<1> QED BY <1>1, <1>2, <1>3, <1>4, <1>8 DEF Ongoing

LEMMA PlanCropKeeps ==
    ASSUME ReadersInv, PlanCrop
    PROVE  ReadersInv'
<1> DEFINE p == Padded(reading)
           planned == [x0 |-> p.x0, y0 |-> p.y0, x1 |-> p.x1, y1 |-> p.y1,
                       w |-> Resized(p.x1 - p.x0, reading.resize),
                       h |-> Resized(p.y1 - p.y0, reading.resize)]
<1>1. /\ ending = NoEnding /\ reading.reader = "tesseract" /\ crop = NoCrop
      /\ reading' = reading /\ cursor' = cursor
      /\ \/ EndReading("failed", walk) /\ crop' = crop
         \/ ValidRegion(reading) /\ crop' = planned /\ walk' = walk /\ ending' = ending
    BY DEF PlanCrop, Reading
<1>2. /\ reading \in ReadingRequests /\ walk \in Walks /\ cursor = 0 /\ cursor' \in 0..Len(reading.items)
      /\ KeptFits(reading, walk, cursor + 1) /\ Len(walk.emitted) <= MaxWords /\ ~(cursor' > 0)
    BY <1>1, TesseractSoFar
<1>3. CASE EndReading("failed", walk) /\ crop' = crop
    BY <1>1, <1>2, <1>3, EndsSoundly DEF EndStatuses
<1>4. CASE ValidRegion(reading) /\ crop' = planned /\ walk' = walk /\ ending' = ending
  <2>1. /\ p.x0 \in Nat /\ p.x1 \in Nat /\ p.y0 \in Nat /\ p.y1 \in Nat
        /\ p.x0 <= reading.region.x0 /\ reading.region.x1 <= p.x1 /\ p.x1 <= reading.raster.w /\ p.x0 <= p.x1
        /\ p.y0 <= reading.region.y0 /\ reading.region.y1 <= p.y1 /\ p.y1 <= reading.raster.h /\ p.y0 <= p.y1
        /\ reading.resize \in Nat
      BY <1>1, <1>2, <1>4, PaddedHolds
  <2> HIDE DEF p
  <2>2. p.x1 - p.x0 \in Nat /\ p.y1 - p.y0 \in Nat
      BY <2>1
  <2>3. planned.w \in Nat /\ planned.h \in Nat
      BY <2>1, <2>2, ResizedIsSome
  <2>4. planned.x0 = p.x0 /\ planned.x1 = p.x1 /\ planned.y0 = p.y0 /\ planned.y1 = p.y1
      OBVIOUS
  <2> HIDE DEF planned
  <2>5. MapsInto(planned.x0, planned.x1, planned.w) /\ MapsInto(planned.y0, planned.y1, planned.h)
      BY <2>1, <2>3, <2>4, MapsBack
  <2>6. crop' = planned /\ reading' = reading
      BY <1>1, <1>4
  <2>7. 0 <= planned.x0 /\ 0 <= planned.y0
      BY <2>1, <2>4
  <2>8. CropHoldsWords'
      BY <2>1, <2>4, <2>5, <2>6, <2>7 DEF CropHoldsWords
  <2>9. EmissionIsAccounted'
      BY <1>1, <1>4 DEF EmissionIsAccounted
  <2>10. Ongoing'
      BY <1>1, <1>2, <1>4 DEF ReadersInv, Ongoing
  <2> QED BY <1>1, <1>2, <1>4, <2>8, <2>9, <2>10 DEF ReadersInv, ReadersKeepAll
<1> QED BY <1>1, <1>3, <1>4

LEMMA EngineFailsKeeps ==
    ASSUME ReadersInv, EngineFails
    PROVE  ReadersInv'
<1>1. PICK status \in {"timeout", "unsupported", "failed"} : EndReading(status, walk)
    BY DEF EngineFails
<1>2. /\ ending = NoEnding /\ reading.reader = "tesseract" /\ cursor = 0
      /\ reading' = reading /\ crop' = crop /\ cursor' = 0
    BY DEF EngineFails, Reading
<1>3. /\ walk \in Walks /\ cursor' \in 0..Len(reading.items)
      /\ KeptFits(reading, walk, cursor + 1) /\ Len(walk.emitted) <= MaxWords /\ ~(cursor' > 0)
    BY <1>2, TesseractSoFar
<1>4. status \in EndStatuses /\ status # "completed"
    BY DEF EndStatuses
<1> QED BY <1>1, <1>2, <1>3, <1>4, EndsSoundly

LEMMA TesseractEndsKeeps ==
    ASSUME ReadersInv, TesseractEnds
    PROVE  ReadersInv'
<1> DEFINE w == EmitChunk(walk)
           at == cursor + 1
<1>1. /\ ending = NoEnding /\ reading.reader = "tesseract" /\ cursor = Len(reading.items)
      /\ EndReading("completed", w) /\ reading' = reading /\ crop' = crop /\ cursor' = cursor
    BY DEF TesseractEnds, Reading
<1>2. /\ reading \in ReadingRequests /\ walk \in Walks /\ cursor' \in 0..Len(reading.items)
      /\ KeptFits(reading, walk, at) /\ Len(w.emitted) <= MaxWords
    BY <1>1, TesseractSoFar
<1>3. w \in Walks /\ w.chunk = <<>> /\ KeptFits(reading, w, at)
    BY <1>2, EmitFields, EmitFits
<1>4. StartsBefore(reading, at) = StartsOf(reading)
    BY <1>1, <1>2, AllBegun
<1> HIDE DEF w, at
<1> QED BY <1>1, <1>2, <1>3, <1>4, EndsSoundly DEF EndStatuses

\* Which rows a raster's words begin at.
LEMMA WordsAreStarts ==
    ASSUME NEW r \in ReadingRequests, r.reader = "tesseract", NEW c \in Nat, c + 1 \in DOMAIN r.items,
           \A j \in 1..c : r.items[j].kind # "fault"
    PROVE  /\ r.items[c + 1].kind = "word" => c + 1 \in StartsOf(r)
           /\ r.items[c + 1].kind # "word" => c + 1 \notin StartsOf(r)
           /\ r.items[c + 1].kind \in {"word", "other", "fault"}
           /\ r.items[c + 1].kind # "fault" => \A j \in 1..(c + 1) : r.items[j].kind # "fault"
<1>1. StartsOf(r) = {i \in DOMAIN r.items : r.items[i].kind = "word" /\ \A j \in 1..i : r.items[j].kind # "fault"}
    BY DEF StartsOf
<1>2. \A j \in 1..(c + 1) : j \in 1..c \/ j = c + 1
    OBVIOUS
<1>3. r.items[c + 1].kind # "fault" => \A j \in 1..(c + 1) : r.items[j].kind # "fault"
    BY <1>2
<1>4. r.items[c + 1].kind \in KindsOf("tesseract")
    BY RequestIs
<1> QED BY <1>1, <1>3, <1>4 DEF KindsOf

LEMMA TesseractRowKeeps ==
    ASSUME ReadersInv, TesseractRow
    PROVE  ReadersInv'
<1> DEFINE kind == reading.items[cursor + 1].kind
           next == cursor + 1
           w == EmitChunk(walk)
<1>1. /\ ending = NoEnding /\ reading.reader = "tesseract" /\ crop # NoCrop
      /\ cursor < Len(reading.items) /\ cursor' = cursor + 1 /\ reading' = reading /\ crop' = crop
    BY DEF TesseractRow, Reading
<1>2. /\ reading \in ReadingRequests /\ walk \in Walks /\ walk.run = NoRun
      /\ cursor \in Nat /\ Len(reading.items) \in Nat /\ DOMAIN reading.items = 1..Len(reading.items)
      /\ MaxWords \in Nat
      /\ KeptFits(reading, walk, cursor + 1) /\ Counted(reading, walk, cursor + 1)
      /\ walk.ordinal <= MaxWords /\ \A j \in 1..cursor : reading.items[j].kind # "fault"
      /\ Len(walk.emitted) <= MaxWords /\ Len(EmitChunk(walk).emitted) <= MaxWords
    BY <1>1, TesseractSoFar
<1>3. next \in DOMAIN reading.items /\ next \in 0..Len(reading.items) /\ cursor' = next /\ next # 0
    BY <1>1, <1>2
<1>4. /\ kind = "word" => next \in StartsOf(reading)
      /\ kind # "word" => next \notin StartsOf(reading)
      /\ kind \in {"word", "other", "fault"}
      /\ kind # "fault" => \A j \in 1..next : reading.items[j].kind # "fault"
    BY <1>1, <1>2, <1>3, WordsAreStarts
<1>5. w \in Walks /\ w.chunk = <<>> /\ KeptFits(reading, w, next) /\ Len(w.emitted) <= MaxWords
    BY <1>2, EmitFields, EmitFits
<1>6. /\ kind = "other" => walk' = walk /\ ending' = ending
      /\ kind = "fault" => EndReading("failed", w)
      /\ kind = "word" => \/ EndReading("cancelled", walk)
                          \/ EndReading("failed", w)
                          \/ ~WordsAreSpent(walk) /\ walk' = Keep(walk, next, 1) /\ ending' = ending
  <2>1. CASE kind = "other" BY <2>1 DEF TesseractRow
  <2>2. CASE kind = "fault" BY <2>2 DEF TesseractRow
  <2>3. CASE kind = "word" BY <2>3 DEF TesseractRow
  <2> QED BY <1>4, <2>1, <2>2, <2>3
<1> HIDE DEF kind, next, w
<1>7. CASE EndReading("failed", w)
  <2>1. \A i \in StartsOf(reading) : i < cursor' => i < next
      BY <1>3
  <2> QED BY <1>1, <1>2, <1>3, <1>5, <1>7, <2>1, EndsSoundly DEF EndStatuses
<1>8. CASE EndReading("cancelled", walk)
  <2>1. KeptFits(reading, walk, next)
      BY <1>2 DEF next
  <2> QED BY <1>1, <1>2, <1>3, <1>8, <2>1, EndsSoundly DEF EndStatuses
<1>9. CASE kind = "other"
  <2>1. walk' = walk /\ ending' = ending
      BY <1>6, <1>9
  <2>2. next \in Nat /\ next \notin StartsOf(reading)
      BY <1>2, <1>4, <1>9 DEF next
  <2>3. StartsBefore(reading, next + 1) = StartsBefore(reading, next)
      BY <1>2, <2>2, NoStartThere
  <2>4. KeptFits(reading, walk, next + 1) /\ Counted(reading, walk, next + 1)
      BY <1>2, <2>3 DEF KeptFits, Counted, next
  <2>5. OpenAt(walk.run, next) = next + 1
      BY <1>2 DEF OpenAt, NoRun
  <2>6. /\ reading' = reading /\ cursor' = next /\ walk' = walk /\ reading.reader = "tesseract"
        /\ \A j \in 1..next : reading.items[j].kind # "fault"
      BY <1>1, <1>3, <1>4, <1>9, <2>1
  <2>7. Ongoing'
      BY <1>1, <1>2, <1>3, <2>4, <2>5, <2>6 DEF Ongoing
  <2> QED BY <1>1, <1>2, <1>3, <2>1, <2>7, GoesOn
<1>10. CASE kind = "word" /\ ~WordsAreSpent(walk) /\ walk' = Keep(walk, next, 1) /\ ending' = ending
  <2> DEFINE v == Keep(walk, next, 1)
  <2>1. next \in Nat /\ next \in StartsOf(reading) /\ StartsOf(reading) \subseteq Nat
      BY <1>2, <1>4, <1>10, StartsAreFinite DEF next
  <2>2. PieceAt(reading, next).from = next /\ PieceAt(reading, next).length = 1
      BY <1>1 DEF PieceAt
  <2>3. \A s \in StartsOf(reading) : s < next + 1 <=> s < next \/ s = next
      BY <2>1
  <2>4. StartsBefore(reading, next + 1) = StartsBefore(reading, next) \cup {next}
      BY <2>1, <2>3 DEF StartsBefore
  <2>5. KeptFits(reading, walk, next) /\ Counted(reading, walk, next)
      BY <1>2 DEF next
  <2>6. /\ v \in Walks /\ v.run = walk.run /\ v.ordinal = walk.ordinal + 1
        /\ KeptFits(reading, v, next + 1) /\ Counted(reading, v, next + 1)
    <3> DEFINE u == Keep(walk, next, PieceAt(reading, next).length)
    <3>1. PieceAt(reading, next).length \in Nat
        BY <2>2
    <3>2. /\ u \in Walks /\ u.run = walk.run /\ u.ordinal = walk.ordinal + 1
          /\ KeptFits(reading, u, next + 1) /\ Counted(reading, u, next + 1)
        BY <1>2, <2>1, <2>2, <2>4, <2>5, <3>1, KeepFits
    <3>3. u = v
        BY <2>2
    <3> HIDE DEF u, v
    <3> QED BY <3>2, <3>3
  <2>7. walk.ordinal \in Nat /\ walk.ordinal + 1 <= MaxWords
      BY <1>2, <1>10 DEF WordsAreSpent, Walks
  <2>8. walk' = v /\ ending' = ending /\ v.run = NoRun /\ v.ordinal <= MaxWords
      BY <1>2, <1>10, <2>6, <2>7
  <2> HIDE DEF v
  <2>9. OpenAt(v.run, next) = next + 1
      BY <2>8 DEF OpenAt, NoRun
  <2>10. \A j \in 1..next : reading.items[j].kind # "fault"
      BY <1>4, <1>10
  <2>11. Ongoing'
      BY <1>1, <1>3, <2>6, <2>8, <2>9, <2>10 DEF Ongoing
  <2> QED BY <1>1, <1>3, <2>6, <2>8, <2>11, GoesOn
<1> QED BY <1>4, <1>6, <1>7, <1>8, <1>9, <1>10

LEMMA ReadersKeep ==
    ASSUME ReadersInv, ReadersNext
    PROVE  ReadersInv'
<1>1. CASE Refuse BY <1>1, RefuseKeeps
<1>2. CASE AskToStop BY <1>2, ReadersIdle DEF AskToStop
<1>3. CASE PdfiumStops BY <1>3, PdfiumStopsKeeps
<1>4. CASE PdfiumCharacter BY <1>4, PdfiumCharacterKeeps
<1>5. CASE PdfiumEnds BY <1>5, PdfiumEndsKeeps
<1>6. CASE PypdfPage BY <1>6, PypdfPageKeeps
<1>7. CASE PlanCrop BY <1>7, PlanCropKeeps
<1>8. CASE EngineFails BY <1>8, EngineFailsKeeps
<1>9. CASE TesseractRow BY <1>9, TesseractRowKeeps
<1>10. CASE TesseractEnds BY <1>10, TesseractEndsKeeps
<1> QED BY <1>1, <1>2, <1>3, <1>4, <1>5, <1>6, <1>7, <1>8, <1>9, <1>10 DEF ReadersNext

(***************************************************************************)
(* The commands that read a PDF.  A report that one made says on its face   *)
(* which readers, pages and OCR pages were asked, so a later command can    *)
(* ask for the same: Repeatable is what a replay relies on.                 *)
(***************************************************************************)
Grid(readers, selected, ocr) ==
    {[reader |-> n, page |-> p] : n \in readers \ {"tesseract"}, p \in selected}
    \cup {[reader |-> n, page |-> p] : n \in readers \cap {"tesseract"}, p \in ocr}

WholeReadings(plan, region) ==
    UNION {{[reader |-> c.reader, page |-> c.page, place |-> p] :
               p \in {q \in WholePage(c.reader) : InRegion(q, region)}} : c \in plan}

PagesFit(selected) == selected \in SUBSET (Nat \ {0}) /\ IsFiniteSet(selected) /\ selected # {}

Repeatable(f) ==
    /\ f.kind = "report" /\ PagesFit(f.selected)
    /\ \E pdf \in GivenPdfs : f.document = pdf.id /\ f.embeds \in {Nothing, pdf}
    /\ DOMAIN f.readers # {} /\ DOMAIN f.readers \subseteq Allowlisted
    /\ f.profile \in BuiltinProfiles \cup {"isolated"}
    /\ f.profile = "isolated" => DOMAIN f.readers = {"pypdf"}
    /\ \E ocr \in SUBSET f.selected : DOMAIN f.checks = Grid(DOMAIN f.readers, f.selected, ocr)
    /\ (\A c \in DOMAIN f.checks : f.checks[c] = "completed")
          => f.occurrences = WholeReadings(DOMAIN f.checks, f.region)

Filed(f) == f \in GivenFiles \/ f = Nothing \/ Repeatable(f)

ReportStatuses(report) == {report.checks[c] : c \in DOMAIN report.checks}

\* What the code of a command says of the report it made.
Told(code, report) ==
    /\ code = 0 => ReportStatuses(report) = {"completed"}
    /\ code = 4 => "completed" \notin ReportStatuses(report)

\* Every reader has a check on every page, every reading its check and its place.
Placed(report) ==
    /\ \A n \in DOMAIN report.readers \ {"tesseract"}, p \in report.selected :
          [reader |-> n, page |-> p] \in DOMAIN report.checks
    /\ \A o \in report.occurrences :
          /\ [reader |-> o.reader, page |-> o.page] \in DOMAIN report.checks
          /\ InRegion(o.place, report.region)

DiskFiled ==
    /\ \E d \in Disks : DOMAIN disk = DOMAIN d
    /\ \A path \in DOMAIN disk : Filed(disk[path])

PairFiled ==
    pairing.busy => pairing.request \in PairRequests /\ Told(pairing.code, pairing.first)

InspectInv == DiskFiled /\ PairFiled /\ CommandsAreSound

(***************************************************************************)
(* Ranges.  The pages of a finite set are told apart by how many precede    *)
(* them, so writing each as a range and reading the ranges gives them back. *)
(***************************************************************************)
LEMMA RangesGiveBack ==
    ASSUME NEW S, PagesFit(S), NEW total
    PROVE  NamedPages(RangesOf(S), total) = S
<1> DEFINE n == Cardinality(S)
           below == [p \in S |-> {q \in S : q <= p}]
           rank == [p \in S |-> Cardinality(below[p])]
           at == [i \in 1..n |-> CHOOSE p \in S : Cardinality({q \in S : q <= p}) = i]
<1>1. S \subseteq Nat /\ IsFiniteSet(S) /\ S # {} /\ n \in Nat /\ n # 0
    BY FS_CardinalityType, FS_EmptySet DEF PagesFit
<1>2. ASSUME NEW p \in S
      PROVE  /\ below[p] \in SUBSET S /\ IsFiniteSet(below[p])
             /\ rank[p] = Cardinality(below[p]) /\ rank[p] \in 1..n
  <2>1. below[p] \in SUBSET S /\ p \in below[p]
      BY <1>1
  <2> HIDE DEF below, n
  <2>2. IsFiniteSet(below[p]) /\ Cardinality(below[p]) <= Cardinality(S)
      BY <2>1, <1>1, FS_Subset
  <2>3. Cardinality(below[p]) \in Nat /\ Cardinality(below[p]) # 0
      BY <2>1, <2>2, FS_CardinalityType, FS_EmptySet
  <2> QED BY <2>1, <2>2, <2>3, <1>1 DEF n
<1>3. ASSUME NEW p \in S, NEW q \in S, p < q
      PROVE  rank[p] # rank[q]
  <2>1. below[p] \in SUBSET below[q] /\ q \in below[q] /\ q \notin below[p]
    <3>1. below[p] = {x \in S : x <= p} /\ below[q] = {x \in S : x <= q}
        OBVIOUS
    <3> HIDE DEF below
    <3>2. \A x \in S : x <= p => x <= q
        BY <1>1, <1>3
    <3>3. ~(q <= p)
        BY <1>1, <1>3
    <3>4. \A x \in below[p] : x \in below[q]
        BY <3>1, <3>2
    <3>5. q \in below[q]
      <4>1. q \in S /\ q <= q
          BY <1>1, <1>3
      <4> QED BY <4>1, <3>1
    <3>6. q \notin below[p]
        BY <3>1, <3>3
    <3> QED BY <3>4, <3>5, <3>6
  <2>2. IsFiniteSet(below[q]) /\ rank[p] = Cardinality(below[p]) /\ rank[q] = Cardinality(below[q])
      BY <1>2
  <2> HIDE DEF below, rank
  <2> QED BY <2>1, <2>2, FS_Subset
<1>4. rank \in Injection(S, 1..n)
  <2>1. rank \in [S -> 1..n]
      BY <1>2
  <2> HIDE DEF rank, n
  <2>2. \A p, q \in S : rank[p] = rank[q] => p = q
      BY <1>1, <1>3
  <2> QED BY <2>1, <2>2 DEF Injection, IsInjective
<1>5. rank \in Surjection(S, 1..n)
  <2>1. IsFiniteSet(1..n) /\ Cardinality(1..n) = n
      BY <1>1, FS_Interval
  <2> HIDE DEF rank
  <2> QED BY <2>1, <1>4, FS_Injection
<1>6. \A i \in 1..n : at[i] \in S /\ rank[at[i]] = i
  <2>1. \A i \in 1..n : \E p \in S : rank[p] = i
      BY <1>5 DEF Surjection
  <2>2. \A p \in S : rank[p] = Cardinality({q \in S : q <= p})
      BY Zenon
  <2> HIDE DEF rank, n
  <2>3. \A i \in 1..n : \E p \in S : Cardinality({q \in S : q <= p}) = i
      BY <2>1, <2>2
  <2>4. \A i \in 1..n : at[i] = CHOOSE p \in S : Cardinality({q \in S : q <= p}) = i
      BY Zenon
  <2> HIDE DEF at
  <2>5. \A i \in 1..n : at[i] \in S /\ Cardinality({q \in S : q <= at[i]}) = i
      BY <2>3, <2>4
  <2> QED BY <2>2, <2>5
<1>7. \A p \in S : rank[p] \in 1..n /\ at[rank[p]] = p
  <2> HIDE DEF rank, at, n
  <2> QED BY <1>2, <1>4, <1>6 DEF Injection, IsInjective
<1>8. \A i \in 1..n : at[i] = CHOOSE p \in S : Cardinality({q \in S : q <= p}) = i
    BY Zenon
<1>9. RangesOf(S).all = FALSE /\ DOMAIN RangesOf(S).parts = 1..n
      /\ \A i \in 1..n : RangeOf(RangesOf(S).parts[i]) = {at[i]}
  <2>1. RangesOf(S).all = FALSE /\ DOMAIN RangesOf(S).parts = 1..n
      BY DEF RangesOf
  <2>2. \A i \in 1..n : RangesOf(S).parts[i] =
            LET page == CHOOSE p \in S : Cardinality({q \in S : q <= p}) = i IN <<page, page>>
      BY DEF RangesOf
  <2> HIDE DEF at, n, rank
  <2>3. \A i \in 1..n : RangesOf(S).parts[i] = <<at[i], at[i]>> /\ at[i] \in Nat
      BY <2>2, <1>1, <1>6, <1>8
  <2> QED BY <2>1, <2>3 DEF RangeOf
<1> HIDE DEF rank, at, n
<1>10. RangesOf(S) # NoSpec
  <2>1. DOMAIN NoSpec.parts = {} /\ 1 \in 1..n
      BY <1>1 DEF NoSpec
  <2> QED BY <2>1, <1>9
<1>11. NamedPages(RangesOf(S), total) = UNION {{at[i]} : i \in 1..n}
    BY <1>9, <1>10 DEF NamedPages
<1>12. UNION {{at[i]} : i \in 1..n} \subseteq S
    BY <1>6
<1>13. S \subseteq UNION {{at[i]} : i \in 1..n}
    BY <1>7
<1> QED BY <1>11, <1>12, <1>13

LEMMA NoRanges == RangesOf({}) = NoSpec
<1>1. 1..Cardinality({}) = {}
    BY FS_EmptySet
<1>2. RangesOf({}).parts = <<>>
    BY <1>1 DEF RangesOf
<1>3. RangesOf({}) = [all |-> FALSE, parts |-> RangesOf({}).parts]
    BY DEF RangesOf
<1> QED BY <1>2, <1>3 DEF NoSpec

\* What ValidPages lets through names pages, at least one.
LEMMA PagesAreNamed ==
    ASSUME NEW spec \in [all : BOOLEAN, parts : Seq(Nat \X Nat)], NEW total \in Nat \ {0},
           ValidPages(spec, total)
    PROVE  PagesFit(NamedPages(spec, total))
<1> DEFINE S == NamedPages(spec, total)
<1> SUFFICES PagesFit(S)
    OBVIOUS
<1>1. CASE spec = NoSpec
  <2>1. S = {1}
      BY <1>1 DEF NamedPages
  <2>2. IsFiniteSet({1})
      BY FS_Singleton
  <2> HIDE DEF S
  <2>3. S \in SUBSET (Nat \ {0}) /\ S # {}
      BY <2>1
  <2> QED BY <2>1, <2>2, <2>3 DEF PagesFit
<1>2. CASE spec # NoSpec /\ spec.all
  <2>1. S = 1..total
      BY <1>2 DEF NamedPages
  <2>2. IsFiniteSet(1..total) /\ 1 \in 1..total
      BY FS_Interval
  <2> HIDE DEF S
  <2>3. 1 \in S
      BY <2>1, <2>2
  <2>4. \A page \in S : page \in Nat /\ page # 0
      BY <2>1
  <2>5. S \in SUBSET (Nat \ {0})
      BY <2>4
  <2> QED BY <2>1, <2>2, <2>3, <2>5 DEF PagesFit
<1>3. CASE spec # NoSpec /\ ~spec.all
  <2>1. S = UNION {RangeOf(spec.parts[i]) : i \in DOMAIN spec.parts}
      BY <1>3 DEF NamedPages
  <2>2. \A i \in DOMAIN spec.parts :
          /\ spec.parts[i][1] \in Nat /\ spec.parts[i][2] \in Nat
          /\ 1 <= spec.parts[i][1] /\ spec.parts[i][1] <= spec.parts[i][2]
      BY <1>3 DEF ValidPages
  <2>3. S \subseteq Nat \ {0}
      BY <2>1, <2>2 DEF RangeOf
  <2>4. \A page \in S : page <= total
      BY <1>3 DEF ValidPages
  <2>5. S # {}
    <3>1. spec.parts # <<>>
        BY <1>3 DEF NoSpec
    <3>2. 1 \in DOMAIN spec.parts
        BY <3>1
    <3>3. spec.parts[1][1] \in RangeOf(spec.parts[1])
        BY <2>2, <3>2 DEF RangeOf
    <3> QED BY <3>2, <3>3, <2>1
  <2> HIDE DEF S
  <2>6. IsFiniteSet(S)
    <3>1. S \in SUBSET Nat /\ total \in Nat
        BY <2>3
    <3> QED BY <3>1, <2>4, FS_BoundedSetOfNaturals
  <2> QED BY <2>3, <2>5, <2>6 DEF PagesFit
<1> QED BY <1>1, <1>2, <1>3

(***************************************************************************)
(* One inspection.                                                         *)
(***************************************************************************)
\* What is not refused is a PDF that was given, read as the request says.
LEMMA NotRefused ==
    ASSUME NEW file, NEW r, NEW expected, RefusalCode(file, r, expected) = 0, Filed(file)
    PROVE  /\ file \in GivenPdfs /\ expected \in {0, file.id}
           /\ ValidPages(r.pages, file.pages)
           /\ ValidOcr(r.ocr, NamedPages(r.pages, file.pages))
           /\ r.profile \in BuiltinProfiles \cup {"isolated"}
           /\ r.profile \in BuiltinProfiles => r.readers \subseteq Allowlisted
<1>1. /\ file.kind \notin Unusable \cup {"report"} /\ expected \in {0, file.id}
      /\ ValidPages(r.pages, file.pages)
      /\ ValidOcr(r.ocr, NamedPages(r.pages, file.pages))
      /\ r.profile \in BuiltinProfiles \cup {"isolated"}
      /\ r.profile \in BuiltinProfiles => r.readers \subseteq Allowlisted
    BY DEF RefusalCode, Unusable
<1>2. file # Nothing /\ ~Repeatable(file)
    BY <1>1 DEF Nothing, Repeatable, Unusable
<1> QED BY <1>1, <1>2, FilesAssumption DEF Filed

\* A result with a report is one made of what the readers ended with.
LEMMA ResultIsMade ==
    ASSUME NEW file, NEW r, NEW expected, NEW required, NEW origin,
           NEW result \in Inspections(file, r, expected, required, origin),
           result.report # Nothing
    PROVE  /\ RefusalCode(file, r, expected) = 0
           /\ \A n \in ReadersUsed(r) : required[n] \in {0, VersionUsed(n, r.profile)}
           /\ \E fate \in Fates(PlannedChecks(file, r), r.profile) :
                 /\ result.report = MakeReport(file, r, origin, fate)
                 /\ result.code = CodeOfStatus(result.report.status)
<1>1. \A code : Refused(code).report = Nothing
    BY DEF Refused
<1>2. RefusalCode(file, r, expected) = 0
    BY <1>1 DEF Inspections
<1>3. /\ \A n \in ReadersUsed(r) : required[n] \in {0, VersionUsed(n, r.profile)}
      /\ result \in {[code |-> CodeOfStatus(report.status), report |-> report] :
                        report \in {MakeReport(file, r, origin, fate) :
                            fate \in Fates(PlannedChecks(file, r), r.profile)}}
    BY <1>1, <1>2, Zenon DEF Inspections
<1>4. PICK fate \in Fates(PlannedChecks(file, r), r.profile) :
          result = [code |-> CodeOfStatus(MakeReport(file, r, origin, fate).status),
                    report |-> MakeReport(file, r, origin, fate)]
    BY <1>3
<1>5. result.report = MakeReport(file, r, origin, fate) /\ result.code = CodeOfStatus(result.report.status)
    BY <1>4
<1> QED BY <1>2, <1>3, <1>5

LEMMA FatesEnd ==
    ASSUME NEW plan, NEW profile, NEW fate \in Fates(plan, profile)
    PROVE  /\ DOMAIN fate = plan
           /\ \A c \in plan : fate[c].status = "completed" => fate[c].places = WholePage(c.reader)
           /\ \A c \in plan : fate[c].places \subseteq WholePage(c.reader)
<1>1. PICK bad \in SUBSET plan, how \in {"failed", "partly", "timeout", "unsupported", "cancelled"} :
          fate = [c \in plan |-> CheckEnds(c, profile, IF c \in bad THEN how ELSE "completed")]
    BY DEF Fates
<1>2. ASSUME NEW c, NEW h \in {"completed", "failed", "partly", "timeout", "unsupported", "cancelled"}
      PROVE  /\ CheckEnds(c, profile, h).status = "completed" => CheckEnds(c, profile, h).places = WholePage(c.reader)
             /\ CheckEnds(c, profile, h).places \subseteq WholePage(c.reader)
    BY DEF CheckEnds
<1> QED BY <1>1, <1>2

LEMMA CodesTell ==
    ASSUME NEW S
    PROVE  /\ ExecutionStatus(S) = "complete" => S = {"completed"}
           /\ CodeOfStatus(ExecutionStatus(S)) = 0 => S = {"completed"}
           /\ CodeOfStatus(ExecutionStatus(S)) = 4 => "completed" \notin S
<1>1. ExecutionStatus(S) \in {"cancelled", "complete", "failed", "partial"}
    BY DEF ExecutionStatus
<1>2. ExecutionStatus(S) = "complete" => S = {"completed"}
    BY DEF ExecutionStatus
<1>3. ExecutionStatus(S) = "failed" => S \subseteq {"failed", "timeout"}
    BY DEF ExecutionStatus
<1> QED BY <1>1, <1>2, <1>3 DEF CodeOfStatus

LEMMA PlanIsGrid ==
    ASSUME NEW file, NEW r
    PROVE  PlannedChecks(file, r) =
              Grid(ReadersUsed(r), NamedPages(r.pages, file.pages),
                   OcrPages(r.ocr, NamedPages(r.pages, file.pages)))
BY DEF PlannedChecks, Grid

\* The report that is made tells its code, places its readings and can be repeated.
LEMMA MadeIsSound ==
    ASSUME NEW file, NEW r, NEW expected, NEW required, NEW origin, Filed(file),
           NEW result \in Inspections(file, r, expected, required, origin),
           result.report # Nothing, r.readers # {},
           ValidPages(r.pages, file.pages) /\ file \in GivenPdfs
               => PagesFit(NamedPages(r.pages, file.pages))
    PROVE  /\ Told(result.code, result.report) /\ Placed(result.report)
           /\ Repeatable(result.report)
<1> DEFINE selected == NamedPages(r.pages, file.pages)
           plan == PlannedChecks(file, r)
           ocr == OcrPages(r.ocr, selected)
<1>1. /\ RefusalCode(file, r, expected) = 0
      /\ \E fate \in Fates(plan, r.profile) :
            /\ result.report = MakeReport(file, r, origin, fate)
            /\ result.code = CodeOfStatus(result.report.status)
    BY ResultIsMade
<1>2. PICK fate \in Fates(plan, r.profile) :
            /\ result.report = MakeReport(file, r, origin, fate)
            /\ result.code = CodeOfStatus(result.report.status)
    BY <1>1
<1>3. /\ file \in GivenPdfs /\ PagesFit(selected) /\ ValidOcr(r.ocr, selected)
      /\ r.profile \in BuiltinProfiles \cup {"isolated"}
      /\ r.profile \in BuiltinProfiles => r.readers \subseteq Allowlisted
    BY <1>1, NotRefused
<1>4. ocr \subseteq selected
    BY <1>3 DEF ValidOcr, OcrPages
<1>5. /\ ReadersUsed(r) # {} /\ ReadersUsed(r) \subseteq Allowlisted
      /\ r.profile = "isolated" => ReadersUsed(r) = {"pypdf"}
    BY <1>3 DEF ReadersUsed, Allowlisted, BuiltinProfiles
<1>6. /\ DOMAIN fate = plan
      /\ \A c \in plan : fate[c].status = "completed" => fate[c].places = WholePage(c.reader)
    BY FatesEnd
<1>7. plan = Grid(ReadersUsed(r), selected, ocr)
    BY PlanIsGrid
<1> DEFINE report == result.report
           places == [c \in plan |-> {q \in fate[c].places : InRegion(q, r.region)}]
           readings == [c \in plan |-> {[reader |-> c.reader, page |-> c.page, place |-> p] : p \in places[c]}]
<1> HIDE DEF selected, plan, ocr
<1>8. /\ report.kind = "report" /\ report.document = file.id /\ report.selected = selected
      /\ DOMAIN report.readers = ReadersUsed(r) /\ report.region = r.region
      /\ report.profile = r.profile /\ report.embeds \in {Nothing, file}
      /\ report.checks = [c \in plan |-> fate[c].status]
      /\ report.status = ExecutionStatus({fate[c].status : c \in plan})
    BY <1>2, <1>6 DEF MakeReport, selected
<1>9. report.occurrences = UNION {readings[c] : c \in plan}
    BY <1>2, <1>6 DEF MakeReport
<1> HIDE DEF report
<1>10. DOMAIN report.checks = plan /\ \A c \in plan : report.checks[c] = fate[c].status
    BY <1>8
<1>11. ReportStatuses(report) = {fate[c].status : c \in plan}
    BY <1>10 DEF ReportStatuses
<1>12. Told(result.code, report)
    BY <1>2, <1>8, <1>11, CodesTell DEF Told, report
<1>13. ASSUME NEW o \in report.occurrences
       PROVE  [reader |-> o.reader, page |-> o.page] \in plan /\ InRegion(o.place, report.region)
  <2>1. PICK c \in plan : o \in readings[c]
      BY <1>9
  <2>2. PICK p \in places[c] : o = [reader |-> c.reader, page |-> c.page, place |-> p]
      BY <2>1
  <2>3. InRegion(p, r.region)
      BY <2>2
  <2>4. c = [reader |-> c.reader, page |-> c.page]
      BY <1>7 DEF Grid
  <2> QED BY <2>2, <2>3, <2>4, <1>8
<1>14. Placed(report)
  <2>1. ASSUME NEW n \in ReadersUsed(r) \ {"tesseract"}, NEW p \in selected
        PROVE  [reader |-> n, page |-> p] \in plan
      BY <1>7 DEF Grid
  <2> QED BY <2>1, <1>8, <1>10, <1>13 DEF Placed
<1>15. ASSUME \A c \in plan : report.checks[c] = "completed"
       PROVE  report.occurrences = WholeReadings(plan, r.region)
  <2>1. \A c \in plan : fate[c].places = WholePage(c.reader)
      BY <1>6, <1>10, <1>15
  <2>2. \A c \in plan : readings[c] =
            {[reader |-> c.reader, page |-> c.page, place |-> p] :
                p \in {q \in WholePage(c.reader) : InRegion(q, r.region)}}
      BY <2>1
  <2> HIDE DEF readings
  <2> QED BY <1>9, <2>2 DEF WholeReadings
<1>16. Repeatable(report)
  <2>1. ocr \in SUBSET report.selected
        /\ DOMAIN report.checks = Grid(DOMAIN report.readers, report.selected, ocr)
      BY <1>4, <1>7, <1>8, <1>10
  <2> HIDE DEF readings, places
  <2> QED BY <2>1, <1>3, <1>5, <1>8, <1>10, <1>15 DEF Repeatable
<1> QED BY <1>12, <1>14, <1>16 DEF report

(***************************************************************************)
(* A replay.                                                               *)
(***************************************************************************)
LEMMA ReplayedAsks ==
    ASSUME NEW report, NEW profile
    PROVE  LET r == Replayed(report, profile)
               known == (DOMAIN report.readers) \cap Allowlisted
           IN  /\ r.readers = IF known = {} THEN {"pdfium"} ELSE known
               /\ r.pages = RangesOf(report.selected)
               /\ r.ocr = RangesOf({c.page : c \in {d \in DOMAIN report.checks : d.reader = "tesseract"}})
               /\ r.region = report.region /\ r.profile = profile
               /\ r.embed = (report.embeds # Nothing) /\ r.twice = FALSE
<1> DEFINE plan == Reconstruct(report)
           r == Replayed(report, profile)
<1>1. DOMAIN plan = {"readers", "twice", "pages", "ocr", "region"}
    BY DEF Reconstruct
<1>2. /\ plan.readers = IF (DOMAIN report.readers) \cap Allowlisted = {} THEN {"pdfium"}
                        ELSE (DOMAIN report.readers) \cap Allowlisted
      /\ plan.twice = FALSE /\ plan.pages = RangesOf(report.selected)
      /\ plan.ocr = RangesOf({c.page : c \in {d \in DOMAIN report.checks : d.reader = "tesseract"}})
      /\ plan.region = report.region
    BY DEF Reconstruct
<1> HIDE DEF plan
<1>3. r = [n \in DOMAIN plan \cup {"profile", "embed"} |->
            CASE n = "profile" -> profile [] n = "embed" -> report.embeds # Nothing [] OTHER -> plan[n]]
    BY DEF Replayed, plan
<1>4. /\ r.profile = profile /\ r.embed = (report.embeds # Nothing)
      /\ r.readers = plan.readers /\ r.twice = plan.twice /\ r.pages = plan.pages
      /\ r.ocr = plan.ocr /\ r.region = plan.region
  <2> HIDE DEF r
  <2> QED BY <1>1, <1>3
<1> HIDE DEF r
<1>5. /\ r.readers = IF (DOMAIN report.readers) \cap Allowlisted = {} THEN {"pdfium"}
                     ELSE (DOMAIN report.readers) \cap Allowlisted
      /\ r.pages = RangesOf(report.selected)
      /\ r.ocr = RangesOf({c.page : c \in {d \in DOMAIN report.checks : d.reader = "tesseract"}})
      /\ r.region = report.region /\ r.profile = profile
      /\ r.embed = (report.embeds # Nothing) /\ r.twice = FALSE
    BY <1>2, <1>4
<1> QED BY <1>5 DEF r

\* What the made report says of the request.
LEMMA MadeSays ==
    ASSUME NEW file, NEW r, NEW origin, NEW fate \in Fates(PlannedChecks(file, r), r.profile)
    PROVE  LET report == MakeReport(file, r, origin, fate)
           IN  /\ report.document = file.id /\ report.selected = NamedPages(r.pages, file.pages)
               /\ DOMAIN report.readers = ReadersUsed(r)
               /\ \A n \in ReadersUsed(r) : report.readers[n] = VersionUsed(n, r.profile)
               /\ DOMAIN report.checks = PlannedChecks(file, r)
               /\ report.region = r.region /\ report.origin = origin
               /\ report.embeds = IF r.embed THEN file ELSE Nothing
               /\ report.status = "complete" =>
                     \A c \in DOMAIN report.checks : report.checks[c] = "completed"
<1> DEFINE report == MakeReport(file, r, origin, fate)
           statuses == {fate[c].status : c \in DOMAIN fate}
<1>1. /\ report.document = file.id /\ report.selected = NamedPages(r.pages, file.pages)
      /\ report.readers = [n \in ReadersUsed(r) |-> VersionUsed(n, r.profile)]
      /\ report.checks = [c \in DOMAIN fate |-> fate[c].status]
      /\ report.region = r.region /\ report.origin = origin
      /\ report.embeds = IF r.embed THEN file ELSE Nothing
      /\ report.status = ExecutionStatus(statuses)
    BY DEF MakeReport
<1>2. DOMAIN fate = PlannedChecks(file, r)
    BY FatesEnd
<1>3. report.status = "complete" => statuses = {"completed"}
    BY <1>1, CodesTell
<1> HIDE DEF report
<1>4. report.status = "complete" => \A c \in DOMAIN fate : fate[c].status = "completed"
    BY <1>3
<1>5. /\ DOMAIN report.readers = ReadersUsed(r)
      /\ \A n \in ReadersUsed(r) : report.readers[n] = VersionUsed(n, r.profile)
      /\ DOMAIN report.checks = DOMAIN fate
      /\ \A c \in DOMAIN fate : report.checks[c] = fate[c].status
    BY <1>1
<1> QED BY <1>1, <1>2, <1>4, <1>5 DEF report

\* A profile that fits is one of the recorded kind.
LEMMA ProfileFits ==
    ASSUME NEW report, Repeatable(report), NEW profile, ~ProfileMismatch(report, profile)
    PROVE  /\ profile \in BuiltinProfiles => report.profile # "isolated"
           /\ profile = "isolated" => report.profile = "isolated"
BY DEF Repeatable, ProfileMismatch, BuiltinProfiles

Faithful(made, original) ==
    /\ made.document = original.document /\ made.selected = original.selected
    /\ made.region = original.region /\ made.embeds = original.embeds
    /\ DOMAIN made.checks = DOMAIN original.checks
    /\ \A n \in DOMAIN original.readers : original.readers[n] \in {0, made.readers[n]}
    /\ made.origin = original.id
    /\ made.checks = original.checks /\ made.status = "complete" => made.occurrences = original.occurrences

LEMMA ReplayRepeats ==
    ASSUME NEW report, Repeatable(report), NEW profile, ~ProfileMismatch(report, profile),
           NEW file, Filed(file),
           NEW result \in Inspections(file, Replayed(report, profile), report.document,
                                      RecordedVersions(report), report.id),
           result.report # Nothing
    PROVE  Faithful(result.report, report)
<1> DEFINE r == Replayed(report, profile)
           R == DOMAIN report.readers
           S == report.selected
           X == {c.page : c \in {d \in DOMAIN report.checks : d.reader = "tesseract"}}
<1>1. /\ r.readers = IF R \cap Allowlisted = {} THEN {"pdfium"} ELSE R \cap Allowlisted
      /\ r.pages = RangesOf(S) /\ r.ocr = RangesOf(X)
      /\ r.region = report.region /\ r.profile = profile
      /\ r.embed = (report.embeds # Nothing)
    BY ReplayedAsks
<1> HIDE DEF r
<1>2. /\ RefusalCode(file, r, report.document) = 0
      /\ \A n \in ReadersUsed(r) : RecordedVersions(report)[n] \in {0, VersionUsed(n, r.profile)}
      /\ \E fate \in Fates(PlannedChecks(file, r), r.profile) :
            result.report = MakeReport(file, r, report.id, fate)
    BY ResultIsMade DEF r
<1>3. PICK fate \in Fates(PlannedChecks(file, r), r.profile) :
            result.report = MakeReport(file, r, report.id, fate)
    BY <1>2
<1>4. /\ file \in GivenPdfs /\ report.document \in {0, file.id}
      /\ profile \in BuiltinProfiles \cup {"isolated"}
    BY <1>1, <1>2, NotRefused
<1>5. PICK pdf \in GivenPdfs : report.document = pdf.id /\ report.embeds \in {Nothing, pdf}
    BY DEF Repeatable
<1>6. file = pdf /\ report.document = file.id
    BY <1>4, <1>5, FilesAssumption
<1>7. PagesFit(S) /\ R # {} /\ R \subseteq Allowlisted
    BY DEF Repeatable
<1>8. r.readers = R /\ ReadersUsed(r) = R
  <2>1. r.readers = R
      BY <1>1, Repeatable(report) DEF Repeatable
  <2>2. profile = "isolated" => R = {"pypdf"}
      BY ProfileFits DEF Repeatable
  <2> QED BY <1>1, <1>4, <2>1, <2>2 DEF ReadersUsed, BuiltinProfiles
<1>9. NamedPages(r.pages, file.pages) = S
    BY <1>1, RangesGiveBack DEF Repeatable
<1>10. PICK ocr \in SUBSET S : DOMAIN report.checks = Grid(R, S, ocr)
    BY DEF Repeatable
<1>11. X = IF "tesseract" \in R THEN ocr ELSE {}
  <2>1. ASSUME NEW p \in X
        PROVE  "tesseract" \in R /\ p \in ocr
      BY <1>10 DEF Grid
  <2>2. ASSUME NEW p \in ocr, "tesseract" \in R
        PROVE  p \in X
    <3>1. [reader |-> "tesseract", page |-> p] \in DOMAIN report.checks
        BY <2>2, <1>10 DEF Grid
    <3> QED BY <3>1
  <2> HIDE DEF X
  <2> QED BY <2>1, <2>2
<1>12. OcrPages(r.ocr, S) = X
  <2> HIDE DEF X
  <2>1. CASE X = {}
      BY <2>1, <1>1, NoRanges DEF OcrPages
  <2>2. CASE X # {}
    <3>1. X \in SUBSET S
        BY <2>2, <1>11
    <3>2. PagesFit(X)
      <4>1. IsFiniteSet(S) /\ S \in SUBSET (Nat \ {0})
          BY DEF Repeatable, PagesFit
      <4>2. IsFiniteSet(X)
          BY <3>1, <4>1, FS_Subset
      <4> QED BY <2>2, <3>1, <4>1, <4>2 DEF PagesFit
    <3>3. NamedPages(RangesOf(X), LastOf(S)) = X
        BY <3>2, RangesGiveBack
    <3>4. RangesOf(X) # NoSpec
      <4>1. NamedPages(RangesOf(X), 0) = X /\ NamedPages(RangesOf(X), 2) = X
          BY <3>2, RangesGiveBack
      <4>2. CASE X = {1}
        <5>1. Cardinality(X) = 1
            BY <4>2, FS_Singleton
        <5>2. DOMAIN RangesOf(X).parts = 1..1
            BY <5>1 DEF RangesOf
        <5>3. DOMAIN NoSpec.parts = {}
            BY DEF NoSpec
        <5> QED BY <5>2, <5>3
      <4>3. CASE X # {1}
          BY <4>1, <4>3 DEF NamedPages
      <4> QED BY <4>2, <4>3
    <3> QED BY <1>1, <3>3, <3>4 DEF OcrPages
  <2> QED BY <2>1, <2>2
<1>13. PlannedChecks(file, r) = DOMAIN report.checks
  <2> HIDE DEF X, R, S
  <2>1. PlannedChecks(file, r) = Grid(R, S, X)
      BY <1>8, <1>9, <1>12, PlanIsGrid
  <2>2. Grid(R, S, X) = Grid(R, S, ocr)
    <3>1. CASE "tesseract" \in R
        BY <3>1, <1>11
    <3>2. CASE "tesseract" \notin R
        BY <3>2 DEF Grid
    <3> QED BY <3>1, <3>2
  <2> QED BY <2>1, <2>2, <1>10
<1> DEFINE made == result.report
<1>14. /\ made.document = file.id /\ made.selected = S
       /\ \A n \in R : made.readers[n] = VersionUsed(n, r.profile)
       /\ DOMAIN made.checks = DOMAIN report.checks
       /\ made.region = report.region /\ made.origin = report.id
       /\ made.embeds = IF r.embed THEN file ELSE Nothing
       /\ made.status = "complete" => \A c \in DOMAIN made.checks : made.checks[c] = "completed"
    BY <1>1, <1>3, <1>8, <1>9, <1>13, MadeSays
<1>15. made.embeds = report.embeds
    BY <1>1, <1>5, <1>6, <1>14
<1>16. \A n \in R : report.readers[n] \in {0, made.readers[n]}
  <2>1. \A n \in R : RecordedVersions(report)[n] = report.readers[n]
      BY <1>7 DEF RecordedVersions
  <2> QED BY <2>1, <1>2, <1>8, <1>14
<1>17. Repeatable(made)
  <2>1. r.readers # {}
      BY <1>7, <1>8
  <2>2. PagesFit(NamedPages(r.pages, file.pages))
      BY <1>9 DEF Repeatable
  <2> QED BY <2>1, <2>2, MadeIsSound DEF r
<1>18. made.checks = report.checks /\ made.status = "complete" => made.occurrences = report.occurrences
    BY <1>14, <1>17 DEF Repeatable
<1> HIDE DEF made
<1>19. Faithful(made, report)
    BY <1>6, <1>14, <1>15, <1>16, <1>18 DEF Faithful
<1> QED BY <1>19 DEF made

(***************************************************************************)
(* The commands keep the invariant.                                        *)
(***************************************************************************)
LEMMA InspectBegins ==
    ASSUME InspectInit
    PROVE  InspectInv
<1>1. DiskFiled
  <2>1. \A path \in DOMAIN disk : disk[path] \in GivenFiles
      BY DEF InspectInit, GivenFiles
  <2> QED BY <2>1 DEF InspectInit, DiskFiled, Filed
<1>2. PairFiled
    BY DEF InspectInit, PairFiled, NoPairing
<1>3. CommandsAreSound
    BY DEF InspectInit, NoCommand, CommandsAreSound, ExitTellsReport, ReplayIsFaithful
<1> QED BY <1>1, <1>2, <1>3 DEF InspectInv

\* A command that made nothing.
LEMMA RefusedIsSound ==
    ASSUME NEW name, NEW code, NEW original, code # 0, RefuseCommand(name, code, original)
    PROVE  CommandsAreSound'
BY DEF RefuseCommand, FinishCommand, CommandsAreSound, ExitTellsReport, ReplayIsFaithful

\* One that made a report, which says what it should.
LEMMA FinishedIsSound ==
    ASSUME NEW name, NEW code, NEW made, NEW original, FinishCommand(name, code, made, original),
           made # Nothing, Placed(made),
           code = 0 => ReportStatuses(made) = {"completed"},
           name # "compare" /\ code = 4 => "completed" \notin ReportStatuses(made),
           code = 0 /\ name = "compare" => \A c \in DOMAIN original.checks : original.checks[c] = "completed",
           name = "replay" /\ original.native => Faithful(made, original)
    PROVE  CommandsAreSound'
<1>1. last' = [name |-> name, code |-> code, made |-> made, original |-> original]
    BY DEF FinishCommand
<1>2. last'.name = name /\ last'.code = code /\ last'.made = made /\ last'.original = original
    BY <1>1
<1>3. ExitTellsReport'
    BY <1>2 DEF ExitTellsReport, Placed, ReportStatuses
<1>4. ReplayIsFaithful'
    BY <1>2 DEF ReplayIsFaithful, Faithful
<1> QED BY <1>3, <1>4 DEF CommandsAreSound

LEMMA DiskStaysFiled ==
    ASSUME DiskFiled, NEW path, NEW f, Filed(f), disk' = [disk EXCEPT ![path] = f]
    PROVE  DiskFiled'
<1>1. DOMAIN disk' = DOMAIN disk
      /\ \A p \in DOMAIN disk : disk'[p] = IF p = path THEN f ELSE disk[p]
    OBVIOUS
<1>2. \A p \in DOMAIN disk : Filed(disk'[p])
    BY <1>1 DEF DiskFiled
<1> QED BY <1>1, <1>2 DEF DiskFiled

LEMMA DeliverKeeps ==
    ASSUME InspectInv, NEW name, NEW out, NEW result, NEW original, name # "compare",
           Deliver(name, out, result, original), UNCHANGED pairing,
           result.report = Nothing => result.code # 0,
           result.report # Nothing =>
              /\ Told(result.code, result.report) /\ Placed(result.report) /\ Repeatable(result.report)
              /\ name = "replay" /\ original.native => Faithful(result.report, original)
    PROVE  InspectInv'
<1>1. PairFiled'
    BY DEF InspectInv, PairFiled
<1>2. CASE \E code : code # 0 /\ RefuseCommand(name, code, original)
  <2>1. CommandsAreSound' /\ disk' = disk
      BY <1>2, RefusedIsSound DEF RefuseCommand
  <2>2. DiskFiled'
      BY <2>1 DEF InspectInv, DiskFiled
  <2> QED BY <1>1, <2>1, <2>2 DEF InspectInv
<1>3. CASE /\ result.report # Nothing /\ disk' = [disk EXCEPT ![out] = result.report]
           /\ FinishCommand(name, result.code, result.report, original)
  <2>1. CommandsAreSound'
      BY <1>3, FinishedIsSound DEF Told
  <2>2. DiskFiled'
      BY <1>3, DiskStaysFiled DEF InspectInv, Filed
  <2> QED BY <1>1, <2>1, <2>2 DEF InspectInv
<1> QED BY <1>2, <1>3 DEF Deliver

\* The codes of what made no report.
LEMMA NoReportNoSuccess ==
    ASSUME NEW file, NEW r, NEW expected, NEW required, NEW origin,
           NEW result \in Inspections(file, r, expected, required, origin),
           result.report = Nothing
    PROVE  result.code # 0
<1>1. \A fate : MakeReport(file, r, origin, fate) # Nothing
  <2>1. \A fate : MakeReport(file, r, origin, fate).kind = "report"
      BY DEF MakeReport
  <2> QED BY <2>1 DEF Nothing
<1>2. ASSUME NEW report \in {MakeReport(file, r, origin, fate) : fate \in Fates(PlannedChecks(file, r), r.profile)},
             result = [code |-> CodeOfStatus(report.status), report |-> report]
      PROVE  FALSE
    BY <1>1, <1>2
<1>3. RefusalCode(file, r, expected) \in {0, 2, 3, 4, 5}
    BY DEF RefusalCode
<1>4. \E code \in {2, 3, 4, 5} : result = Refused(code)
    BY <1>2, <1>3, Zenon DEF Inspections
<1> QED BY <1>4 DEF Refused

LEMMA InspectKeeps ==
    ASSUME InspectInv, RunInspect
    PROVE  InspectInv'
<1>1. PICK r \in InspectRequests :
          IF Guarded(r.file, r.out, r.replace) THEN RefuseCommand("inspect", 2, Nothing)
          ELSE \E result \in Inspections(disk[r.file], r, 0, Unrequired, 0) :
                  Deliver("inspect", r.out, result, Nothing)
    BY DEF RunInspect
<1>2. UNCHANGED pairing
    BY DEF RunInspect
<1>3. CASE RefuseCommand("inspect", 2, Nothing)
  <2>1. CommandsAreSound' /\ disk' = disk
      BY <1>3, RefusedIsSound DEF RefuseCommand
  <2>2. DiskFiled' /\ PairFiled'
      BY <1>2, <2>1 DEF InspectInv, DiskFiled, PairFiled
  <2> QED BY <2>1, <2>2 DEF InspectInv
<1>4. ASSUME NEW result \in Inspections(disk[r.file], r, 0, Unrequired, 0),
             Deliver("inspect", r.out, result, Nothing)
      PROVE  InspectInv'
  <2>1. Filed(disk[r.file])
      BY RequestsAssumption DEF InspectInv, DiskFiled
  <2>2. r.readers # {} /\ r.pages \in [all : BOOLEAN, parts : Seq(Nat \X Nat)]
      BY RequestsAssumption
  <2>3. disk[r.file] \in GivenPdfs /\ ValidPages(r.pages, disk[r.file].pages)
            => PagesFit(NamedPages(r.pages, disk[r.file].pages))
      BY <2>2, PagesAreNamed, FilesAssumption
  <2>4. result.report # Nothing =>
            Told(result.code, result.report) /\ Placed(result.report) /\ Repeatable(result.report)
      BY <2>1, <2>2, <2>3, MadeIsSound
  <2>5. result.report = Nothing => result.code # 0
      BY NoReportNoSuccess
  <2> QED BY <1>2, <1>4, <2>4, <2>5, DeliverKeeps
<1> QED BY <1>1, <1>3, <1>4

LEMMA ReplayKeeps ==
    ASSUME InspectInv, RunReplay
    PROVE  InspectInv'
<1>1. PICK r \in ReplayRequests :
          LET report == disk[r.report]
              file == IF r.source # "none" THEN disk[r.source] ELSE report.embeds
          IN  IF Guarded(r.report, r.out, r.replace) THEN RefuseCommand("replay", 2, Nothing)
              ELSE IF report.kind = "missing" THEN RefuseCommand("replay", 4, Nothing)
              ELSE IF report.kind # "report" \/ ProfileMismatch(report, r.profile) \/ r.source = r.out
                   THEN RefuseCommand("replay", 2, Nothing)
              ELSE IF file = Nothing THEN RefuseCommand("replay", IF r.source = "none" THEN 2 ELSE 4, report)
              ELSE \E result \in Inspections(file, Replayed(report, r.profile), report.document,
                                             RecordedVersions(report), report.id) :
                      Deliver("replay", r.out, result, report)
    BY DEF RunReplay
<1>2. UNCHANGED pairing
    BY DEF RunReplay
<1> DEFINE report == disk[r.report]
           file == IF r.source # "none" THEN disk[r.source] ELSE report.embeds
<1>3. CASE \E code, original : code # 0 /\ RefuseCommand("replay", code, original)
  <2>1. CommandsAreSound' /\ disk' = disk
      BY <1>3, RefusedIsSound DEF RefuseCommand
  <2>2. DiskFiled' /\ PairFiled'
      BY <1>2, <2>1 DEF InspectInv, DiskFiled, PairFiled
  <2> QED BY <2>1, <2>2 DEF InspectInv
<1>4. ASSUME report.kind = "report", ~ProfileMismatch(report, r.profile),
             NEW result \in Inspections(file, Replayed(report, r.profile), report.document,
                                        RecordedVersions(report), report.id),
             Deliver("replay", r.out, result, report)
      PROVE  InspectInv'
  <2> DEFINE again == Replayed(report, r.profile)
  <2>1. Filed(report) /\ (r.source # "none" => Filed(disk[r.source]))
      BY RequestsAssumption DEF InspectInv, DiskFiled
  <2> HIDE DEF report
  <2>2. \/ Repeatable(report)
        \/ /\ report \in GivenFiles /\ ~report.native /\ report.embeds \in GivenPdfs \cup {Nothing}
           /\ report.selected \in SUBSET (Nat \ {0}) /\ IsFiniteSet(report.selected)
      BY <1>4, <2>1, FilesAssumption DEF Filed, GivenPdfs, Nothing, Unusable
  <2>3. report.embeds \in GivenPdfs \cup {Nothing}
      BY <2>2 DEF Repeatable
  <2>4. Filed(file)
      BY <2>1, <2>3 DEF Filed, GivenPdfs
  <2>5. report.selected = {} \/ PagesFit(report.selected)
      BY <2>2 DEF Repeatable, PagesFit
  <2>6. again.readers # {} /\ again.pages = RangesOf(report.selected)
    <3>1. /\ again.readers = IF (DOMAIN report.readers) \cap Allowlisted = {} THEN {"pdfium"}
                              ELSE (DOMAIN report.readers) \cap Allowlisted
          /\ again.pages = RangesOf(report.selected)
        BY ReplayedAsks
    <3> HIDE DEF again
    <3> QED BY <3>1
  <2> HIDE DEF again, file
  <2>7. PagesFit(NamedPages(again.pages, file.pages))
    <3>1. CASE report.selected = {}
      <4>1. NamedPages(again.pages, file.pages) = {1}
          BY <2>6, <3>1, NoRanges DEF NamedPages
      <4>2. IsFiniteSet({1})
          BY FS_Singleton
      <4>3. {1} \in SUBSET (Nat \ {0}) /\ {1} # {}
          OBVIOUS
      <4> QED BY <4>1, <4>2, <4>3 DEF PagesFit
    <3>2. CASE PagesFit(report.selected)
        BY <2>6, <3>2, RangesGiveBack
    <3> QED BY <2>5, <3>1, <3>2
  <2>8. result.report # Nothing =>
            Told(result.code, result.report) /\ Placed(result.report) /\ Repeatable(result.report)
      BY <1>4, <2>4, <2>6, <2>7, MadeIsSound DEF again
  <2>9. result.report = Nothing => result.code # 0
      BY <1>4, NoReportNoSuccess DEF again
  <2>10. result.report # Nothing /\ report.native => Faithful(result.report, report)
      BY <1>4, <2>2, <2>4, ReplayRepeats DEF again
  <2> QED BY <1>2, <1>4, <2>8, <2>9, <2>10, DeliverKeeps DEF report
<1>5. \/ \E code, original : code # 0 /\ RefuseCommand("replay", code, original)
      \/ /\ report.kind = "report" /\ ~ProfileMismatch(report, r.profile)
         /\ \E result \in Inspections(file, Replayed(report, r.profile), report.document,
                                      RecordedVersions(report), report.id) :
               Deliver("replay", r.out, result, report)
  <2>1. 2 # 0 /\ 4 # 0
      OBVIOUS
  <2> QED BY <1>1, <2>1, Zenon
<1> QED BY <1>3, <1>4, <1>5

\* One reader of a pair.
LEMMA PairReads ==
    ASSUME NEW r \in PairRequests, NEW reader, Filed(disk[r.file]),
           NEW result \in Inspections(disk[r.file], ReaderRequest(r, reader), 0, Unrequired, 0)
    PROVE  /\ result.report = Nothing => result.code # 0
           /\ result.report # Nothing => Told(result.code, result.report) /\ Placed(result.report)
<1> DEFINE q == ReaderRequest(r, reader)
<1>1. q.readers # {} /\ q.pages = r.pages
    BY DEF ReaderRequest
<1>2. r.pages \in [all : BOOLEAN, parts : Seq(Nat \X Nat)]
    BY RequestsAssumption
<1> HIDE DEF q
<1>3. ValidPages(q.pages, disk[r.file].pages) /\ disk[r.file] \in GivenPdfs
            => PagesFit(NamedPages(q.pages, disk[r.file].pages))
    BY <1>1, <1>2, PagesAreNamed, FilesAssumption
<1>4. result.report = Nothing => result.code # 0
    BY NoReportNoSuccess
<1>5. result.report # Nothing => Told(result.code, result.report) /\ Placed(result.report)
    BY <1>1, <1>3, MadeIsSound DEF q
<1> QED BY <1>4, <1>5

LEMMA StartPairKeeps ==
    ASSUME InspectInv, StartPair
    PROVE  InspectInv'
<1>1. PICK r \in PairRequests :
          IF RefusedPair(r) # 0 THEN RefuseCommand("compare", RefusedPair(r), Nothing) /\ UNCHANGED pairing
          ELSE \E result \in Inspections(disk[r.file], ReaderRequest(r, r.left), 0, Unrequired, 0) :
                  IF result.report = Nothing
                  THEN RefuseCommand("compare", result.code, Nothing) /\ UNCHANGED pairing
                  ELSE /\ pairing' = [busy |-> TRUE, request |-> r, first |-> result.report, code |-> result.code,
                                      folder |-> PairFile(r.left, result.report)]
                       /\ UNCHANGED <<disk, last, commands>>
    BY DEF StartPair
<1>2. Filed(disk[r.file])
    BY RequestsAssumption DEF InspectInv, DiskFiled
<1>3. CASE \E code : code # 0 /\ RefuseCommand("compare", code, Nothing) /\ UNCHANGED pairing
  <2>1. CommandsAreSound' /\ disk' = disk
      BY <1>3, RefusedIsSound DEF RefuseCommand
  <2>2. DiskFiled' /\ PairFiled'
      BY <1>3, <2>1 DEF InspectInv, DiskFiled, PairFiled
  <2> QED BY <2>1, <2>2 DEF InspectInv
<1>4. ASSUME NEW result \in Inspections(disk[r.file], ReaderRequest(r, r.left), 0, Unrequired, 0),
             result.report # Nothing,
             pairing' = [busy |-> TRUE, request |-> r, first |-> result.report, code |-> result.code,
                         folder |-> PairFile(r.left, result.report)],
             UNCHANGED <<disk, last, commands>>
      PROVE  InspectInv'
  <2>1. Told(result.code, result.report)
      BY <1>2, <1>4, PairReads
  <2>2. pairing'.request = r /\ pairing'.code = result.code /\ pairing'.first = result.report
      BY <1>4
  <2>3. PairFiled'
      BY <2>1, <2>2 DEF PairFiled, Told, ReportStatuses
  <2>4. DiskFiled'
      BY <1>4 DEF InspectInv, DiskFiled
  <2>5. CommandsAreSound'
      BY <1>4 DEF InspectInv, CommandsAreSound, ExitTellsReport, ReplayIsFaithful
  <2> QED BY <2>3, <2>4, <2>5 DEF InspectInv
<1>5. ASSUME NEW result \in Inspections(disk[r.file], ReaderRequest(r, r.left), 0, Unrequired, 0),
             result.report = Nothing
      PROVE  result.code # 0
    BY <1>2, <1>5, PairReads
<1> QED BY <1>1, <1>3, <1>4, <1>5

LEMMA EndPairKeeps ==
    ASSUME InspectInv, EndPair
    PROVE  InspectInv'
<1> DEFINE r == pairing.request
           first == pairing.first
<1>1. r \in PairRequests /\ Told(pairing.code, first)
    BY DEF EndPair, InspectInv, PairFiled
<1>2. Filed(disk[r.file])
    BY <1>1, RequestsAssumption DEF InspectInv, DiskFiled
<1>3. PICK result \in Inspections(disk[r.file], ReaderRequest(r, r.right), 0, Unrequired, 0) :
          LET code == IF result.code # 0 THEN result.code ELSE pairing.code
          IN  IF result.report = Nothing
              THEN /\ RefuseCommand("compare", result.code, Nothing)
                   /\ pairing' = [NoPairing EXCEPT !.folder = pairing.folder]
              ELSE /\ pairing' = [NoPairing EXCEPT !.folder = PairFile(r.right, result.report)]
                   /\ \E final \in {PairCode(first, result.report, code)}
                            \cup (IF first.occurrences \cup result.report.occurrences = {} THEN {} ELSE {2}) :
                         FinishCommand("compare", final, result.report, first)
                   /\ UNCHANGED disk
    BY DEF EndPair
<1>4. disk' = disk /\ ~pairing'.busy
    BY <1>3 DEF RefuseCommand, NoPairing
<1>5. DiskFiled' /\ PairFiled'
    BY <1>4 DEF InspectInv, DiskFiled, PairFiled
<1>6. /\ result.report = Nothing => result.code # 0
      /\ result.report # Nothing => Told(result.code, result.report) /\ Placed(result.report)
    BY <1>1, <1>2, PairReads
<1>7. CASE result.report = Nothing
  <2>1. CommandsAreSound'
      BY <1>3, <1>6, <1>7, RefusedIsSound
  <2> QED BY <1>5, <2>1 DEF InspectInv
<1>8. CASE result.report # Nothing
  <2> DEFINE code == IF result.code # 0 THEN result.code ELSE pairing.code
  <2>1. PICK final \in {PairCode(first, result.report, code)} \cup {2} :
            FinishCommand("compare", final, result.report, first)
      BY <1>3, <1>8
  <2>2. final = 0 => result.code = 0 /\ pairing.code = 0
      BY DEF PairCode
  <2>3. final = 0 => /\ ReportStatuses(result.report) = {"completed"}
                     /\ \A c \in DOMAIN first.checks : first.checks[c] = "completed"
    <3>1. final = 0 => ReportStatuses(result.report) = {"completed"} /\ ReportStatuses(first) = {"completed"}
        BY <1>1, <1>6, <1>8, <2>2 DEF Told
    <3>2. \A c \in DOMAIN first.checks : first.checks[c] \in ReportStatuses(first)
        BY DEF ReportStatuses
    <3> QED BY <3>1, <3>2
  <2>4. CommandsAreSound'
      BY <1>6, <1>8, <2>1, <2>3, FinishedIsSound
  <2> QED BY <1>5, <2>4 DEF InspectInv
<1> QED BY <1>7, <1>8

LEMMA CommandsKeep ==
    ASSUME InspectInv, InspectNext
    PROVE  InspectInv'
<1>1. CASE RunInspect
    BY <1>1, InspectKeeps
<1>2. CASE RunReplay
    BY <1>2, ReplayKeeps
<1>3. CASE StartPair
    BY <1>3, StartPairKeeps
<1>4. CASE EndPair
    BY <1>4, EndPairKeeps
<1>5. CASE ChangeSource
  <2>1. PICK file \in Contents : disk' = [disk EXCEPT ![Source] = file]
      BY <1>5 DEF ChangeSource
  <2>2. DiskFiled'
      BY <2>1, DiskStaysFiled DEF InspectInv, Filed, GivenFiles
  <2>3. PairFiled' /\ CommandsAreSound'
      BY <1>5 DEF ChangeSource, InspectInv, PairFiled, CommandsAreSound, ExitTellsReport, ReplayIsFaithful
  <2> QED BY <2>2, <2>3 DEF InspectInv
<1>6. CASE UpgradeReader
    BY <1>6 DEF UpgradeReader, InspectInv, DiskFiled, PairFiled, CommandsAreSound, ExitTellsReport,
        ReplayIsFaithful
<1> QED BY <1>1, <1>2, <1>3, <1>4, <1>5, <1>6 DEF InspectNext

(***************************************************************************)
(* The parts together.                                                     *)
(***************************************************************************)
NativeInv ==
    /\ BaselinesInv /\ ExchangeInv /\ WorkerInv /\ CompareInv
    /\ IF part = "reading" THEN ReadersInv ELSE ending = NoEnding /\ crop = NoCrop
    /\ IF part = "inspect" THEN InspectInv ELSE last = NoCommand

LEMMA NativeBegins == NativeInit => NativeInv
<1> SUFFICES ASSUME NativeInit PROVE NativeInv
  OBVIOUS
<1>1. BridgeInit \/ NoExchange
  BY DEF NativeInit
<1>2. ExchangeInv
  BY <1>1, BridgeBegins DEF NoExchange
<1>3. CompareInv
  BY CompareBegins DEF NativeInit, NoComparison
<1>4. IF part = "reading" THEN ReadersInv ELSE ending = NoEnding /\ crop = NoCrop
  BY ReadersBegin DEF NativeInit, NoReading
<1>5. IF part = "inspect" THEN InspectInv ELSE last = NoCommand
  BY InspectBegins DEF NativeInit, NoInspection
<1> QED BY <1>2, <1>3, <1>4, <1>5, BaselinesBegin, WorkerBegins DEF NativeInit, NativeInv

\* A step of one part leaves the others as they are.
LEMMA BaselinesIdle == ASSUME BaselinesInv, UNCHANGED baselineVars PROVE BaselinesInv'
BY DEF BaselinesInv, CreatorsFit, OneStages, OneCommits, Unswept, Written, Whole, baselineVars

LEMMA ExchangeIdle == ASSUME ExchangeInv, UNCHANGED bridgeVars PROVE ExchangeInv'
BY DEF ExchangeInv, ExchangeTyped, NotStarted, Pumping, Exchanging, ExchangeIsClean, AnswerIsWhole,
    NothingStays, Alive, bridgeVars

LEMMA WorkerIdle == ASSUME WorkerInv, UNCHANGED workerVars PROVE WorkerInv'
BY DEF WorkerInv, ClosedForGood, WorkerIsNotTrusted, Writers, workerVars

LEMMA ComparisonIdle == ASSUME CompareInv, UNCHANGED compareVars PROVE CompareInv'
<1>1. UNCHANGED <<asked, stage, outcome, verdict>>
  BY DEF compareVars
<1>2. UNCHANGED <<CompareKeys, VerdictOfAll>>
  BY <1>1 DEF CompareKeys, VerdictOfAll, StatusOfAll, Worst, Canonical, CodeOf
<1>3. \A key : Compared(key)' <=> Compared(key)
  BY <1>1 DEF Compared, BuildComparison
<1> QED BY <1>1, <1>2, <1>3 DEF CompareInv, Concluded

LEMMA ReadingIdle ==
    ASSUME ReadersInv, UNCHANGED readerVars
    PROVE  ReadersInv'
BY ReadersIdle DEF readerVars

LEMMA CommandsIdle ==
    ASSUME InspectInv, UNCHANGED inspectVars
    PROVE  InspectInv'
BY DEF InspectInv, DiskFiled, PairFiled, CommandsAreSound, ExitTellsReport, ReplayIsFaithful, inspectVars

\* The parts a step does not name.
LEMMA OthersKeep ==
    ASSUME NativeInv, UNCHANGED part
    PROVE  /\ UNCHANGED baselineVars => BaselinesInv'
           /\ UNCHANGED bridgeVars => ExchangeInv'
           /\ UNCHANGED workerVars => WorkerInv'
           /\ UNCHANGED compareVars => CompareInv'
           /\ UNCHANGED readerVars =>
                 (IF part = "reading" THEN ReadersInv ELSE ending = NoEnding /\ crop = NoCrop)'
           /\ UNCHANGED inspectVars => (IF part = "inspect" THEN InspectInv ELSE last = NoCommand)'
<1>1. BaselinesInv /\ ExchangeInv /\ WorkerInv /\ CompareInv
  BY DEF NativeInv
<1>2. ASSUME UNCHANGED readerVars
      PROVE  (IF part = "reading" THEN ReadersInv ELSE ending = NoEnding /\ crop = NoCrop)'
  <2>1. UNCHANGED <<ending, crop>>
    BY <1>2 DEF readerVars
  <2> QED BY <1>2, <2>1, ReadingIdle DEF NativeInv
<1>3. ASSUME UNCHANGED inspectVars
      PROVE  (IF part = "inspect" THEN InspectInv ELSE last = NoCommand)'
  <2>1. UNCHANGED last
    BY <1>3 DEF inspectVars
  <2> QED BY <1>3, <2>1, CommandsIdle DEF NativeInv
<1> QED BY <1>1, <1>2, <1>3, BaselinesIdle, ExchangeIdle, WorkerIdle, ComparisonIdle

LEMMA NativeKeeps ==
    ASSUME NativeInv, [NativeNext]_nativeVars
    PROVE  NativeInv'
<1>1. CASE UNCHANGED nativeVars
  BY <1>1, OthersKeep DEF nativeVars, NativeInv
<1>2. CASE Bridging(BridgeNext)
  BY <1>2, OthersKeep, ExchangeKeeps DEF Bridging, NativeInv
<1>3. CASE WorkerOnly(WorkerNext)
  BY <1>3, OthersKeep, WorkerKeeps DEF WorkerOnly, NativeInv
<1>4. CASE BaselinesNext /\ UNCHANGED <<part, bridgeVars, compareVars, readerVars, workerVars, inspectVars>>
  BY <1>4, OthersKeep, BaselinesKeep DEF NativeInv
<1>5. CASE CompareNext /\ UNCHANGED <<part, baselineVars, bridgeVars, readerVars, workerVars, inspectVars>>
  BY <1>5, OthersKeep, CompareKeeps DEF NativeInv
<1>6. CASE /\ part = "reading" /\ ReadersNext
           /\ UNCHANGED <<part, baselineVars, bridgeVars, compareVars, workerVars, inspectVars>>
  BY <1>6, OthersKeep, ReadersKeep DEF NativeInv
<1>7. CASE /\ part = "inspect" /\ InspectNext
           /\ UNCHANGED <<part, baselineVars, bridgeVars, compareVars, readerVars, workerVars>>
  BY <1>7, OthersKeep, CommandsKeep DEF NativeInv
<1> QED BY <1>1, <1>2, <1>3, <1>4, <1>5, <1>6, <1>7 DEF NativeNext

\* NativeInv: who owns the staging directory and the sidecar, what the exchange
\* with the comparator has read and written, what a worker's threads have seen,
\* which artifacts a comparison has written, which pieces of its page a reading has
\* kept, and which reports on the disk can be replayed.
THEOREM NativeInvariance == NativeSpec => []NativeInv
BY NativeBegins, NativeKeeps, PTL DEF NativeSpec

\* However many creators race, fail and are killed, a manifest on the disk stands
\* beside all the reports of its own run, and failures leave nothing (engine.py,
\* create_baseline), short of the race in which one sweeps another's staging away.
THEOREM BaselinesStayWhole == NativeSpec => []BaselinesAreWhole
<1>1. NativeInv => BaselinesAreWhole
  BY BaselinesImply DEF NativeInv
<1> QED BY <1>1, NativeInvariance, PTL

\* Whatever the comparator and the processes of a profile's worker say, and whenever
\* they hang or die: a comparator's result is one whole envelope of a process that
\* exited with 0, and what the adapter accepts is one whole reply, of the leader or of
\* a process it left behind, while the leader exited with 0 before the deadline. None
\* of them lives on, unless the parent was interrupted (compare_bridge.py,
\* profiles/adapter.py).
THEOREM ProcessesStayClean == NativeSpec => []ProcessesAreClean
<1>1. NativeInv => ProcessesAreClean
  BY DEF NativeInv, ExchangeInv, WorkerInv, ProcessesAreClean
<1> QED BY <1>1, NativeInvariance, PTL

\* For any sides, keys, rules and answers of the comparator: the exit code and the
\* status of a comparison that ran to its end are those of its gravest pair, and
\* a report, a completed check or a reading that is gone is never "unchanged"
\* (engine.py, compare and build_comparison).
THEOREM ComparisonTells == NativeSpec => []ComparisonTellsAll
<1>1. NativeInv => ComparisonTellsAll
  BY VerdictIsTrue, LossShows DEF NativeInv, ComparisonTellsAll
<1> QED BY <1>1, NativeInvariance, PTL

\* For any page, chunk size and budget, and however a reading ends: what it says it
\* retained is what it emitted, whole pieces of the page in its order and none but
\* those; completed, all of them; and a crop holds its region and maps back into
\* the raster (pdfium.py, tesseract.py, pypdf.py).
THEOREM ReadersStayAccountable == NativeSpec => []ReadersKeepAll
<1>1. NativeInv => ReadersKeepAll
  <2> SUFFICES ASSUME NativeInv PROVE ReadersKeepAll
    OBVIOUS
  <2>1. CASE part = "reading"
    BY <2>1 DEF NativeInv, ReadersInv
  <2>2. CASE part # "reading"
    BY <2>2 DEF NativeInv, ReadersKeepAll, EmissionIsAccounted, CropHoldsWords
  <2> QED BY <2>1, <2>2
<1> QED BY <1>1, NativeInvariance, PTL

\* For any files, ranges, readers and answers: a command that made no report does
\* not exit 0, one that exits 0 made a report all of whose checks completed, and a
\* replay of a native report asks of the same document what the report asked
\* (cli.py, operations.py).
THEOREM CommandsStaySound == NativeSpec => []CommandsAreSound
<1>1. NativeInv => CommandsAreSound
  <2> SUFFICES ASSUME NativeInv PROVE CommandsAreSound
    OBVIOUS
  <2>1. CASE part = "inspect"
    BY <2>1 DEF NativeInv, InspectInv
  <2>2. CASE part # "inspect"
    BY <2>2 DEF NativeInv, CommandsAreSound, ExitTellsReport, ReplayIsFaithful, NoCommand
  <2> QED BY <2>1, <2>2
<1> QED BY <1>1, NativeInvariance, PTL
=============================================================================
