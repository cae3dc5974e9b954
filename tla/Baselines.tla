------------------------------ MODULE Baselines ------------------------------
(***************************************************************************)
(* Baseline creation (native/inkflip/baselines/engine.py, create_baseline): *)
(* several processes create a baseline at one path, each from its own run.  *)
(* The bundle is a manifest file and a sidecar directory of reports; it is  *)
(* put together in a staging directory beside them.                        *)
(*                                                                         *)
(* An action is what a process does between two operations on the disk.    *)
(* A report is [key, by]: its file name and the creator it came from.      *)
(***************************************************************************)
EXTENDS Naturals, FiniteSets

CONSTANTS Creators,   \* processes that create the baseline
          Keys,       \* file names of reports, written in this order
          RunChoices, \* what a creator may be given to approve
          NoBaseline

VARIABLES step,     \* where each creator is
          bundle,   \* the keys of the reports in a creator's record
          todo,     \* those it has not written yet
          staging,  \* the staging directory
          sidecar,  \* the directory of backing reports
          manifest  \* the creator whose record the manifest file holds

baselineVars == <<step, bundle, todo, staging, sidecar, manifest>>

Dirs == [there : BOOLEAN, files : SUBSET [key : Keys, by : Creators]]
NoDir == [there |-> FALSE, files |-> {}]
Empty == [there |-> TRUE, files |-> {}]

\* "sweeping", "swept": failed, and removed the staging directory of another creator.
Ended == {"done", "refused", "failed", "swept", "killed"}
Working == {"clear", "writing", "committed", "cleaning", "uncommitting", "removing", "sweeping"}

(***************************************************************************)
(* The run directory, the approval and the rules that a creator is given.  *)
(* Two report files may have one key: report.json and report.inkflip.json. *)
(***************************************************************************)
RunFiles == [key : Keys, suffix : {".json", ".inkflip.json"}]

Runs ==
    [approved : BOOLEAN, status : {"complete", "partial"}, allowIncomplete : BOOLEAN,
     files : SUBSET RunFiles, rules : {"none", "valid", "invalid"},
     identity : {"missing", "malformed", "placeholder", "complete"}]

ASSUME BaselineAssumption ==
    /\ Keys \subseteq Nat
    /\ NoBaseline \notin Creators
    /\ RunChoices \subseteq Runs

KeysOf(files) == {f.key : f \in files}

Ambiguous(files) == Cardinality(KeysOf(files)) # Cardinality(files)

\* _identity gives an empty one for a missing file; both digests are required.
Identified(run) == run.identity = "complete"

Acceptable(run) ==
    /\ run.approved
    /\ run.status = "complete" \/ run.allowIncomplete
    /\ run.files # {} /\ ~Ambiguous(run.files)
    /\ run.rules \in {"none", "valid"}
    /\ Identified(run)

BaselinesInit ==
    /\ step = [c \in Creators |-> "start"]
    /\ bundle = [c \in Creators |-> {}]
    /\ todo = [c \in Creators |-> {}]
    /\ staging = NoDir /\ sidecar = NoDir /\ manifest = NoBaseline

----------------------------------------------------------------------------
Goto(c, from, to) == step[c] = from /\ step' = [step EXCEPT ![c] = to]

\* The destination and its sidecar must not exist.
CheckTarget(c) ==
    /\ Goto(c, "start", IF manifest # NoBaseline \/ sidecar.there THEN "refused" ELSE "checked")
    /\ UNCHANGED <<bundle, todo, staging, sidecar, manifest>>

\* The approval, the run's index, reports and identity, and the rules.
ReadRun(c) ==
    /\ \E run \in RunChoices :
          IF Acceptable(run)
          THEN /\ Goto(c, "checked", "approved")
               /\ bundle' = [bundle EXCEPT ![c] = KeysOf(run.files)]
               /\ todo' = [todo EXCEPT ![c] = KeysOf(run.files)]
          ELSE Goto(c, "checked", "refused") /\ UNCHANGED <<bundle, todo>>
    /\ UNCHANGED <<staging, sidecar, manifest>>

CheckStaging(c) ==
    /\ Goto(c, "approved", IF staging.there THEN "refused" ELSE "clear")
    /\ UNCHANGED <<bundle, todo, staging, sidecar, manifest>>

\* A mkdir that accepts the directory of another creator.
MakeStagingExistOk(c) ==
    /\ Goto(c, "clear", "writing")
    /\ staging' = IF staging.there THEN staging ELSE Empty
    /\ UNCHANGED <<bundle, todo, sidecar, manifest>>

\* mkdir tells the loser of a race that the directory is there.
MakeStaging(c) ==
    /\ IF staging.there
       THEN Goto(c, "clear", "refused") /\ UNCHANGED staging
       ELSE Goto(c, "clear", "writing") /\ staging' = Empty
    /\ UNCHANGED <<bundle, todo, sidecar, manifest>>

\* atomic_write_bytes makes the parent directory when it is not there.
Put(dir, file) ==
    [there |-> TRUE, files |-> {f \in dir.files : f.key # file.key} \cup {file}]

WriteReport(c) ==
    /\ step[c] = "writing"
    /\ \E key \in todo[c] :
          /\ \A other \in todo[c] : key <= other
          /\ staging' = Put(staging, [key |-> key, by |-> c])
          /\ todo' = [todo EXCEPT ![c] = @ \ {key}]
    /\ UNCHANGED <<step, bundle, sidecar, manifest>>

WriteFails(c) ==
    /\ Goto(c, "writing", "cleaning")
    /\ UNCHANGED <<bundle, todo, staging, sidecar, manifest>>

\* rename needs its source, and a target that is absent or an empty directory.
Rename(c) ==
    /\ todo[c] = {}
    /\ IF staging.there /\ sidecar.files = {}
       THEN /\ Goto(c, "writing", "committed")
            /\ sidecar' = staging /\ staging' = NoDir
       ELSE Goto(c, "writing", "cleaning") /\ UNCHANGED <<staging, sidecar>>
    /\ UNCHANGED <<bundle, todo, manifest>>

WriteManifest(c) ==
    /\ Goto(c, "committed", "done")
    /\ manifest' = c
    /\ UNCHANGED <<bundle, todo, staging, sidecar>>

ManifestFails(c) ==
    /\ Goto(c, "committed", "uncommitting")
    /\ UNCHANGED <<bundle, todo, staging, sidecar, manifest>>

\* except BaseException: the staging directory, whoever's it is, ...
Clean(c) ==
    /\ \/ Goto(c, "cleaning", "failed")
       \/ Goto(c, "uncommitting", IF staging.there THEN "sweeping" ELSE "removing")
    /\ staging' = NoDir
    /\ UNCHANGED <<bundle, todo, sidecar, manifest>>

\* ... then a sidecar already renamed.
RemoveSidecar(c) ==
    /\ Goto(c, "removing", "failed") \/ Goto(c, "sweeping", "swept")
    /\ sidecar' = NoDir
    /\ UNCHANGED <<bundle, todo, staging, manifest>>

Kill(c) ==
    /\ step[c] \in Working
    /\ step' = [step EXCEPT ![c] = IF step[c] = "sweeping" THEN "swept" ELSE "killed"]
    /\ UNCHANGED <<bundle, todo, staging, sidecar, manifest>>

Create(c) ==
    \/ CheckTarget(c) \/ ReadRun(c) \/ CheckStaging(c) \/ MakeStaging(c)
    \/ WriteReport(c) \/ WriteFails(c) \/ Rename(c)
    \/ WriteManifest(c) \/ ManifestFails(c)
    \/ Clean(c) \/ RemoveSidecar(c) \/ Kill(c)

BaselinesNext == \E c \in Creators : Create(c)

BaselinesSpec == BaselinesInit /\ [][BaselinesNext]_baselineVars

----------------------------------------------------------------------------
BaselinesTypeOK ==
    /\ step \in [Creators -> {"start", "checked", "approved"} \cup Working \cup Ended]
    /\ bundle \in [Creators -> SUBSET Keys]
    /\ todo \in [Creators -> SUBSET Keys]
    /\ staging \in Dirs /\ sidecar \in Dirs
    /\ manifest \in Creators \cup {NoBaseline}

Whole(c) == [there |-> TRUE, files |-> [key : bundle[c], by : {c}]]

Unswept == \A c \in Creators : step[c] \notin {"sweeping", "swept"}

(***************************************************************************)
(* engine.py:388 "an interrupted attempt can never leave a manifest        *)
(* pointing at a partial report set": a manifest on the disk stands beside *)
(* all the reports of its run and no others, and a baseline whose creation *)
(* was reported stays. (Not once a creator that could not write its        *)
(* manifest has swept away the staging directory of another.)              *)
(***************************************************************************)
ManifestIsWhole ==
    Unswept =>
        /\ manifest # NoBaseline => sidecar = Whole(manifest)
        /\ \A c \in Creators : step[c] = "done" => manifest = c

(***************************************************************************)
(* engine.py:389 "Re-running after a failure is possible because the       *)
(* staging directory is removed on every failure path": when all attempts  *)
(* have ended and none was killed, nothing is left of those that failed.   *)
(***************************************************************************)
FailureLeavesNothing ==
    (Unswept /\ \A c \in Creators : step[c] \in Ended \ {"killed"})
        => /\ ~staging.there
           /\ sidecar.there => manifest # NoBaseline

BaselinesAreWhole == ManifestIsWhole /\ FailureLeavesNothing
=============================================================================
