--------------------------- MODULE RunDirectory ---------------------------
(***************************************************************************)
(* What a run directory of the native supervisor promises to its readers:  *)
(* an index only ever names reports that are on disk as it names them, a   *)
(* report it records as completed is not rewritten by a later run nor      *)
(* passed off as the work of another configuration, and the identity on    *)
(* disk is only ever set to that of the jobs in the index.                 *)
(***************************************************************************)
CONSTANTS Jobs, Produces, Contents, None, NoIndex

VARIABLES
    reports,    \* reports/<key>.json of each job, or None
    index,      \* index.json, or NoIndex
    identity    \* configuration named by identity.json, or None

dirVars == <<reports, index, identity>>

Done(j) == index # NoIndex /\ index.jobs[j].status = "completed"

\* The index records the job completed and its report still has those bytes.
Verified(j) ==
    /\ Done(j)
    /\ index.jobs[j].report # None
    /\ index.jobs[j].report = reports[j]

\* An index may be published over the reports on disk.
Truthful(i, disk) ==
    /\ \A j \in Jobs : i.jobs[j].report \in {None, disk[j]}
    /\ \A j \in Produces :
        i.jobs[j].status \in {"completed", "skipped"} => i.jobs[j].report # None
    /\ i.status = "complete" =>
        \A j \in Jobs : i.jobs[j].status \in {"completed", "skipped", "absent"}

Commit ==
    /\ \E j \in Jobs, c \in Contents :
        /\ ~Verified(j)
        /\ reports' = [reports EXCEPT ![j] = c]
    /\ UNCHANGED <<index, identity>>

Publish ==
    /\ index' # NoIndex
    /\ Truthful(index', reports)
    /\ \A j \in Jobs :
        Done(j) => index'.jobs[j].config \in {None, index.jobs[j].config}
    /\ UNCHANGED <<reports, identity>>

Identify ==
    /\ index # NoIndex
    /\ \A j \in Jobs : index.jobs[j].config \in {None, identity'}
    /\ UNCHANGED <<reports, index>>

DirInit == reports = [j \in Jobs |-> None] /\ index = NoIndex /\ identity = None

DirSpec == DirInit /\ [][Commit \/ Publish \/ Identify]_dirVars
=============================================================================
