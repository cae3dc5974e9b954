---------------------------- MODULE OfflineCache ----------------------------
(***************************************************************************)
(* The offline copies of the application: the service worker               *)
(* (public/sw.js) and its page side (offline/index.ts).                    *)
(*                                                                         *)
(* A generation is a manifest (its id is the manifest's digest).  Every    *)
(* step of the worker between two awaits is an action, so prepares,        *)
(* removals, fetches, status requests and the activation of a newer worker *)
(* interleave.  Deleting a cache takes its name away; a task that opened   *)
(* it goes on writing to the nameless cache ("unlinked").                  *)
(***************************************************************************)
EXTENDS Naturals, FiniteSets

CONSTANTS
    Generations,
    Paths,
    PathsOf,        \* the paths a manifest names
    Null,
    MaxRequests,    \* bound of the model on requests and browser evictions
    MaxTasks,       \* bound of the model on what is under way at once
    MaxWorkers      \* bound of the model on worker versions

\* A path of a generation is not there, or there with the bytes its digest
\* names, or with other bytes, or was deleted when it was served; the record is
\* the generation's manifest.
Entries == {"absent", "good", "bad", "evicted"}
Contents == [held : [Paths -> Entries], record : BOOLEAN]

ASSUME ManifestAssumption ==
    /\ PathsOf \in [Generations -> (SUBSET Paths) \ {{}}]
    /\ Null \notin Generations \cup Paths /\ Null \notin Contents

\* A generation's cache is not named like the index cache.
ASSUME NamesAssumption == "index" \notin Generations

ASSUME BoundsAssumption ==
    MaxRequests \in Nat /\ MaxTasks \in Nat /\ MaxWorkers \in Nat \ {0}

VARIABLES
    store,      \* generation caches by name, or Null
    index,      \* the generation the index cache points at, or Null
    worker,     \* the worker in charge; earlier ones finish what they began
    active,     \* each worker's `active`
    tasks,      \* what is under way
    requests,   \* how many requests there were
    told        \* what a page was told last, and (observer) if it was so then

offlineVars == <<store, index, worker, active, tasks, requests, told>>

Workers == 1..MaxWorkers

EmptyCache == [held |-> [p \in Paths |-> "absent"], record |-> FALSE]

OfflineInit ==
    /\ store = [g \in Generations |-> Null] /\ index = Null
    /\ worker = 1 /\ active = [w \in Workers |-> Null]
    /\ tasks = {} /\ requests = 0
    /\ told = [what |-> "nothing"]

\* caches.keys() without the index, and with it.
Caches == {g \in Generations : store[g] # Null}
Names == Caches \cup IF index = Null THEN {} ELSE {"index"}

\* g's record was written after every path was, some deleted again when served.
Whole(g) ==
    store[g] # Null /\ store[g].record /\ \A p \in PathsOf[g] : store[g].held[p] # "absent"

\* g is stored with an entry of one of these kinds for every path it names.
Stored(g, kinds) ==
    /\ g # Null /\ store[g] # Null /\ store[g].record
    /\ \A p \in PathsOf[g] : store[g].held[p] \in kinds

\* Bytes for every path (that they are the right ones is asked when they are served).
Complete(g) == Stored(g, {"good", "bad"})

Task(kind, at, g, p) ==
    [id |-> requests, by |-> worker, kind |-> kind, at |-> at, gen |-> g, path |-> p,
     left |-> {}, failed |-> FALSE, linked |-> TRUE, alone |-> TRUE]

\* Tasks that write or delete, among them a fetch that is about to delete the
\* entry it found wrong; a page is promised something only by one that overlaps
\* no other.
Writes(t) ==
    \/ t.kind \in {"prepare", "remove", "late_remove", "activate"}
    \/ t.at = "verify" /\ t.failed

Crowd(ts) == {[t EXCEPT !.alone = FALSE] : t \in ts}

Begin(t) ==
    /\ requests < MaxRequests /\ requests' = requests + 1
    /\ Cardinality(tasks) < MaxTasks
    /\ LET others == {u \in tasks : Writes(u)} IN
       tasks' = (IF Writes(t) THEN Crowd(tasks) ELSE tasks)
                    \cup {[t EXCEPT !.alone = others = {}]}

\* A worker takes requests once it is activated.
Serving == \A t \in tasks : t.kind # "activate"

Moves(t, u) == tasks' = (tasks \ {t}) \cup {u}
Ends(t) == tasks' = tasks \ {t}

(***************************************************************************)
(* The Cache API: open creates, delete takes the name away.                *)
(***************************************************************************)

WithCache(g) == IF store[g] = Null THEN [store EXCEPT ![g] = EmptyCache] ELSE store

Deleted(g) == [store EXCEPT ![g] = Null]

\* The tasks after g's name is taken away.
Orphaned(ts, g) == {IF t.gen = g THEN [t EXCEPT !.linked = FALSE] ELSE t : t \in ts}

\* Writing the entry of a path through the cache that t has opened.
Put(t, p, body) == IF t.linked THEN [store EXCEPT ![t.gen].held[p] = body] ELSE store

(***************************************************************************)
(* Preparing.                                                              *)
(***************************************************************************)

\* prepare up to its first fetch.
Prepare(g) ==
    /\ Serving
    /\ Begin([Task("prepare", "fetch", g, Null) EXCEPT !.left = PathsOf[g]])
    /\ store' = WithCache(g)
    /\ UNCHANGED <<index, worker, active, told>>

\* Mutant: a failed entry is not counted.
FetchedUncounted(t, p) ==
    /\ \/ store' = Put(t, p, "good") \/ UNCHANGED store
    /\ Moves(t, [t EXCEPT !.left = @ \ {p}])
    /\ UNCHANGED <<index, worker, active, requests, told>>

\* One entry is fetched, verified and stored, or failed, and the loop goes on.
Fetched(t, p) ==
    /\ \/ /\ store' = Put(t, p, "good")
          /\ Moves(t, [t EXCEPT !.left = @ \ {p}])
       \/ /\ UNCHANGED store
          /\ Moves(t, [t EXCEPT !.left = @ \ {p}, !.failed = TRUE])
    /\ UNCHANGED <<index, worker, active, requests, told>>

\* Mutant: a failed prepare sweeps every generation.
DiscardsAll(t) ==
    /\ store' = [g \in Generations |-> Null]
    /\ tasks' = {[u EXCEPT !.linked = FALSE] : u \in tasks \ {t}}
    /\ told' = [what |-> "unprepared"]
    /\ UNCHANGED <<index, worker, active, requests>>

\* Some entry failed, or a storage call threw: the cache of that name goes.
Discards(t) ==
    /\ store' = Deleted(t.gen)
    /\ tasks' = Orphaned(tasks \ {t}, t.gen)
    /\ told' = [what |-> "unprepared"]
    /\ UNCHANGED <<index, worker, active, requests>>

Throws(t) == t.at \in {"fetch", "index", "sweep"} /\ Discards(t)

\* The manifest record is the last entry written.
Records(t) ==
    /\ store' = IF t.linked THEN [store EXCEPT ![t.gen].record = TRUE] ELSE store
    /\ Moves(t, [t EXCEPT !.at = "index"])
    /\ UNCHANGED <<index, worker, active, requests, told>>

\* The index is written, `active` set, and what else there is listed.
Flips(t) ==
    /\ index' = t.gen
    /\ active' = [active EXCEPT ![t.by] = t.gen]
    /\ Moves(t, [t EXCEPT !.at = "sweep", !.left = Caches \ {t.gen}])
    /\ UNCHANGED <<store, worker, requests, told>>

Prepared(t) ==
    /\ Ends(t)
    /\ told' = [what |-> "prepared", alone |-> t.alone, so |-> Stored(t.gen, {"good"})]
    /\ UNCHANGED <<store, index, worker, active, requests>>

PrepareStep(t) ==
    /\ t.kind = "prepare"
    /\ \/ t.at = "fetch" /\ \E p \in t.left : Fetched(t, p)
       \/ t.at = "fetch" /\ t.left = {} /\ t.failed /\ Discards(t)
       \/ t.at = "fetch" /\ t.left = {} /\ ~t.failed /\ Records(t)
       \/ t.at = "index" /\ Flips(t)
       \/ t.at = "sweep" /\ t.left = {} /\ Prepared(t)
       \/ Throws(t)

(***************************************************************************)
(* Removing: the worker sweeps every cache it owns, then the page does.    *)
(***************************************************************************)

\* Mutant: the pointer is not one of the owned caches.
OwnedGenerations == Caches

OwnedNames == Names

RemoveCopies ==
    /\ Serving
    /\ Begin([Task("remove", "sweep", Null, Null) EXCEPT !.left = OwnedNames])
    /\ UNCHANGED <<store, index, worker, active, told>>

\* The worker has no answer in time, or is done: the page goes on itself.
PageSweeps(t, rest) ==
    tasks' = (tasks \ {t}) \cup rest
                \cup {[t EXCEPT !.at = "page_sweep", !.left = OwnedNames]}

WorkerRemoved(t) ==
    /\ active' = [active EXCEPT ![t.by] = Null]
    /\ IF t.kind = "remove" THEN PageSweeps(t, {}) ELSE Ends(t)
    /\ UNCHANGED <<store, index, worker, requests, told>>

RemoveTimesOut(t) ==
    /\ PageSweeps(t, {[t EXCEPT !.kind = "late_remove"]})
    /\ UNCHANGED <<store, index, worker, active, requests, told>>

Removed(t) ==
    /\ Ends(t)
    /\ told' = [what |-> "removed", alone |-> t.alone,
                so |-> index = Null /\ \A g \in Caches : store[g] = EmptyCache]
    /\ UNCHANGED <<store, index, worker, active, requests>>

RemoveStep(t) ==
    /\ t.kind \in {"remove", "late_remove"}
    /\ \/ t.at = "sweep" /\ t.left = {} /\ WorkerRemoved(t)
       \/ t.at = "sweep" /\ t.kind = "remove" /\ RemoveTimesOut(t)
       \/ t.at = "page_sweep" /\ t.left = {} /\ Removed(t)

\* One caches.delete of whatever has that name by now.
DeletesNext(t, n) ==
    /\ t.at \in {"sweep", "page_sweep"}
    /\ LET u == [t EXCEPT !.left = @ \ {n}] IN
       IF n = "index"
       THEN index' = Null /\ Moves(t, u) /\ UNCHANGED store
       ELSE /\ store' = Deleted(n)
            /\ tasks' = Orphaned((tasks \ {t}) \cup {u}, n)
            /\ UNCHANGED index
    /\ UNCHANGED <<worker, active, requests, told>>

(***************************************************************************)
(* Fetches, status requests and activation, all of which may loadActive.   *)
(***************************************************************************)

Fetch(p) ==
    /\ Serving
    /\ active[worker] # Null => p \in PathsOf[active[worker]]
    /\ Begin(Task("fetch", IF active[worker] = Null THEN "load" ELSE "has", active[worker], p))
    /\ UNCHANGED <<store, index, worker, active, told>>

Status ==
    /\ Serving
    /\ Begin(Task("status", IF active[worker] = Null THEN "load" ELSE "has", active[worker], Null))
    /\ UNCHANGED <<store, index, worker, active, told>>

\* A newer worker takes over at once (skipWaiting).
NewWorker ==
    /\ Serving /\ worker < MaxWorkers
    /\ worker' = worker + 1
    /\ Begin([Task("activate", "load", Null, Null) EXCEPT !.by = worker + 1])
    /\ UNCHANGED <<store, index, active, told>>

\* readIndex
LoadsIndex(t) ==
    /\ t.at = "load"
    /\ Moves(t, [t EXCEPT !.at = "record", !.gen = index])
    /\ UNCHANGED <<store, index, worker, active, requests, told>>

\* readManifestRecord finds the record of that generation.
Loadable(g) == g # Null /\ store[g] # Null /\ store[g].record

\* What each task goes on to do with what was loaded.
Resumed(t, g) ==
    IF t.kind = "activate"
    THEN {[t EXCEPT !.at = "sweep", !.left = Caches \ {g}]}
    ELSE IF g # Null /\ (t.kind = "fetch" => t.path \in PathsOf[g])
         THEN {[t EXCEPT !.at = "has", !.linked = TRUE]} ELSE {}

LoadsRecord(t) ==
    /\ t.at = "record"
    /\ LET g == IF Loadable(t.gen) THEN t.gen ELSE Null IN
       /\ active' = [active EXCEPT ![t.by] = g]
       /\ tasks' = (tasks \ {t}) \cup Resumed(t, g)
    /\ UNCHANGED <<store, index, worker, requests, told>>

\* caches.has: a generation whose cache is gone is not active any more.
Has(t) ==
    /\ t.at = "has"
    /\ IF store[t.gen] = Null
       THEN active' = [active EXCEPT ![t.by] = Null] /\ Ends(t)
       ELSE UNCHANGED active /\ Moves(t, [t EXCEPT !.at = "open"])
    /\ UNCHANGED <<store, index, worker, requests, told>>

\* Open and match; a miss goes to the network, and what is found is hashed.
Matches(t) ==
    /\ t.at = "open" /\ t.kind = "fetch"
    /\ store' = WithCache(t.gen)
    /\ LET body == store'[t.gen].held[t.path]
           found == [t EXCEPT !.at = "verify", !.failed = body = "bad", !.linked = TRUE]
       IN  \/ body \in {"absent", "evicted"} /\ Ends(t)
           \/ body = "good" /\ Moves(t, found)
           \/ body = "bad" /\ tasks' = Crowd(tasks \ {t}) \cup {found}
    /\ UNCHANGED <<index, worker, active, requests, told>>

\* The body is served, or the entry of that path is deleted, whatever it holds
\* by now, and the request left to the network.
Verifies(t) ==
    /\ t.at = "verify" /\ Ends(t)
    /\ store' = IF t.failed THEN Put(t, t.path, "evicted") ELSE store
    /\ UNCHANGED <<index, worker, active, requests, told>>

\* status reads the keys of the cache it opened, but by then `active` may be
\* another generation, or null (an error reply).
ReadsKeys(t) ==
    LET g == active[t.by]
        keys == {p \in Paths : store'[t.gen].held[p] \in {"good", "bad"}}
    IN  /\ t.at = "open" /\ t.kind = "status"
        /\ store' = WithCache(t.gen)
        /\ Ends(t)
        /\ told' = IF g # Null /\ PathsOf[g] \subseteq keys
                   THEN [what |-> "ready", alone |-> t.alone, so |-> Complete(g)]
                   ELSE [what |-> "not_ready"]
        /\ UNCHANGED <<index, worker, active, requests>>

ActivateEnds(t) ==
    /\ t.kind = "activate" /\ t.at = "sweep" /\ t.left = {}
    /\ Ends(t)
    /\ UNCHANGED <<store, index, worker, active, requests, told>>

(***************************************************************************)
(* The browser: it evicts caches, bytes go bad, and it stops workers.      *)
(***************************************************************************)

Evicts(g) ==
    /\ store[g] # Null /\ requests < MaxRequests /\ requests' = requests + 1
    /\ store' = Deleted(g)
    /\ tasks' = Crowd(Orphaned(tasks, g))
    /\ UNCHANGED <<index, worker, active, told>>

Corrupts(g, p) ==
    /\ store[g] # Null /\ store[g].held[p] = "good"
    /\ store' = [store EXCEPT ![g].held[p] = "bad"]
    /\ tasks' = Crowd(tasks)
    /\ UNCHANGED <<index, worker, active, requests, told>>

Stops ==
    /\ requests < MaxRequests /\ requests' = requests + 1
    /\ active' = [w \in Workers |-> Null] /\ tasks' = {}
    /\ told' = [what |-> "nothing"]
    /\ UNCHANGED <<store, index, worker>>

OfflineNext ==
    \/ \E g \in Generations : Prepare(g) \/ Evicts(g)
    \/ RemoveCopies \/ Status \/ NewWorker \/ Stops
    \/ \E p \in Paths : Fetch(p)
    \/ \E g \in Generations, p \in Paths : Corrupts(g, p)
    \/ \E t \in tasks :
        \/ PrepareStep(t) \/ RemoveStep(t) \/ ActivateEnds(t)
        \/ \E n \in t.left : DeletesNext(t, n)
        \/ LoadsIndex(t) \/ LoadsRecord(t) \/ Has(t) \/ Matches(t)
        \/ Verifies(t) \/ ReadsKeys(t)

OfflineSpec == OfflineInit /\ [][OfflineNext]_offlineVars

(***************************************************************************)
(* Properties.                                                             *)
(***************************************************************************)

Told ==
    [what : {"nothing", "unprepared", "not_ready"}]
        \cup [what : {"prepared", "removed", "ready"}, alone : BOOLEAN, so : BOOLEAN]

OfflineTypeOK ==
    /\ store \in [Generations -> Contents \cup {Null}]
    /\ index \in Generations \cup {Null}
    /\ worker \in Workers /\ active \in [Workers -> Generations \cup {Null}]
    /\ requests \in 0..MaxRequests
    /\ told \in Told
    /\ \A t, u \in tasks : t.id = u.id => t.kind # u.kind \/ t = u

\* The types, and what sw.js says: an interrupted prepare can never produce an
\* active-but-incomplete generation.  Whatever prepares, removals, evictions and
\* worker updates it overlaps, a generation's record is there only with an entry
\* for every path, or the trace of one that a fetch found wrong and deleted.
NeverHalfStored ==
    /\ OfflineTypeOK
    /\ \A g \in Generations : store[g] # Null /\ store[g].record => Whole(g)

\* What a page is told is so, unless other writers, an eviction or a corruption
\* overlapped its request: it is told "prepared" only when every byte is stored
\* and is the one the manifest names, also where the copy was damaged before
\* (offline/README.md); "ready" only of a generation with its record and bytes
\* for every path; and "removed" only when no pointer and no bytes are left, an
\* empty cache perhaps.  A fetch about to delete an entry it found wrong counts
\* as a writer: it may delete what a prepare has repaired meanwhile.
TellsTheTruth ==
    told.what \in {"prepared", "removed", "ready"} /\ told.alone => told.so

\* Neither the stored copies nor what pages hear of them is ever half true.
CopiesAreSound == NeverHalfStored /\ TellsTheTruth

\* The previous good generation stays intact: while one prepare, of that or of
\* another generation, or one worker update is under way alone, no step takes
\* the browser's complete offline copy away without another in its place, with
\* one exception: a prepare of the generation the index points at deletes it
\* when it fails, be it preparing it again or in the sweep after its own flip.
GoodGenerationKept ==
    [][ /\ index # Null /\ Complete(index) /\ UNCHANGED requests
        /\ \A t \in tasks : Writes(t) => t.alone /\ t.kind \in {"prepare", "activate"}
        => \/ index' # Null /\ Complete(index)'
           \/ \E t \in tasks : t.kind = "prepare" /\ t.gen = index /\ Discards(t) ]_offlineVars
=============================================================================
