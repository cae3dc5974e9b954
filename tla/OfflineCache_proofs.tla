------------------------ MODULE OfflineCache_proofs ------------------------
(***************************************************************************)
(* For any number of generations, paths, requests, workers and tasks under *)
(* way: no stored generation is ever half there, pages are told the truth, *)
(* and the good generation survives whatever one prepare does.             *)
(*                                                                         *)
(* Deleting a cache takes its name from every task that opened it, so a    *)
(* task whose name still leads to its cache knows what it wrote there      *)
(* (CachesAsOpened).  A task that no other writer overlaps knows more      *)
(* (AloneKnowsAll), because nobody else may flip the index or delete.      *)
(* What a status reply says of the current generation rests on there being *)
(* one generation that could be current and has something stored           *)
(* (OneIsStocked): every flip of the index lists the caches the flipping   *)
(* prepare will delete.                                                    *)
(***************************************************************************)
EXTENDS OfflineCache, TLAPS

CacheTypes ==
    /\ store \in [Generations -> Contents \cup {Null}]
    /\ index \in Generations \cup {Null}
    /\ worker \in Workers /\ active \in [Workers -> Generations \cup {Null}]
    /\ requests \in 0..MaxRequests
    /\ told \in Told

(***************************************************************************)
(* Tasks.                                                                  *)
(***************************************************************************)
Kinds == {"prepare", "remove", "late_remove", "activate", "fetch", "status"}
Places == {"fetch", "index", "sweep", "page_sweep", "load", "record", "has", "open", "verify"}

Tasks ==
    [id : Nat, by : Workers, kind : Kinds, at : Places, gen : Generations \cup {Null},
     path : Paths \cup {Null}, left : SUBSET (Generations \cup Paths \cup {"index"}),
     failed : BOOLEAN, linked : BOOLEAN, alone : BOOLEAN]

\* Where a task of each kind can be, and what it still has to do there.
Stage(t) ==
    /\ t.kind = "prepare" =>
        /\ t.gen \in Generations /\ t.at \in {"fetch", "index", "sweep"}
        /\ t.at = "fetch" => t.left \subseteq PathsOf[t.gen]
        /\ t.at = "index" => ~t.failed
        /\ t.at = "sweep" => t.left \subseteq Generations \ {t.gen}
    /\ t.kind \in {"remove", "late_remove"} =>
        /\ t.at = "sweep" \/ (t.kind = "remove" /\ t.at = "page_sweep")
        /\ t.left \subseteq Generations \cup {"index"}
    /\ t.kind = "activate" =>
        /\ t.at \in {"load", "record", "sweep"}
        /\ t.at = "sweep" => t.left \subseteq Generations
    /\ t.kind \in {"fetch", "status"} =>
        t.at \in {"load", "record", "has", "open"} \/ (t.kind = "fetch" /\ t.at = "verify")
    /\ t.kind = "fetch" => t.path \in Paths
    /\ t.at \in {"has", "open", "verify"} => t.gen \in Generations

TasksInStage == \A t \in tasks : t \in Tasks /\ t.id < requests /\ Stage(t)

\* Only a removal that timed out goes on under the identity of another task.
TimedOut(t, u) ==
    \/ t.kind = "remove" /\ t.at = "page_sweep" /\ u.kind = "late_remove"
    \/ u.kind = "remove" /\ u.at = "page_sweep" /\ t.kind = "late_remove"

OneTimedOut == \A t, u \in tasks : t.id = u.id /\ t # u => TimedOut(t, u)

\* What a task knows of the cache it opened, while its name still leads there.
KnowsItsCache(t, st) ==
    /\ t.kind = "prepare" /\ t.linked =>
        /\ st[t.gen] # Null
        /\ t.at = "fetch" /\ ~t.failed =>
            \A p \in PathsOf[t.gen] \ t.left : st[t.gen].held[p] # "absent"
        /\ t.at \in {"index", "sweep"} => st[t.gen].record
    /\ t.at = "verify" /\ t.linked =>
        st[t.gen] # Null /\ st[t.gen].held[t.path] # "absent"

CachesAsOpened == \A t \in tasks : KnowsItsCache(t, store)

RecordsWhole == \A g \in Generations : store[g] # Null /\ store[g].record => Whole(g)

(***************************************************************************)
(* What a task knows that no other writer overlaps.                        *)
(***************************************************************************)
AloneIsAlone == \A t, u \in tasks : t.alone /\ Writes(u) => u.id = t.id

\* Nothing is stored under the name.
Bare(c) == c = Null \/ c = EmptyCache

\* Every byte the prepare t has stored so far is good.
GoodSoFar(t, c) ==
    /\ t.at = "fetch" /\ ~t.failed => \A p \in PathsOf[t.gen] \ t.left : c.held[p] = "good"
    /\ t.at \in {"index", "sweep"} => \A p \in PathsOf[t.gen] : c.held[p] = "good"

KnowsItAll(t, st, ix, act) ==
    /\ t.kind = "prepare" =>
        /\ t.linked /\ (t.at = "sweep" => ix = t.gen)
        /\ GoodSoFar(t, st[t.gen])
    /\ t.kind = "remove" /\ t.at = "page_sweep" =>
        /\ ix = Null \/ "index" \in t.left
        /\ \A g \in Generations : Bare(st[g]) \/ g \in t.left
    /\ t.kind = "activate" =>
        /\ t.at = "record" => ix = t.gen
        /\ t.at = "sweep" /\ ix \in t.left => st[ix] = Null \/ ~st[ix].record
    /\ t.kind = "status" /\ t.at \in {"has", "open"} =>
        act[t.by] \in {Null, t.gen} \/ Bare(st[t.gen])

AloneKnowsAll == \A t \in tasks : t.alone => KnowsItAll(t, store, index, active)

(***************************************************************************)
(* Generations.                                                            *)
(***************************************************************************)
\* Someone may still take g for the current generation.
Seen(g, ts, ix, act) ==
    \/ g = ix \/ \E w \in Workers : act[w] = g
    \/ \E t \in ts : t.at \in {"record", "has", "open"} /\ t.gen = g

\* A prepare is still filling g's cache.
Filling(g, ts) ==
    \E t \in ts : t.kind = "prepare" /\ t.gen = g /\ t.linked /\ t.at \in {"fetch", "index"}

\* A prepare of g has yet to delete h.
Sweeping(g, h, ts) ==
    \E t \in ts : t.kind = "prepare" /\ t.at = "sweep" /\ t.gen = g /\ h \in t.left

\* Of two generations that may be taken for current, one has nothing stored,
\* or a prepare is still at work on them.
OneIsStocked ==
    \A g, h \in Generations : g # h /\ Seen(g, tasks, index, active) /\ Seen(h, tasks, index, active) =>
        \/ Bare(store[g]) \/ Bare(store[h])
        \/ Filling(g, tasks) \/ Filling(h, tasks)
        \/ Sweeping(g, h, tasks) \/ Sweeping(h, g, tasks)

Fetching(g, ts) ==
    \E t \in ts : t.kind = "prepare" /\ t.gen = g /\ t.linked /\ t.at = "fetch"

\* Entries without a record are those of a prepare still fetching, or of one
\* the browser stopped, and then no worker serves them.
Forgotten(g, ts, act) ==
    /\ \A t \in ts : ~(t.kind = "prepare" /\ t.gen = g)
    /\ \A w \in Workers : act[w] # g

LeftoversForgotten ==
    \A g \in Generations : ~Bare(store[g]) /\ ~store[g].record =>
        Fetching(g, tasks) \/ Forgotten(g, tasks, active)

(***************************************************************************)
(* What carrying tasks on preserves.                                       *)
(***************************************************************************)
\* What was in a cache before is there after.
Grows(c, d) ==
    c # Null =>
        /\ d # Null /\ (c.record => d.record)
        /\ \A p \in Paths : c.held[p] # "absent" => d.held[p] # "absent"

\* A task after a step of another: its cache may be lost, or a writer begun.
Kept(u, lost, calm) ==
    [u EXCEPT !.linked = u.linked /\ u.gen \notin lost, !.alone = u.alone /\ calm]

\* A step of tasks: rest are only carried on, new come in; the names of lost
\* are taken away, every other cache keeps what it has.
Carries(rest, lost, calm, new) ==
    /\ rest \in SUBSET tasks /\ lost \in SUBSET Generations /\ calm \in BOOLEAN
    /\ tasks' = {Kept(u, lost, calm) : u \in rest} \cup new
    /\ \A g \in Generations :
        IF g \in lost THEN store'[g] = Null ELSE Grows(store[g], store'[g])

\* No path of c loses its bytes in d.
Lasts(c, d) ==
    c # Null => \A p \in Paths : c.held[p] \in {"good", "bad"} => d.held[p] \in {"good", "bad"}

\* No cache that is there is written to.
Untouched == \A g \in Generations : store[g] # Null => store'[g] = store[g]

LEMMA KeptFields ==
    ASSUME NEW u \in Tasks, NEW lost, NEW calm \in BOOLEAN, NEW v, v = Kept(u, lost, calm)
    PROVE  /\ v \in Tasks
           /\ v.id = u.id /\ v.by = u.by /\ v.kind = u.kind /\ v.at = u.at
           /\ v.gen = u.gen /\ v.path = u.path /\ v.left = u.left /\ v.failed = u.failed
           /\ v.linked <=> u.linked /\ u.gen \notin lost
           /\ v.alone <=> u.alone /\ calm
<1> DEFINE l == u.linked /\ u.gen \notin lost
           a == u.alone /\ calm
<1>1. l \in BOOLEAN /\ a \in BOOLEAN
    OBVIOUS
<1>2. v = [u EXCEPT !.linked = l, !.alone = a]
    BY DEF Kept
<1> HIDE DEF l, a
<1>3. /\ v \in Tasks
      /\ v.id = u.id /\ v.by = u.by /\ v.kind = u.kind /\ v.at = u.at
      /\ v.gen = u.gen /\ v.path = u.path /\ v.left = u.left /\ v.failed = u.failed
      /\ v.linked = l /\ v.alone = a
    BY <1>1, <1>2, Zenon DEF Tasks
<1> QED BY <1>3 DEF l, a

LEMMA TasksCarried ==
    ASSUME NEW rest, NEW lost, NEW calm, NEW new, Carries(rest, lost, calm, new),
           TasksInStage, requests \in Nat, requests' \in Nat, requests <= requests',
           \A v \in new : v \in Tasks /\ v.id < requests' /\ Stage(v)
    PROVE  TasksInStage'
<1> SUFFICES ASSUME NEW v \in tasks', v \notin new
             PROVE  v \in Tasks /\ v.id < requests' /\ Stage(v)
    BY DEF TasksInStage
<1>1. PICK u \in rest : v = Kept(u, lost, calm)
    BY DEF Carries
<1>2. u \in Tasks /\ u.id < requests /\ Stage(u) /\ calm \in BOOLEAN
    BY <1>1 DEF Carries, TasksInStage
<1>3. /\ v \in Tasks /\ v.id = u.id /\ v.kind = u.kind /\ v.at = u.at /\ v.gen = u.gen
      /\ v.path = u.path /\ v.left = u.left /\ v.failed = u.failed
    BY <1>1, <1>2, KeptFields
<1>4. v.id < requests'
    BY <1>2, <1>3 DEF Tasks
<1>5. Stage(v)
    BY <1>2, <1>3 DEF Stage
<1> QED BY <1>3, <1>4, <1>5

LEMMA IdsCarried ==
    ASSUME NEW rest, NEW lost, NEW calm, NEW new, Carries(rest, lost, calm, new),
           TasksInStage, OneTimedOut,
           \A v \in new, u \in rest : v.id = u.id => TimedOut(v, u),
           \A v, w \in new : v.id = w.id /\ v # w => TimedOut(v, w)
    PROVE  OneTimedOut'
<1> SUFFICES ASSUME NEW v \in tasks', NEW w \in tasks', v.id = w.id, v # w
             PROVE  TimedOut(v, w)
    BY DEF OneTimedOut
<1>1. ASSUME NEW x \in tasks', x \notin new
      PROVE  \E u \in rest : /\ x = Kept(u, lost, calm)
                             /\ x.id = u.id /\ x.kind = u.kind /\ x.at = u.at
  <2>1. PICK u \in rest : x = Kept(u, lost, calm)
      BY <1>1 DEF Carries
  <2>2. u \in Tasks /\ calm \in BOOLEAN
      BY <2>1 DEF Carries, TasksInStage
  <2> QED BY <2>1, <2>2, KeptFields
<1>2. CASE v \in new /\ w \in new
    BY <1>2
<1>3. CASE v \in new /\ w \notin new
  <2>1. PICK u \in rest : w.id = u.id /\ w.kind = u.kind /\ w.at = u.at
      BY <1>1, <1>3
  <2> QED BY <1>3, <2>1 DEF TimedOut
<1>4. CASE v \notin new /\ w \in new
  <2>1. PICK u \in rest : v.id = u.id /\ v.kind = u.kind /\ v.at = u.at
      BY <1>1, <1>4
  <2>2. w.id = u.id
      BY <2>1
  <2>3. TimedOut(w, u)
      BY <1>4, <2>2
  <2> QED BY <2>1, <2>3 DEF TimedOut
<1>5. CASE v \notin new /\ w \notin new
  <2>1. PICK u \in rest : /\ v = Kept(u, lost, calm)
                         /\ v.id = u.id /\ v.kind = u.kind /\ v.at = u.at
      BY <1>1, <1>5
  <2>2. PICK z \in rest : /\ w = Kept(z, lost, calm)
                         /\ w.id = z.id /\ w.kind = z.kind /\ w.at = z.at
      BY <1>1, <1>5
  <2>3. u # z /\ u.id = z.id /\ u \in tasks /\ z \in tasks
      BY <2>1, <2>2 DEF Carries
  <2>4. TimedOut(u, z)
      BY <2>3 DEF OneTimedOut
  <2> QED BY <2>1, <2>2, <2>4, Zenon DEF TimedOut
<1> QED BY <1>2, <1>3, <1>4, <1>5

LEMMA CachesCarried ==
    ASSUME NEW rest, NEW lost, NEW calm, NEW new, Carries(rest, lost, calm, new),
           TasksInStage, CachesAsOpened, \A v \in new : KnowsItsCache(v, store')
    PROVE  CachesAsOpened'
<1> SUFFICES ASSUME NEW v \in tasks', v \notin new PROVE KnowsItsCache(v, store')
    BY DEF CachesAsOpened
<1>1. PICK u \in rest : v = Kept(u, lost, calm)
    BY DEF Carries
<1>2. u \in Tasks /\ Stage(u) /\ calm \in BOOLEAN /\ KnowsItsCache(u, store)
    BY <1>1 DEF Carries, TasksInStage, CachesAsOpened
<1>3. /\ v.kind = u.kind /\ v.at = u.at /\ v.gen = u.gen /\ v.failed = u.failed
      /\ v.path = u.path /\ v.left = u.left /\ (v.linked => u.linked /\ u.gen \notin lost)
    BY <1>1, <1>2, KeptFields
<1>4. CASE v.linked /\ (v.kind = "prepare" \/ v.at = "verify")
  <2>1. u.gen \in Generations /\ u.gen \notin lost /\ u.linked
      BY <1>2, <1>3, <1>4 DEF Stage
  <2>2. Grows(store[u.gen], store'[u.gen])
      BY <2>1 DEF Carries
  <2>3. v.at = "verify" => u.path \in Paths
      BY <1>2, <1>3 DEF Stage, Tasks, Kinds
  <2>4. u.kind = "prepare" => PathsOf[u.gen] \subseteq Paths
      BY <2>1, ManifestAssumption
  <2> QED BY <1>2, <1>3, <2>1, <2>2, <2>3, <2>4 DEF KnowsItsCache, Grows
<1>5. CASE ~(v.linked /\ (v.kind = "prepare" \/ v.at = "verify"))
    BY <1>5 DEF KnowsItsCache
<1> QED BY <1>4, <1>5

LEMMA RecordsCarried ==
    ASSUME NEW rest, NEW lost, NEW calm, NEW new, Carries(rest, lost, calm, new), RecordsWhole,
           \A g \in Generations : store'[g] # Null /\ store'[g].record =>
                \/ store[g] # Null /\ store[g].record
                \/ \A p \in PathsOf[g] : store'[g].held[p] # "absent"
    PROVE  RecordsWhole'
<1> SUFFICES ASSUME NEW g \in Generations, store'[g] # Null, store'[g].record
             PROVE  Whole(g)'
    BY DEF RecordsWhole
<1>1. PathsOf[g] \subseteq Paths
    BY ManifestAssumption
<1>2. CASE store[g] # Null /\ store[g].record
  <2>1. Whole(g) /\ Grows(store[g], store'[g])
      BY <1>2 DEF RecordsWhole, Carries
  <2> QED BY <1>1, <2>1 DEF Whole, Grows
<1>3. CASE \A p \in PathsOf[g] : store'[g].held[p] # "absent"
    BY <1>3 DEF Whole
<1> QED BY <1>2, <1>3

LEMMA AloneCarried ==
    ASSUME NEW rest, NEW lost, NEW calm, NEW new, Carries(rest, lost, calm, new),
           TasksInStage, AloneIsAlone,
           \A v \in new, u \in rest :
                /\ v.alone /\ Writes(u) => u.id = v.id
                /\ u.alone /\ calm /\ Writes(v) => v.id = u.id,
           \A v, w \in new : v.alone /\ Writes(w) => w.id = v.id
    PROVE  AloneIsAlone'
<1> SUFFICES ASSUME NEW v \in tasks', NEW w \in tasks', v.alone, Writes(w)
             PROVE  w.id = v.id
    BY DEF AloneIsAlone, Writes
<1>1. ASSUME NEW x \in tasks', x \notin new
      PROVE  \E u \in rest : /\ u \in tasks /\ x.id = u.id /\ x.kind = u.kind
                             /\ x.at = u.at /\ x.failed = u.failed
                             /\ (x.alone => u.alone /\ calm)
  <2>1. PICK u \in rest : x = Kept(u, lost, calm)
      BY <1>1 DEF Carries
  <2>2. u \in Tasks /\ u \in tasks /\ calm \in BOOLEAN
      BY <2>1 DEF Carries, TasksInStage
  <2> QED BY <2>1, <2>2, KeptFields
<1>2. CASE v \in new /\ w \in new
    BY <1>2
<1>3. CASE v \in new /\ w \notin new
  <2>1. PICK u \in rest : w.id = u.id /\ w.kind = u.kind /\ w.at = u.at /\ w.failed = u.failed
      BY <1>1, <1>3
  <2> QED BY <1>3, <2>1 DEF Writes
<1>4. CASE v \notin new /\ w \in new
  <2>1. PICK u \in rest : v.id = u.id /\ u.alone /\ calm
      BY <1>1, <1>4
  <2> QED BY <1>4, <2>1
<1>5. CASE v \notin new /\ w \notin new
  <2>1. PICK u \in rest : u \in tasks /\ v.id = u.id /\ u.alone
      BY <1>1, <1>5
  <2>2. PICK z \in rest : /\ z \in tasks /\ w.id = z.id /\ w.kind = z.kind
                         /\ w.at = z.at /\ w.failed = z.failed
      BY <1>1, <1>5
  <2> QED BY <2>1, <2>2 DEF AloneIsAlone, Writes
<1> QED BY <1>2, <1>3, <1>4, <1>5

\* The tasks as the model writes them are tasks carried on.
LEMMA KeptForms ==
    ASSUME NEW u \in Tasks, NEW g
    PROVE  /\ Kept(u, {}, TRUE) = u
           /\ Kept(u, {}, FALSE) = [u EXCEPT !.alone = FALSE]
           /\ Kept(u, {g}, TRUE) = IF u.gen = g THEN [u EXCEPT !.linked = FALSE] ELSE u
           /\ Kept(u, {g}, FALSE) =
                [(IF u.gen = g THEN [u EXCEPT !.linked = FALSE] ELSE u) EXCEPT !.alone = FALSE]
<1>1. ASSUME NEW l \in BOOLEAN, NEW a \in BOOLEAN
      PROVE  /\ l = u.linked /\ a = u.alone => [u EXCEPT !.linked = l, !.alone = a] = u
             /\ l = u.linked => [u EXCEPT !.linked = l, !.alone = a] = [u EXCEPT !.alone = a]
             /\ a = u.alone => [u EXCEPT !.linked = l, !.alone = a] = [u EXCEPT !.linked = l]
             /\ [u EXCEPT !.linked = l, !.alone = a] = [[u EXCEPT !.linked = l] EXCEPT !.alone = a]
    BY DEF Tasks
<1>2. u.linked \in BOOLEAN /\ u.alone \in BOOLEAN
    BY DEF Tasks
<1>3. Kept(u, {}, TRUE) = u
    BY <1>1, <1>2 DEF Kept
<1>4. Kept(u, {}, FALSE) = [u EXCEPT !.alone = FALSE]
    BY <1>1, <1>2 DEF Kept
<1>5. Kept(u, {g}, TRUE) = IF u.gen = g THEN [u EXCEPT !.linked = FALSE] ELSE u
    BY <1>1, <1>2 DEF Kept
<1>6. Kept(u, {g}, FALSE) =
        [(IF u.gen = g THEN [u EXCEPT !.linked = FALSE] ELSE u) EXCEPT !.alone = FALSE]
    BY <1>1, <1>2 DEF Kept
<1> QED BY <1>3, <1>4, <1>5, <1>6

LEMMA CarriedForms ==
    ASSUME NEW ts \in SUBSET Tasks
    PROVE  /\ ts = {Kept(u, {}, TRUE) : u \in ts}
           /\ Crowd(ts) = {Kept(u, {}, FALSE) : u \in ts}
<1>1. \A u \in ts : Kept(u, {}, TRUE) = u /\ Kept(u, {}, FALSE) = [u EXCEPT !.alone = FALSE]
    BY KeptForms
<1>2. ts = {Kept(u, {}, TRUE) : u \in ts}
    BY <1>1
<1>3. Crowd(ts) = {Kept(u, {}, FALSE) : u \in ts}
  <2>1. \A u \in ts : [u EXCEPT !.alone = FALSE] = Kept(u, {}, FALSE)
      BY <1>1
  <2> QED BY <2>1 DEF Crowd
<1> QED BY <1>2, <1>3

LEMMA OrphanedForm ==
    ASSUME NEW ts \in SUBSET Tasks, NEW g
    PROVE  Orphaned(ts, g) = {Kept(u, {g}, TRUE) : u \in ts}
<1>1. \A u \in ts : Kept(u, {g}, TRUE) = IF u.gen = g THEN [u EXCEPT !.linked = FALSE] ELSE u
    BY KeptForms
<1> QED BY <1>1 DEF Orphaned

LEMMA CrowdedForm ==
    ASSUME NEW ts \in SUBSET Tasks, NEW g
    PROVE  Crowd(Orphaned(ts, g)) = {Kept(u, {g}, FALSE) : u \in ts}
<1>1. \A u \in ts : Kept(u, {g}, FALSE) =
        [(IF u.gen = g THEN [u EXCEPT !.linked = FALSE] ELSE u) EXCEPT !.alone = FALSE]
    BY KeptForms
<1> DEFINE O(u) == IF u.gen = g THEN [u EXCEPT !.linked = FALSE] ELSE u
           C(u) == [u EXCEPT !.alone = FALSE]
<1>2. Orphaned(ts, g) = {O(u) : u \in ts} /\ Crowd(Orphaned(ts, g)) = {C(x) : x \in Orphaned(ts, g)}
    BY DEF Crowd, Orphaned
<1>3. \A u \in ts : Kept(u, {g}, FALSE) = C(O(u))
    BY <1>1
<1> HIDE DEF O, C
<1> QED BY <1>2, <1>3

\* The part of the invariant that is about tasks and their caches.
Shape ==
    /\ TasksInStage /\ OneTimedOut
    /\ CachesAsOpened /\ RecordsWhole /\ AloneIsAlone

\* A record is new only where every path is stored.
RecordsEarned ==
    \A g \in Generations : store'[g] # Null /\ store'[g].record =>
        \/ store[g] # Null /\ store[g].record
        \/ \A p \in PathsOf[g] : store'[g].held[p] # "absent"

LEMMA MoveShape ==
    ASSUME NEW t \in tasks, NEW lost, NEW calm, NEW new, Carries(tasks \ {t}, lost, calm, new), Shape,
           requests \in Nat, requests' = requests,
           \A v \in new :
                /\ v \in Tasks /\ Stage(v) /\ KnowsItsCache(v, store')
                /\ v.id = t.id /\ v.kind = t.kind /\ (v.alone => t.alone)
                /\ Writes(v) => Writes(t) \/ ~calm
                /\ t.kind = "remove" /\ t.at = "page_sweep" => v.at = "page_sweep",
           \A v, w \in new : v = w,
           RecordsEarned
    PROVE  Shape'
<1>1. TasksInStage /\ OneTimedOut /\ CachesAsOpened /\ RecordsWhole /\ AloneIsAlone
    BY DEF Shape
<1>2. t.id < requests
    BY <1>1 DEF TasksInStage
<1>3. TasksInStage'
  <2>1. requests' \in Nat /\ requests <= requests'
      OBVIOUS
  <2>2. \A v \in new : v \in Tasks /\ v.id < requests' /\ Stage(v)
      BY <1>2
  <2> QED BY <1>1, <2>1, <2>2, TasksCarried
<1>4. OneTimedOut'
  <2>1. ASSUME NEW v \in new, NEW u \in tasks \ {t}, v.id = u.id
        PROVE  TimedOut(v, u)
    <3>1. TimedOut(t, u)
        BY <1>1, <2>1 DEF OneTimedOut
    <3> QED BY <3>1 DEF TimedOut
  <2>2. \A v, w \in new : v.id = w.id /\ v # w => TimedOut(v, w)
      OBVIOUS
  <2>3. \A v \in new, u \in tasks \ {t} : v.id = u.id => TimedOut(v, u)
      BY <2>1
  <2> QED BY <1>1, <2>2, <2>3, IdsCarried
<1>5. CachesAsOpened'
    BY <1>1, CachesCarried
<1>6. RecordsWhole'
    BY <1>1, RecordsCarried DEF RecordsEarned
<1>7. AloneIsAlone'
  <2>1. ASSUME NEW v \in new, NEW u \in tasks \ {t}
        PROVE  /\ v.alone /\ Writes(u) => u.id = v.id
               /\ u.alone /\ calm /\ Writes(v) => v.id = u.id
      BY <1>1 DEF AloneIsAlone
  <2>2. \A v, w \in new : v.alone /\ Writes(w) => w.id = v.id
      OBVIOUS
  <2> QED BY <1>1, <2>1, <2>2, AloneCarried
<1> QED BY <1>3, <1>4, <1>5, <1>6, <1>7 DEF Shape

LEMMA BeginShape ==
    ASSUME NEW v, NEW calm, Carries(tasks, {}, calm, {v}), Shape,
           requests \in Nat, requests' = requests + 1,
           v \in Tasks, v.id = requests, Stage(v), KnowsItsCache(v, store'),
           Writes(v) => ~calm, v.alone => \A u \in tasks : ~Writes(u),
           RecordsEarned
    PROVE  Shape'
<1>1. TasksInStage /\ OneTimedOut /\ CachesAsOpened /\ RecordsWhole /\ AloneIsAlone
    BY DEF Shape
<1>2. TasksInStage'
  <2>1. requests' \in Nat /\ requests <= requests' /\ v.id < requests'
      OBVIOUS
  <2> QED BY <1>1, <2>1, TasksCarried
<1>3. OneTimedOut'
  <2>1. \A u \in tasks : v.id # u.id
      BY <1>1 DEF TasksInStage, Tasks
  <2> QED BY <1>1, <2>1, IdsCarried
<1>4. CachesAsOpened'
    BY <1>1, CachesCarried
<1>5. RecordsWhole'
    BY <1>1, RecordsCarried DEF RecordsEarned
<1>6. AloneIsAlone'
    BY <1>1, AloneCarried
<1> QED BY <1>2, <1>3, <1>4, <1>5, <1>6 DEF Shape

\* A step of no task.
LEMMA OthersShape ==
    ASSUME NEW lost, NEW calm, Carries(tasks, lost, calm, {}), Shape,
           requests \in Nat, requests' \in Nat, requests <= requests', RecordsEarned
    PROVE  Shape'
<1>1. TasksInStage /\ OneTimedOut /\ CachesAsOpened /\ RecordsWhole /\ AloneIsAlone
    BY DEF Shape
<1>2. TasksInStage'
    BY <1>1, TasksCarried
<1>3. OneTimedOut'
    BY <1>1, IdsCarried
<1>4. CachesAsOpened'
    BY <1>1, CachesCarried
<1>5. RecordsWhole'
    BY <1>1, RecordsCarried DEF RecordsEarned
<1>6. AloneIsAlone'
    BY <1>1, AloneCarried
<1> QED BY <1>2, <1>3, <1>4, <1>5, <1>6 DEF Shape

\* The work of the tasks that are carried on goes on, unless its cache is lost.
LEMMA WorkCarried ==
    ASSUME NEW rest, NEW lost, NEW calm, NEW new, Carries(rest, lost, calm, new), TasksInStage,
           NEW g \in Generations, NEW h \in Generations
    PROVE  /\ Filling(g, tasks) =>
                Filling(g, tasks \ rest) \/ Filling(g, tasks') \/ Bare(store'[g])
           /\ Fetching(g, tasks) =>
                Fetching(g, tasks \ rest) \/ Fetching(g, tasks') \/ Bare(store'[g])
           /\ Sweeping(g, h, tasks) => Sweeping(g, h, tasks \ rest) \/ Sweeping(g, h, tasks')
<1>1. ASSUME NEW s \in rest
      PROVE  \E v \in tasks' : /\ v.kind = s.kind /\ v.gen = s.gen /\ v.at = s.at /\ v.left = s.left
                               /\ s.linked /\ s.gen \notin lost => v.linked
  <2>1. s \in Tasks /\ calm \in BOOLEAN /\ Kept(s, lost, calm) \in tasks'
      BY DEF Carries, TasksInStage
  <2> DEFINE v == Kept(s, lost, calm)
  <2>2. /\ v.kind = s.kind /\ v.gen = s.gen /\ v.at = s.at /\ v.left = s.left
        /\ s.linked /\ s.gen \notin lost => v.linked
      BY <2>1, KeptFields
  <2> QED BY <2>1, <2>2
<1>2. g \in lost => Bare(store'[g])
    BY DEF Carries, Bare
<1>3. Filling(g, tasks) => Filling(g, tasks \ rest) \/ Filling(g, tasks') \/ Bare(store'[g])
    BY <1>1, <1>2 DEF Filling
<1>4. Fetching(g, tasks) => Fetching(g, tasks \ rest) \/ Fetching(g, tasks') \/ Bare(store'[g])
    BY <1>1, <1>2 DEF Fetching
<1>5. Sweeping(g, h, tasks) => Sweeping(g, h, tasks \ rest) \/ Sweeping(g, h, tasks')
    BY <1>1 DEF Sweeping
<1> QED BY <1>3, <1>4, <1>5

\* The prepare of g that has just flipped the index will delete what else there is.
Rules(g, ts) == \A h \in Generations \ {g} : Bare(store'[h]) \/ Sweeping(g, h, ts)

LEMMA StockedCarried ==
    ASSUME NEW rest, NEW lost, NEW calm, NEW new, Carries(rest, lost, calm, new),
           TasksInStage, OneIsStocked,
           \A g \in Generations : Seen(g, new, index', active') =>
                Seen(g, tasks, index, active) \/ Rules(g, new),
           \A g \in Generations : Bare(store[g]) => Bare(store'[g]) \/ Filling(g, new),
           \A g \in Generations : Filling(g, tasks \ rest) =>
                Filling(g, new) \/ Bare(store'[g]) \/ Rules(g, new),
           \A g, h \in Generations : Sweeping(g, h, tasks \ rest) =>
                Sweeping(g, h, new) \/ Bare(store'[g]) \/ Bare(store'[h])
    PROVE  OneIsStocked'
<1>1. new \subseteq tasks'
    BY DEF Carries
<1>2. \A g \in Generations : Filling(g, new) => Filling(g, tasks')
    BY <1>1 DEF Filling
<1>3. \A g, h \in Generations : Sweeping(g, h, new) => Sweeping(g, h, tasks')
    BY <1>1 DEF Sweeping
<1>4. \A g \in Generations :
        Seen(g, tasks', index', active') => Seen(g, tasks, index, active) \/ Rules(g, new)
  <2> SUFFICES ASSUME NEW g \in Generations, Seen(g, tasks', index', active'),
                      ~Seen(g, new, index', active')
               PROVE  Seen(g, tasks, index, active)
      OBVIOUS
  <2>1. PICK v \in tasks' : v \notin new /\ v.at \in {"record", "has", "open"} /\ v.gen = g
      BY DEF Seen
  <2>2. PICK u \in rest : v = Kept(u, lost, calm)
      BY <2>1 DEF Carries
  <2>3. u \in Tasks /\ u \in tasks /\ calm \in BOOLEAN
      BY <2>2 DEF Carries, TasksInStage
  <2>4. v.at = u.at /\ v.gen = u.gen
      BY <2>2, <2>3, KeptFields
  <2> QED BY <2>1, <2>3, <2>4 DEF Seen
<1> SUFFICES ASSUME NEW g \in Generations, NEW h \in Generations, g # h,
                    Seen(g, tasks', index', active'), Seen(h, tasks', index', active')
             PROVE  \/ Bare(store'[g]) \/ Bare(store'[h])
                    \/ Filling(g, tasks') \/ Filling(h, tasks')
                    \/ Sweeping(g, h, tasks') \/ Sweeping(h, g, tasks')
    BY DEF OneIsStocked
<1>5. CASE Rules(g, new) \/ Rules(h, new)
    BY <1>3, <1>5 DEF Rules
<1>6. CASE ~Rules(g, new) /\ ~Rules(h, new)
  <2>1. Seen(g, tasks, index, active) /\ Seen(h, tasks, index, active)
      BY <1>4, <1>6
  <2>2. \/ Bare(store[g]) \/ Bare(store[h])
        \/ Filling(g, tasks) \/ Filling(h, tasks)
        \/ Sweeping(g, h, tasks) \/ Sweeping(h, g, tasks)
      BY <2>1 DEF OneIsStocked
  <2>3. /\ Filling(g, tasks) => Filling(g, tasks') \/ Bare(store'[g])
        /\ Filling(h, tasks) => Filling(h, tasks') \/ Bare(store'[h])
      BY <1>2, <1>6, WorkCarried
  <2>4. /\ Sweeping(g, h, tasks) =>
                Sweeping(g, h, tasks') \/ Bare(store'[g]) \/ Bare(store'[h])
        /\ Sweeping(h, g, tasks) =>
                Sweeping(h, g, tasks') \/ Bare(store'[g]) \/ Bare(store'[h])
      BY <1>3, WorkCarried
  <2>5. /\ Bare(store[g]) => Bare(store'[g]) \/ Filling(g, tasks')
        /\ Bare(store[h]) => Bare(store'[h]) \/ Filling(h, tasks')
      BY <1>2
  <2> QED BY <2>2, <2>3, <2>4, <2>5
<1> QED BY <1>5, <1>6

\* Entries that no record makes servable.
Leftover(c) == ~Bare(c) /\ ~c.record

LEMMA LeftoversCarried ==
    ASSUME NEW rest, NEW lost, NEW calm, NEW new, Carries(rest, lost, calm, new),
           TasksInStage, LeftoversForgotten,
           \A w \in Workers : active'[w] \in Generations =>
                \/ active'[w] = active[w] \/ ~Leftover(store'[active'[w]])
                \/ \E s \in tasks : s.kind = "prepare" /\ s.gen = active'[w],
           \A g \in Generations : Leftover(store'[g]) => Leftover(store[g]) \/ Fetching(g, new),
           \A g \in Generations : Fetching(g, tasks \ rest) =>
                Fetching(g, new) \/ ~Leftover(store'[g]),
           \A v \in new : v.kind = "prepare" =>
                \/ Fetching(v.gen, new)
                \/ \E s \in tasks : s.kind = "prepare" /\ s.gen = v.gen
    PROVE  LeftoversForgotten'
<1> SUFFICES ASSUME NEW g \in Generations, Leftover(store'[g]), ~Fetching(g, tasks')
             PROVE  Forgotten(g, tasks', active')
    BY DEF LeftoversForgotten, Leftover
<1>1. ~Fetching(g, new)
    BY DEF Carries, Fetching
<1>2. Leftover(store[g])
    BY <1>1
<1>3. ~Fetching(g, tasks)
    BY <1>1, WorkCarried DEF Leftover
<1>4. Forgotten(g, tasks, active)
    BY <1>2, <1>3 DEF LeftoversForgotten, Leftover
<1>5. ASSUME NEW v \in tasks', v.kind = "prepare", v.gen = g
      PROVE  FALSE
  <2>1. CASE v \in new
      BY <1>1, <1>4, <1>5, <2>1 DEF Forgotten
  <2>2. CASE v \notin new
    <3>1. PICK u \in rest : v = Kept(u, lost, calm)
        BY <2>2 DEF Carries
    <3>2. u \in Tasks /\ u \in tasks /\ calm \in BOOLEAN
        BY <3>1 DEF Carries, TasksInStage
    <3>3. u.kind = "prepare" /\ u.gen = g
        BY <1>5, <3>1, <3>2, KeptFields
    <3> QED BY <1>4, <3>2, <3>3 DEF Forgotten
  <2> QED BY <2>1, <2>2
<1>6. ASSUME NEW w \in Workers, active'[w] = g
      PROVE  FALSE
    BY <1>4, <1>6 DEF Forgotten
<1> QED BY <1>5, <1>6 DEF Forgotten

LEMMA KnowsCarried ==
    ASSUME NEW rest, NEW lost, NEW calm, NEW new, Carries(rest, lost, calm, new),
           TasksInStage, AloneKnowsAll,
           \A v \in new : v.alone => KnowsItAll(v, store', index', active'),
           \A u \in rest : u.alone /\ calm =>
                /\ u.kind = "prepare" => u.gen \notin lost
                /\ KnowsItAll(u, store', index', active')
    PROVE  AloneKnowsAll'
<1> SUFFICES ASSUME NEW v \in tasks', v \notin new, v.alone
             PROVE  KnowsItAll(v, store', index', active')
    BY DEF AloneKnowsAll
<1>1. PICK u \in rest : v = Kept(u, lost, calm)
    BY DEF Carries
<1>2. u \in Tasks /\ u \in tasks /\ calm \in BOOLEAN
    BY <1>1 DEF Carries, TasksInStage
<1>3. /\ v.by = u.by /\ v.kind = u.kind /\ v.at = u.at /\ v.gen = u.gen /\ v.left = u.left
      /\ v.failed = u.failed
      /\ u.alone /\ calm /\ (u.linked /\ u.gen \notin lost => v.linked)
    BY <1>1, <1>2, KeptFields
<1>4. KnowsItAll(u, store', index', active') /\ (u.kind = "prepare" => u.gen \notin lost)
    BY <1>3
<1> QED BY <1>3, <1>4 DEF KnowsItAll, GoodSoFar

\* The invariant.
OfflineInv ==
    /\ CacheTypes /\ Shape /\ AloneKnowsAll
    /\ OneIsStocked /\ LeftoversForgotten
    /\ TellsTheTruth

\* One step of GoodGenerationKept.
GoodKept ==
    /\ index # Null /\ Complete(index) /\ UNCHANGED requests
    /\ \A t \in tasks : Writes(t) => t.alone /\ t.kind \in {"prepare", "activate"}
    => \/ index' # Null /\ Complete(index)'
       \/ \E t \in tasks : t.kind = "prepare" /\ t.gen = index /\ Discards(t)

LEMMA GoodCarried ==
    ASSUME NEW rest, NEW lost, NEW calm, NEW new, Carries(rest, lost, calm, new), CacheTypes,
           index' = index, index \notin lost,
           index \in Generations => Lasts(store[index], store'[index])
    PROVE  GoodKept
<1> SUFFICES ASSUME index # Null, Complete(index) PROVE Complete(index)'
    BY DEF GoodKept
<1>1. index \in Generations /\ PathsOf[index] \subseteq Paths
    BY ManifestAssumption DEF CacheTypes
<1>2. Grows(store[index], store'[index]) /\ Lasts(store[index], store'[index])
    BY <1>1 DEF Carries
<1> QED BY <1>1, <1>2 DEF Complete, Stored, Grows, Lasts

\* A writer of another kind is under way.
LEMMA GoodBesides ==
    ASSUME NEW t \in tasks, Writes(t), t.kind \notin {"prepare", "activate"}
    PROVE  GoodKept
BY DEF GoodKept

(***************************************************************************)
(* The Cache API.                                                          *)
(***************************************************************************)
LEMMA EmptyIsCache ==
    /\ EmptyCache \in Contents /\ EmptyCache # Null /\ ~EmptyCache.record
    /\ \A p \in Paths : EmptyCache.held[p] = "absent"
<1>1. EmptyCache \in Contents /\ ~EmptyCache.record /\ \A p \in Paths : EmptyCache.held[p] = "absent"
    BY DEF EmptyCache, Contents, Entries
<1> QED BY <1>1, ManifestAssumption

\* Only one entry of one cache is another.
PutIn(st, g, p, b) ==
    /\ st \in [Generations -> Contents \cup {Null}]
    /\ st[g] # Null /\ st[g].record = store[g].record /\ st[g].held[p] = b
    /\ \A q \in Paths \ {p} : st[g].held[q] = store[g].held[q]
    /\ \A h \in Generations \ {g} : st[h] = store[h]

LEMMA PutCall ==
    ASSUME CacheTypes, NEW g \in Generations, store[g] # Null, NEW p \in Paths, NEW b \in Entries,
           NEW st, st = [store EXCEPT ![g].held[p] = b]
    PROVE  PutIn(st, g, p, b)
<1> DEFINE held == [store[g].held EXCEPT ![p] = b]
           c == [store[g] EXCEPT !.held = held]
<1>1. store \in [Generations -> Contents \cup {Null}] /\ store[g] \in Contents
    BY DEF CacheTypes
<1>2. /\ held \in [Paths -> Entries] /\ held[p] = b
      /\ \A q \in Paths \ {p} : held[q] = store[g].held[q]
    BY <1>1 DEF Contents
<1>3. st = [store EXCEPT ![g] = c]
    BY DEF Contents
<1> HIDE DEF held
<1>4. c \in Contents /\ c.held = held /\ c.record = store[g].record
    BY <1>1, <1>2, Zenon DEF Contents
<1> HIDE DEF c
<1>5. c # Null
    BY <1>4, ManifestAssumption
<1>6. /\ st \in [Generations -> Contents \cup {Null}] /\ st[g] = c
      /\ \A h \in Generations \ {g} : st[h] = store[h]
    BY <1>1, <1>3, <1>4
<1> QED BY <1>2, <1>4, <1>5, <1>6 DEF PutIn

LEMMA RecordCall ==
    ASSUME CacheTypes, NEW g \in Generations, store[g] # Null,
           NEW st, st = [store EXCEPT ![g].record = TRUE]
    PROVE  /\ st \in [Generations -> Contents \cup {Null}]
           /\ st[g] # Null /\ st[g].record /\ st[g].held = store[g].held
           /\ \A h \in Generations \ {g} : st[h] = store[h]
<1> DEFINE c == [store[g] EXCEPT !.record = TRUE]
<1>1. store \in [Generations -> Contents \cup {Null}] /\ store[g] \in Contents
    BY DEF CacheTypes
<1>2. st = [store EXCEPT ![g] = c]
    OBVIOUS
<1>3. c \in Contents /\ c.held = store[g].held /\ c.record
    BY <1>1, Zenon DEF Contents
<1> HIDE DEF c
<1>4. c # Null
    BY <1>3, ManifestAssumption
<1>5. /\ st \in [Generations -> Contents \cup {Null}] /\ st[g] = c
      /\ \A h \in Generations \ {g} : st[h] = store[h]
    BY <1>1, <1>2, <1>3
<1> QED BY <1>3, <1>4, <1>5

LEMMA WithCall ==
    ASSUME CacheTypes, NEW g \in Generations
    PROVE  /\ WithCache(g) \in [Generations -> Contents \cup {Null}]
           /\ WithCache(g)[g] # Null
           /\ store[g] = Null => WithCache(g)[g] = EmptyCache
           /\ store[g] # Null => WithCache(g)[g] = store[g]
           /\ \A h \in Generations \ {g} : WithCache(g)[h] = store[h]
BY EmptyIsCache DEF CacheTypes, WithCache

LEMMA DeleteCall ==
    ASSUME CacheTypes, NEW g \in Generations
    PROVE  /\ Deleted(g) \in [Generations -> Contents \cup {Null}]
           /\ Deleted(g)[g] = Null
           /\ \A h \in Generations \ {g} : Deleted(g)[h] = store[h]
BY DEF CacheTypes, Deleted

\* Something stored under a name is not bare.
LEMMA NotBare ==
    ASSUME NEW c, NEW p \in Paths, c # Null, c.held[p] # "absent" \/ c.record
    PROVE  ~Bare(c)
BY EmptyIsCache DEF Bare

(***************************************************************************)
(* Who may be alone, and what that keeps.                                  *)
(***************************************************************************)
LEMMA OnlyTimedOut ==
    ASSUME Shape, NEW t \in tasks, Writes(t), NEW u \in tasks \ {t}, u.alone
    PROVE  TimedOut(t, u)
<1>1. t.id = u.id
    BY DEF Shape, AloneIsAlone
<1> QED BY <1>1 DEF Shape, OneTimedOut

LEMMA WriterKnows ==
    ASSUME Shape, AloneKnowsAll, NEW t \in tasks, Writes(t), t.kind # "late_remove",
           NEW lost, NEW calm, NEW new, Carries(tasks \ {t}, lost, calm, new),
           \A v \in new : v.alone => KnowsItAll(v, store', index', active')
    PROVE  AloneKnowsAll'
<1>1. ASSUME NEW u \in tasks \ {t}, u.alone
      PROVE  /\ u.kind = "prepare" => u.gen \notin lost
             /\ KnowsItAll(u, store', index', active')
  <2>1. u.kind = "late_remove"
      BY <1>1, OnlyTimedOut DEF TimedOut
  <2> QED BY <2>1 DEF KnowsItAll
<1>2. \A u \in tasks \ {t} : u.alone /\ calm =>
            /\ u.kind = "prepare" => u.gen \notin lost
            /\ KnowsItAll(u, store', index', active')
    BY <1>1
<1> QED BY <1>2, KnowsCarried DEF Shape

LEMMA LateKnows ==
    ASSUME Shape, AloneKnowsAll, NEW t \in tasks, t.kind = "late_remove",
           NEW lost, NEW new, Carries(tasks \ {t}, lost, TRUE, new),
           \A v \in new : v.kind = "late_remove",
           index' = index \/ index' = Null,
           \A g \in Generations : Bare(store[g]) => Bare(store'[g])
    PROVE  AloneKnowsAll'
<1>1. ASSUME NEW u \in tasks \ {t}, u.alone
      PROVE  /\ u.kind = "prepare" => u.gen \notin lost
             /\ KnowsItAll(u, store', index', active')
  <2>1. u.kind = "remove"
      BY <1>1, OnlyTimedOut DEF TimedOut, Writes
  <2>2. KnowsItAll(u, store, index, active)
      BY <1>1 DEF AloneKnowsAll
  <2> QED BY <2>1, <2>2 DEF KnowsItAll
<1>2. \A u \in tasks \ {t} : u.alone /\ TRUE =>
            /\ u.kind = "prepare" => u.gen \notin lost
            /\ KnowsItAll(u, store', index', active')
    BY <1>1
<1>3. \A v \in new : v.alone => KnowsItAll(v, store', index', active')
    BY DEF KnowsItAll
<1> QED BY <1>2, <1>3, KnowsCarried DEF Shape

\* A step of no writer: what was empty stays so, and the reverse.
Calm ==
    \A g \in Generations :
        /\ Bare(store[g]) <=> Bare(store'[g])
        /\ store'[g] # Null /\ store'[g].record => store[g] # Null /\ store[g].record
        /\ Leftover(store'[g]) => Leftover(store[g])

LEMMA ReaderKnows ==
    ASSUME Shape, AloneKnowsAll, NEW rest, NEW calm, NEW new, Carries(rest, {}, calm, new),
           index' = index, Calm, calm => Untouched,
           \A u \in rest : u.alone /\ calm /\ u.kind = "status" /\ u.at \in {"has", "open"} =>
                active'[u.by] \in {active[u.by], Null, u.gen} \/ Bare(store[u.gen]),
           \A v \in new : v.alone => KnowsItAll(v, store', index', active')
    PROVE  AloneKnowsAll'
<1>1. ASSUME NEW u \in rest, u.alone, calm
      PROVE  KnowsItAll(u, store', index', active')
  <2>1. /\ u \in Tasks /\ Stage(u) /\ KnowsItAll(u, store, index, active)
      BY <1>1 DEF Carries, Shape, TasksInStage, AloneKnowsAll
  <2>2. CASE u.kind = "prepare"
    <3>1. u.gen \in Generations /\ u.linked /\ KnowsItsCache(u, store)
        BY <1>1, <2>1, <2>2 DEF Carries, Shape, CachesAsOpened, Stage, KnowsItAll
    <3>2. store'[u.gen] = store[u.gen]
        BY <1>1, <2>2, <3>1 DEF KnowsItsCache, Untouched
    <3> QED BY <2>1, <2>2, <3>2 DEF KnowsItAll
  <2>6. CASE u.kind = "remove"
      BY <2>1, <2>6 DEF KnowsItAll, Calm
  <2>3. CASE u.kind = "activate"
    <3>1. u.at = "sweep" => u.left \subseteq Generations
        BY <2>1, <2>3 DEF Stage
    <3> QED BY <2>1, <2>3, <3>1 DEF KnowsItAll, Calm
  <2>4. CASE u.kind = "status"
    <3>1. u.at \in {"has", "open"} => u.gen \in Generations
        BY <2>1 DEF Stage
    <3> QED BY <1>1, <2>1, <2>4, <3>1 DEF KnowsItAll, Calm
  <2>5. CASE u.kind \in {"late_remove", "fetch"}
      BY <2>5 DEF KnowsItAll
  <2> QED BY <2>1, <2>2, <2>3, <2>4, <2>5, <2>6 DEF Tasks, Kinds
<1> QED BY <1>1, KnowsCarried DEF Shape

\* Without another writer nobody fills or sweeps.
LEMMA NobodyWrites ==
    ASSUME Shape, NEW u \in tasks, u.alone, ~Writes(u), NEW x \in tasks
    PROVE  ~Writes(x)
<1> SUFFICES ASSUME Writes(x) PROVE FALSE
    OBVIOUS
<1>1. x.id = u.id /\ x # u
    BY DEF Shape, AloneIsAlone
<1>2. TimedOut(x, u)
    BY <1>1 DEF Shape, OneTimedOut
<1> QED BY <1>2 DEF TimedOut, Writes

LEMMA OneStockedUnwritten ==
    ASSUME Shape, OneIsStocked, \A x \in tasks : ~Writes(x),
           NEW g \in Generations, NEW h \in Generations, g # h,
           Seen(g, tasks, index, active), Seen(h, tasks, index, active)
    PROVE  Bare(store[g]) \/ Bare(store[h])
<1>1. ~Filling(g, tasks) /\ ~Filling(h, tasks) /\ ~Sweeping(g, h, tasks) /\ ~Sweeping(h, g, tasks)
    BY DEF Filling, Sweeping, Writes
<1> QED BY <1>1 DEF OneIsStocked

\* Steps of tasks that are no prepare, and of no task.
LEMMA OtherWork ==
    ASSUME Shape, OneIsStocked, LeftoversForgotten,
           NEW rest, NEW lost, NEW calm, NEW new, Carries(rest, lost, calm, new),
           \A s \in tasks \ rest : s.kind # "prepare",
           \A v \in new :
                /\ v.kind # "prepare"
                /\ v.at \in {"record", "has", "open"} /\ v.gen \in Generations =>
                        Seen(v.gen, tasks, index, active),
           index' = index \/ index' = Null,
           \A w \in Workers : active'[w] \in Generations =>
                /\ Seen(active'[w], tasks, index, active)
                /\ active'[w] = active[w] \/ ~Leftover(store'[active'[w]]),
           \A g \in Generations :
                /\ Bare(store[g]) => Bare(store'[g])
                /\ Leftover(store'[g]) => Leftover(store[g])
    PROVE  OneIsStocked' /\ LeftoversForgotten'
<1>1. \A g \in Generations : ~Filling(g, tasks \ rest) /\ ~Fetching(g, tasks \ rest)
    BY DEF Filling, Fetching
<1>2. \A g, h \in Generations : ~Sweeping(g, h, tasks \ rest)
    BY DEF Sweeping
<1>3. \A g \in Generations : Seen(g, new, index', active') => Seen(g, tasks, index, active)
    BY ManifestAssumption DEF Seen
<1>4. OneIsStocked'
    BY <1>1, <1>2, <1>3, StockedCarried DEF Shape
<1>5. LeftoversForgotten'
    BY <1>1, LeftoversCarried DEF Shape
<1> QED BY <1>4, <1>5

\* What every reader's step does to the caches: opening one by name, at most.
Reads == Calm /\ Untouched /\ \A g \in Generations : Grows(store[g], store'[g]) /\ Lasts(store[g], store'[g])

LEMMA Moved ==
    ASSUME Shape, NEW t \in tasks, NEW new, tasks' = (tasks \ {t}) \cup new,
           \A g \in Generations : Grows(store[g], store'[g])
    PROVE  Carries(tasks \ {t}, {}, TRUE, new)
<1>1. tasks \ {t} \in SUBSET Tasks
    BY DEF Shape, TasksInStage
<1>2. tasks \ {t} = {Kept(u, {}, TRUE) : u \in tasks \ {t}}
    BY <1>1, CarriedForms
<1> QED BY <1>2 DEF Carries

(***************************************************************************)
(* Fetches and status requests.                                            *)
(***************************************************************************)
LEMMA ReaderMove ==
    ASSUME OfflineInv, NEW t \in tasks, t.kind \in {"fetch", "status"},
           NEW calm, NEW new, Carries(tasks \ {t}, {}, calm, new), CacheTypes', Calm,
           Reads \/ Writes(t),
           UNCHANGED <<index, requests>>,
           \A v \in new :
                /\ v \in Tasks /\ Stage(v) /\ KnowsItsCache(v, store')
                /\ v.id = t.id /\ v.kind = t.kind /\ v.alone = t.alone
                /\ v.at \in {"record", "has", "open"} /\ v.gen \in Generations =>
                        Seen(v.gen, tasks, index, active)
                /\ v.alone => KnowsItAll(v, store', index', active')
                /\ Writes(v) => Writes(t) \/ ~calm,
           \A v, w \in new : v = w,
           \A w \in Workers :
                \/ active'[w] \in {active[w], Null}
                \/ /\ active'[w] \in Generations /\ Seen(active'[w], tasks, index, active)
                   /\ ~Bare(store[active'[w]]) /\ store[active'[w]].record,
           TellsTheTruth'
    PROVE  OfflineInv' /\ GoodKept
<1>1. CacheTypes /\ Shape /\ AloneKnowsAll /\ OneIsStocked /\ LeftoversForgotten
    BY DEF OfflineInv
<1>2. Carries(tasks \ {t}, {}, calm, new) /\ calm \in BOOLEAN
    BY DEF Carries
<1>3. RecordsEarned
    BY DEF RecordsEarned, Calm
<1>4. Shape'
  <2>1. requests \in Nat /\ requests' = requests
      BY <1>1, BoundsAssumption DEF CacheTypes
  <2>2. \A v \in new :
            /\ v \in Tasks /\ Stage(v) /\ KnowsItsCache(v, store')
            /\ v.id = t.id /\ v.kind = t.kind /\ (v.alone => t.alone)
            /\ Writes(v) => Writes(t) \/ ~calm
            /\ t.kind = "remove" /\ t.at = "page_sweep" => v.at = "page_sweep"
      OBVIOUS
  <2> QED BY <1>1, <1>2, <1>3, <2>1, <2>2, MoveShape
<1>5. AloneKnowsAll'
  <2>1. ASSUME NEW u \in tasks \ {t}, u.alone, u.kind = "status", u.at \in {"has", "open"}
        PROVE  active'[u.by] \in {active[u.by], Null, u.gen} \/ Bare(store[u.gen])
    <3>1. u \in Tasks /\ Stage(u) /\ ~Writes(u)
        BY <1>1, <2>1 DEF Shape, TasksInStage, Writes
    <3>2. u.by \in Workers /\ u.gen \in Generations
        BY <2>1, <3>1 DEF Tasks, Stage
    <3>3. Seen(u.gen, tasks, index, active)
        BY <2>1 DEF Seen
    <3>4. \A x \in tasks : ~Writes(x)
        BY <1>1, <2>1, <3>1, NobodyWrites
    <3>5. CASE active'[u.by] \in {active[u.by], Null}
        BY <3>5
    <3>6. CASE /\ active'[u.by] \in Generations /\ Seen(active'[u.by], tasks, index, active)
               /\ ~Bare(store[active'[u.by]])
        BY <1>1, <3>2, <3>3, <3>4, <3>6, OneStockedUnwritten
    <3> QED BY <3>2, <3>5, <3>6
  <2>2. \A u \in tasks \ {t} : u.alone /\ calm /\ u.kind = "status" /\ u.at \in {"has", "open"} =>
            active'[u.by] \in {active[u.by], Null, u.gen} \/ Bare(store[u.gen])
      BY <2>1
  <2>3. CASE Writes(t)
      BY <1>1, <1>2, <2>3, WriterKnows
  <2>4. CASE Reads
    <3>1. Untouched
        BY <2>4 DEF Reads
    <3> QED BY <1>1, <1>2, <2>2, <3>1, ReaderKnows
  <2> QED BY <2>3, <2>4
<1>6. OneIsStocked' /\ LeftoversForgotten'
  <2>1. \A s \in tasks \ (tasks \ {t}) : s.kind # "prepare"
      OBVIOUS
  <2>2. \A v \in new :
            /\ v.kind # "prepare"
            /\ v.at \in {"record", "has", "open"} /\ v.gen \in Generations =>
                    Seen(v.gen, tasks, index, active)
      OBVIOUS
  <2>3. ASSUME NEW w \in Workers, active'[w] \in Generations
        PROVE  /\ Seen(active'[w], tasks, index, active)
               /\ active'[w] = active[w] \/ ~Leftover(store'[active'[w]])
    <3>1. active'[w] # Null
        BY <2>3, ManifestAssumption
    <3>2. CASE active'[w] = active[w]
        BY <3>2 DEF Seen
    <3>3. CASE active'[w] # active[w]
      <4>1. /\ Seen(active'[w], tasks, index, active)
            /\ ~Bare(store[active'[w]]) /\ store[active'[w]].record
          BY <3>1, <3>3
      <4>2. Grows(store[active'[w]], store'[active'[w]])
          BY <1>2, <2>3 DEF Carries
      <4>3. store'[active'[w]].record
          BY <4>1, <4>2 DEF Grows, Bare
      <4> QED BY <4>1, <4>3 DEF Leftover
    <3> QED BY <3>2, <3>3
  <2>4. \A g \in Generations :
            /\ Bare(store[g]) => Bare(store'[g])
            /\ Leftover(store'[g]) => Leftover(store[g])
      BY DEF Calm
  <2> QED BY <1>1, <1>2, <2>1, <2>2, <2>3, <2>4, OtherWork
<1>7. GoodKept
  <2>1. CASE Writes(t)
      BY <2>1, GoodBesides
  <2>2. CASE Reads
      BY <1>1, <1>2, <2>2, GoodCarried DEF Reads
  <2> QED BY <2>1, <2>2
<1> QED BY <1>4, <1>5, <1>6, <1>7 DEF OfflineInv

LEMMA StoreUnchanged ==
    ASSUME UNCHANGED store
    PROVE  Reads /\ Calm /\ \A g \in Generations : Grows(store[g], store'[g]) /\ Lasts(store[g], store'[g])
BY DEF Reads, Calm, Untouched, Grows, Lasts

\* Opening a cache by name changes nothing that was stored.
LEMMA StoreOpened ==
    ASSUME CacheTypes, NEW g \in Generations, store' = WithCache(g)
    PROVE  Reads /\ Calm /\ \A h \in Generations : Grows(store[h], store'[h])
<1>1. \A h \in Generations : store'[h] = store[h] \/ (store[h] = Null /\ store'[h] = EmptyCache)
    BY WithCall
<1> QED BY <1>1, EmptyIsCache DEF Reads, Calm, Untouched, Grows, Lasts, Bare, Leftover

\* Carrying a reader on by a step that reads only.
LEMMA ReaderSteps ==
    ASSUME OfflineInv, NEW t \in tasks, t.kind \in {"fetch", "status"},
           NEW new, tasks' = (tasks \ {t}) \cup new, CacheTypes', Reads,
           UNCHANGED <<index, requests>>,
           \A v \in new :
                /\ v \in Tasks /\ Stage(v) /\ KnowsItsCache(v, store')
                /\ v.id = t.id /\ v.kind = t.kind /\ v.alone = t.alone
                /\ v.at \in {"record", "has", "open"} /\ v.gen \in Generations =>
                        Seen(v.gen, tasks, index, active)
                /\ v.alone => KnowsItAll(v, store', index', active')
                /\ ~Writes(v),
           \A v, w \in new : v = w,
           \A w \in Workers :
                \/ active'[w] \in {active[w], Null}
                \/ /\ active'[w] \in Generations /\ Seen(active'[w], tasks, index, active)
                   /\ ~Bare(store[active'[w]]) /\ store[active'[w]].record,
           TellsTheTruth'
    PROVE  OfflineInv' /\ GoodKept
<1>1. Carries(tasks \ {t}, {}, TRUE, new)
    BY Moved DEF OfflineInv, Reads
<1>2. Calm
    BY DEF Reads
<1>3. \A v \in new :
        /\ v \in Tasks /\ Stage(v) /\ KnowsItsCache(v, store')
        /\ v.id = t.id /\ v.kind = t.kind /\ v.alone = t.alone
        /\ v.at \in {"record", "has", "open"} /\ v.gen \in Generations =>
                Seen(v.gen, tasks, index, active)
        /\ v.alone => KnowsItAll(v, store', index', active')
        /\ Writes(v) => Writes(t) \/ ~TRUE
    OBVIOUS
<1> QED BY <1>1, <1>2, <1>3, ReaderMove

LEMMA LoadsIndexFields ==
    ASSUME CacheTypes, NEW t \in Tasks, Stage(t), t.kind \in {"fetch", "status", "activate"},
           NEW v, v = [t EXCEPT !.at = "record", !.gen = index]
    PROVE  /\ v \in Tasks /\ Stage(v) /\ v.at = "record" /\ v.gen = index
           /\ v.id = t.id /\ v.kind = t.kind /\ v.alone = t.alone
<1>1. index \in Generations \cup {Null}
    BY DEF CacheTypes
<1>2. /\ v \in Tasks /\ v.at = "record" /\ v.gen = index
      /\ v.id = t.id /\ v.kind = t.kind /\ v.alone = t.alone /\ v.path = t.path
    BY <1>1, Zenon DEF Tasks, Places
<1>3. Stage(v)
    BY <1>2 DEF Stage
<1> QED BY <1>2, <1>3

LEMMA ReaderLoadsIndex ==
    ASSUME OfflineInv, NEW t \in tasks, t.kind \in {"fetch", "status"}, LoadsIndex(t)
    PROVE  OfflineInv' /\ GoodKept
<1> DEFINE v == [t EXCEPT !.at = "record", !.gen = index]
           new == {v}
<1>1. /\ CacheTypes /\ t \in Tasks /\ Stage(t)
      /\ tasks' = (tasks \ {t}) \cup {v} /\ UNCHANGED <<store, index, worker, active, requests, told>>
    BY DEF OfflineInv, Shape, TasksInStage, LoadsIndex, Moves
<1>2. /\ v \in Tasks /\ Stage(v) /\ v.at = "record" /\ v.gen = index
      /\ v.id = t.id /\ v.kind = t.kind /\ v.alone = t.alone
    BY <1>1, LoadsIndexFields
<1> HIDE DEF v
<1>3. KnowsItsCache(v, store') /\ KnowsItAll(v, store', index', active')
    BY <1>2 DEF KnowsItsCache, KnowsItAll
<1>4. Seen(v.gen, tasks, index, active)
    BY <1>2 DEF Seen
<1>5. CacheTypes'
    BY <1>1 DEF CacheTypes
<1>6. TellsTheTruth'
    BY <1>1 DEF OfflineInv, TellsTheTruth
<1>7. Reads
    BY <1>1, StoreUnchanged
<1>8. \A w \in Workers :
        \/ active'[w] \in {active[w], Null}
        \/ /\ active'[w] \in Generations /\ Seen(active'[w], tasks, index, active)
           /\ ~Bare(store[active'[w]]) /\ store[active'[w]].record
    BY <1>1
<1>9. \A x \in new :
        /\ x \in Tasks /\ Stage(x) /\ KnowsItsCache(x, store')
        /\ x.id = t.id /\ x.kind = t.kind /\ x.alone = t.alone
        /\ x.at \in {"record", "has", "open"} /\ x.gen \in Generations =>
                Seen(x.gen, tasks, index, active)
        /\ x.alone => KnowsItAll(x, store', index', active')
        /\ ~Writes(x)
    BY <1>2, <1>3, <1>4 DEF Writes
<1>10. \A x, y \in new : x = y
    OBVIOUS
<1>11. tasks' = (tasks \ {t}) \cup new /\ UNCHANGED <<index, requests>>
    BY <1>1
<1> HIDE DEF new
<1> QED BY <1>5, <1>6, <1>7, <1>8, <1>9, <1>10, <1>11, ReaderSteps

LEMMA ReaderLoadsRecord ==
    ASSUME OfflineInv, NEW t \in tasks, t.kind \in {"fetch", "status"}, LoadsRecord(t)
    PROVE  OfflineInv' /\ GoodKept
<1> DEFINE g == IF Loadable(t.gen) THEN t.gen ELSE Null
<1>1. /\ CacheTypes /\ t \in Tasks /\ Stage(t) /\ t.at = "record"
      /\ active' = [active EXCEPT ![t.by] = g]
      /\ tasks' = (tasks \ {t}) \cup Resumed(t, g)
      /\ UNCHANGED <<store, index, worker, requests, told>>
    BY DEF OfflineInv, Shape, TasksInStage, LoadsRecord
<1>2. t.by \in Workers /\ t.gen \in Generations \cup {Null}
    BY <1>1 DEF Tasks
<1>3. /\ g \in Generations \cup {Null}
      /\ g # Null => g = t.gen /\ g \in Generations /\ store[g] # Null /\ store[g].record
    BY <1>2 DEF Loadable
<1> HIDE DEF g
<1>4. active' \in [Workers -> Generations \cup {Null}] /\ active'[t.by] = g
      /\ \A w \in Workers \ {t.by} : active'[w] = active[w]
    BY <1>1, <1>2, <1>3 DEF CacheTypes
<1>5. g # Null => Seen(g, tasks, index, active) /\ ~Bare(store[g])
    BY <1>1, <1>3, EmptyIsCache DEF Seen, Bare
<1>6. \A w \in Workers :
        \/ active'[w] \in {active[w], Null}
        \/ /\ active'[w] \in Generations /\ Seen(active'[w], tasks, index, active)
           /\ ~Bare(store[active'[w]]) /\ store[active'[w]].record
    BY <1>3, <1>4, <1>5
<1>7. ASSUME NEW v \in Resumed(t, g)
      PROVE  /\ v \in Tasks /\ Stage(v) /\ KnowsItsCache(v, store')
             /\ v.id = t.id /\ v.kind = t.kind /\ v.alone = t.alone
             /\ v.at \in {"record", "has", "open"} /\ v.gen \in Generations =>
                     Seen(v.gen, tasks, index, active)
             /\ v.alone => KnowsItAll(v, store', index', active')
             /\ ~Writes(v)
  <2>1. g # Null /\ v = [t EXCEPT !.at = "has", !.linked = TRUE]
      BY <1>7, ManifestAssumption DEF Resumed
  <2>2. /\ v \in Tasks /\ v.at = "has" /\ v.by = t.by /\ v.gen = t.gen
        /\ v.id = t.id /\ v.kind = t.kind /\ v.alone = t.alone /\ v.path = t.path
      BY <1>1, <2>1, Zenon DEF Tasks, Places
  <2>3. Stage(v)
      BY <1>1, <1>3, <2>1, <2>2 DEF Stage
  <2>4. KnowsItsCache(v, store')
      BY <2>2 DEF KnowsItsCache
  <2>5. Seen(v.gen, tasks, index, active)
      BY <1>3, <1>5, <2>1, <2>2
  <2>6. KnowsItAll(v, store', index', active')
      BY <1>3, <1>4, <2>1, <2>2 DEF KnowsItAll
  <2>7. ~Writes(v)
      BY <2>2 DEF Writes
  <2> QED BY <2>2, <2>3, <2>4, <2>5, <2>6, <2>7
<1>8. \A v, w \in Resumed(t, g) : v = w
    BY DEF Resumed
<1>9. CacheTypes'
    BY <1>1, <1>4 DEF CacheTypes
<1>10. TellsTheTruth'
    BY <1>1 DEF OfflineInv, TellsTheTruth
<1>11. Reads
    BY <1>1, StoreUnchanged
<1> QED BY <1>1, <1>6, <1>7, <1>8, <1>9, <1>10, <1>11, ReaderSteps

LEMMA HasKeeps ==
    ASSUME OfflineInv, NEW t \in tasks, Has(t)
    PROVE  OfflineInv' /\ GoodKept
<1> DEFINE v == [t EXCEPT !.at = "open"]
           new == IF store[t.gen] = Null THEN {} ELSE {v}
<1>1. /\ CacheTypes /\ t \in Tasks /\ Stage(t) /\ t.at = "has" /\ AloneKnowsAll
      /\ tasks' = (tasks \ {t}) \cup new
      /\ \/ active' = [active EXCEPT ![t.by] = Null]
         \/ active' = active
      /\ store[t.gen] # Null => active' = active
      /\ UNCHANGED <<store, index, worker, requests, told>>
    BY DEF OfflineInv, Shape, TasksInStage, Has, Moves, Ends
<1>2. t.kind \in {"fetch", "status"} /\ t.by \in Workers /\ t.gen \in Generations
    BY <1>1 DEF Tasks, Kinds, Stage
<1>3. /\ v \in Tasks /\ v.at = "open" /\ v.by = t.by /\ v.gen = t.gen
      /\ v.id = t.id /\ v.kind = t.kind /\ v.alone = t.alone /\ v.path = t.path
    BY <1>1, Zenon DEF Tasks, Places
<1> HIDE DEF v
<1>4. Stage(v)
    BY <1>1, <1>2, <1>3 DEF Stage
<1>5. KnowsItsCache(v, store')
    BY <1>2, <1>3 DEF KnowsItsCache
<1>6. Seen(v.gen, tasks, index, active)
    BY <1>1, <1>3 DEF Seen
<1>7. v \in new /\ v.alone => KnowsItAll(v, store', index', active')
  <2>1. v \in new => store[t.gen] # Null
      OBVIOUS
  <2>2. t.alone => KnowsItAll(t, store, index, active)
      BY <1>1 DEF AloneKnowsAll
  <2> QED BY <1>1, <1>2, <1>3, <2>1, <2>2 DEF KnowsItAll
<1>8. active' \in [Workers -> Generations \cup {Null}]
      /\ \A w \in Workers : active'[w] \in {active[w], Null}
    BY <1>1, <1>2 DEF CacheTypes
<1>9. CacheTypes'
    BY <1>1, <1>8 DEF CacheTypes
<1>10. TellsTheTruth'
    BY <1>1 DEF OfflineInv, TellsTheTruth
<1>11. Reads
    BY <1>1, StoreUnchanged
<1>12. /\ \A x \in new : x = v
       /\ \A x, y \in new : x = y
    OBVIOUS
<1>13. \A x \in new :
        /\ x \in Tasks /\ Stage(x) /\ KnowsItsCache(x, store')
        /\ x.id = t.id /\ x.kind = t.kind /\ x.alone = t.alone
        /\ x.at \in {"record", "has", "open"} /\ x.gen \in Generations =>
                Seen(x.gen, tasks, index, active)
        /\ x.alone => KnowsItAll(x, store', index', active')
        /\ ~Writes(x)
    BY <1>2, <1>3, <1>4, <1>5, <1>6, <1>7, <1>12 DEF Writes
<1> HIDE DEF new
<1> QED BY <1>1, <1>2, <1>8, <1>9, <1>10, <1>11, <1>12, <1>13, ReaderSteps

\* Carrying the other tasks on, crowded or not.
LEMMA OthersCarried ==
    ASSUME Shape, NEW t \in tasks, NEW calm \in BOOLEAN, NEW new,
           tasks' = (IF calm THEN tasks \ {t} ELSE Crowd(tasks \ {t})) \cup new,
           \A g \in Generations : Grows(store[g], store'[g])
    PROVE  Carries(tasks \ {t}, {}, calm, new)
<1>1. tasks \ {t} \in SUBSET Tasks
    BY DEF Shape, TasksInStage
<1>2. /\ tasks \ {t} = {Kept(u, {}, TRUE) : u \in tasks \ {t}}
      /\ Crowd(tasks \ {t}) = {Kept(u, {}, FALSE) : u \in tasks \ {t}}
    BY <1>1, CarriedForms
<1>3. CASE calm
  <2>1. calm = TRUE /\ tasks' = (tasks \ {t}) \cup new
      BY <1>3
  <2>2. tasks' = {Kept(u, {}, calm) : u \in tasks \ {t}} \cup new
      BY <1>2, <2>1
  <2> QED BY <2>2 DEF Carries
<1>4. CASE ~calm
  <2>1. calm = FALSE /\ tasks' = Crowd(tasks \ {t}) \cup new
      BY <1>4
  <2>2. tasks' = {Kept(u, {}, calm) : u \in tasks \ {t}} \cup new
      BY <1>2, <2>1
  <2> QED BY <2>2 DEF Carries
<1> QED BY <1>3, <1>4

LEMMA MatchesKeeps ==
    ASSUME OfflineInv, NEW t \in tasks, Matches(t)
    PROVE  OfflineInv' /\ GoodKept
<1> DEFINE body == store'[t.gen].held[t.path]
           v == [t EXCEPT !.at = "verify", !.failed = body = "bad", !.linked = TRUE]
           new == IF body \in {"good", "bad"} THEN {v} ELSE {}
           calm == body # "bad"
<1>1. /\ CacheTypes /\ t \in Tasks /\ Stage(t) /\ t.at = "open" /\ t.kind = "fetch"
      /\ store' = WithCache(t.gen)
      /\ tasks' = (IF calm THEN tasks \ {t} ELSE Crowd(tasks \ {t})) \cup new
      /\ UNCHANGED <<index, worker, active, requests, told>>
  <2>1. /\ \/ body \in {"absent", "evicted"} /\ tasks' = tasks \ {t}
           \/ body = "good" /\ tasks' = (tasks \ {t}) \cup {v}
           \/ body = "bad" /\ tasks' = Crowd(tasks \ {t}) \cup {v}
        /\ t.at = "open" /\ t.kind = "fetch" /\ store' = WithCache(t.gen)
        /\ UNCHANGED <<index, worker, active, requests, told>>
      BY DEF Matches, Moves, Ends
  <2> HIDE DEF body, v
  <2>2. tasks' = (IF calm THEN tasks \ {t} ELSE Crowd(tasks \ {t})) \cup new
      BY <2>1
  <2> QED BY <2>1, <2>2 DEF OfflineInv, Shape, TasksInStage
<1>2. t.gen \in Generations /\ t.path \in Paths
    BY <1>1 DEF Stage
<1>3. /\ v \in Tasks /\ v.at = "verify" /\ v.gen = t.gen
      /\ v.failed <=> body = "bad"
      /\ v.id = t.id /\ v.kind = t.kind /\ v.alone = t.alone /\ v.path = t.path
  <2> DEFINE bad == body = "bad"
  <2>1. bad \in BOOLEAN
      OBVIOUS
  <2> HIDE DEF bad
  <2>2. v = [t EXCEPT !.at = "verify", !.failed = bad, !.linked = TRUE]
      BY DEF bad
  <2> HIDE DEF v
  <2>3. /\ v \in Tasks /\ v.at = "verify" /\ v.gen = t.gen /\ v.failed = bad
        /\ v.id = t.id /\ v.kind = t.kind /\ v.alone = t.alone /\ v.path = t.path
      BY <1>1, <2>1, <2>2, Zenon DEF Tasks, Places
  <2> QED BY <2>3 DEF bad
<1>4. Stage(v)
    BY <1>1, <1>2, <1>3 DEF Stage
<1>5. body \in {"good", "bad"} => KnowsItsCache(v, store')
    BY <1>1, <1>2, <1>3, WithCall DEF KnowsItsCache
<1>6. KnowsItAll(v, store', index', active')
    BY <1>1, <1>3 DEF KnowsItAll
<1>7. CacheTypes'
    BY <1>1, <1>2, WithCall DEF CacheTypes
<1>8. TellsTheTruth'
    BY <1>1 DEF OfflineInv, TellsTheTruth
<1>9. Reads
    BY <1>1, <1>2, StoreOpened
<1>10. \A w \in Workers :
        \/ active'[w] \in {active[w], Null}
        \/ /\ active'[w] \in Generations /\ Seen(active'[w], tasks, index, active)
           /\ ~Bare(store[active'[w]]) /\ store[active'[w]].record
    BY <1>1
<1> HIDE DEF body, v
<1>16. /\ \A x \in new : x = v /\ body \in {"good", "bad"}
       /\ body = "bad" => ~calm
    OBVIOUS
<1>17. Writes(v) => ~calm
  <2>1. Writes(v) => v.failed
      BY <1>1, <1>3 DEF Writes
  <2>2. v.failed => body = "bad"
      BY <1>3
  <2>3. body = "bad" => ~calm
      BY <1>16
  <2> QED BY <2>1, <2>2, <2>3
<1> HIDE DEF new, calm
<1>11. \A x \in new :
        /\ x \in Tasks /\ Stage(x) /\ KnowsItsCache(x, store')
        /\ x.id = t.id /\ x.kind = t.kind /\ x.alone = t.alone
        /\ x.at \in {"record", "has", "open"} /\ x.gen \in Generations =>
                Seen(x.gen, tasks, index, active)
        /\ x.alone => KnowsItAll(x, store', index', active')
        /\ Writes(x) => Writes(t) \/ ~calm
  <2> SUFFICES ASSUME NEW x \in new, x = v, body \in {"good", "bad"}
               PROVE  /\ v \in Tasks /\ Stage(v) /\ KnowsItsCache(v, store')
                      /\ v.id = t.id /\ v.kind = t.kind /\ v.alone = t.alone
                      /\ v.at \in {"record", "has", "open"} /\ v.gen \in Generations =>
                              Seen(v.gen, tasks, index, active)
                      /\ v.alone => KnowsItAll(v, store', index', active')
                      /\ Writes(v) => Writes(t) \/ ~calm
      BY <1>16
  <2>1. /\ v \in Tasks /\ Stage(v) /\ KnowsItsCache(v, store')
        /\ v.id = t.id /\ v.kind = t.kind /\ v.alone = t.alone
      BY <1>3, <1>4, <1>5
  <2>2. v.at \notin {"record", "has", "open"}
      BY <1>3
  <2> QED BY <1>6, <1>17, <2>1, <2>2
<1>12. \A x, y \in new : x = y
    BY <1>16
<1>13. calm \in BOOLEAN
    BY DEF calm
<1>14. Calm /\ UNCHANGED <<index, requests>> /\ t.kind \in {"fetch", "status"}
    BY <1>1, <1>9 DEF Reads
<1>15. Carries(tasks \ {t}, {}, calm, new)
  <2>1. Shape /\ \A g \in Generations : Grows(store[g], store'[g])
      BY <1>9 DEF OfflineInv, Reads
  <2> QED BY <1>1, <1>13, <2>1, OthersCarried
<1> QED BY <1>7, <1>8, <1>9, <1>10, <1>11, <1>12, <1>14, <1>15, ReaderMove

\* A task that ends without a successor.
LEMMA ReaderEnds ==
    ASSUME OfflineInv, NEW t \in tasks, t.kind \in {"fetch", "status"},
           tasks' = tasks \ {t}, CacheTypes', Calm,
           \A g \in Generations : Grows(store[g], store'[g]),
           Reads \/ Writes(t),
           UNCHANGED <<index, active, requests>>,
           TellsTheTruth'
    PROVE  OfflineInv' /\ GoodKept
<1> DEFINE new == {}
<1>1. Carries(tasks \ {t}, {}, TRUE, new) /\ \A x, y \in new : x = y
    BY Moved DEF OfflineInv
<1>2. \A x \in new :
        /\ x \in Tasks /\ Stage(x) /\ KnowsItsCache(x, store')
        /\ x.id = t.id /\ x.kind = t.kind /\ x.alone = t.alone
        /\ x.at \in {"record", "has", "open"} /\ x.gen \in Generations =>
                Seen(x.gen, tasks, index, active)
        /\ x.alone => KnowsItAll(x, store', index', active')
        /\ Writes(x) => Writes(t) \/ ~TRUE
    OBVIOUS
<1>3. \A w \in Workers :
        \/ active'[w] \in {active[w], Null}
        \/ /\ active'[w] \in Generations /\ Seen(active'[w], tasks, index, active)
           /\ ~Bare(store[active'[w]]) /\ store[active'[w]].record
    OBVIOUS
<1> HIDE DEF new
<1> QED BY <1>1, <1>2, <1>3, ReaderMove

LEMMA VerifiesKeeps ==
    ASSUME OfflineInv, NEW t \in tasks, Verifies(t)
    PROVE  OfflineInv' /\ GoodKept
<1>1. /\ CacheTypes /\ t \in Tasks /\ Stage(t) /\ t.at = "verify" /\ KnowsItsCache(t, store)
      /\ tasks' = tasks \ {t} /\ UNCHANGED <<index, worker, active, requests, told>>
      /\ TellsTheTruth'
    BY DEF TellsTheTruth, OfflineInv, Shape, TasksInStage, CachesAsOpened, Verifies, Ends
<1>2. t.gen \in Generations /\ t.path \in Paths /\ t.kind = "fetch"
    BY <1>1 DEF Stage, Tasks, Kinds
<1>3. CASE t.failed
  <2>1. store' = Put(t, t.path, "evicted") /\ Writes(t)
      BY <1>1, <1>3 DEF Verifies, Writes
  <2>3. CASE t.linked
    <3>1. /\ store' = [store EXCEPT ![t.gen].held[t.path] = "evicted"]
          /\ store[t.gen] # Null /\ store[t.gen].held[t.path] # "absent"
        BY <1>1, <2>1, <2>3 DEF Put, KnowsItsCache
    <3>2. /\ store' \in [Generations -> Contents \cup {Null}]
          /\ store'[t.gen] # Null /\ store'[t.gen].record = store[t.gen].record
          /\ store'[t.gen].held[t.path] = "evicted"
          /\ \A q \in Paths \ {t.path} : store'[t.gen].held[q] = store[t.gen].held[q]
          /\ \A h \in Generations \ {t.gen} : store'[h] = store[h]
      <4>1. "evicted" \in Entries
          BY DEF Entries
      <4>2. PutIn(store', t.gen, t.path, "evicted")
          BY <1>1, <1>2, <3>1, <4>1, PutCall
      <4> QED BY <4>2 DEF PutIn
    <3>3. ~Bare(store[t.gen]) /\ ~Bare(store'[t.gen])
        BY <1>2, <3>1, <3>2, NotBare
    <3>4. Calm
        BY <1>2, <3>2, <3>3 DEF Calm, Leftover, Bare
    <3>5. \A g \in Generations : Grows(store[g], store'[g])
        BY <1>2, <3>1, <3>2 DEF Grows
    <3>6. CacheTypes'
        BY <1>1, <2>1, <3>2 DEF CacheTypes
    <3> QED BY <1>1, <1>2, <2>1, <3>4, <3>5, <3>6, ReaderEnds
  <2>4. CASE ~t.linked
    <3>1. store' = store
        BY <2>1, <2>4 DEF Put
    <3>2. CacheTypes' /\ Reads
        BY <1>1, <3>1, StoreUnchanged DEF CacheTypes
    <3> QED BY <1>1, <1>2, <3>2, ReaderEnds DEF Reads
  <2> QED BY <2>3, <2>4
<1>4. CASE ~t.failed
  <2>1. store' = store
      BY <1>4 DEF Verifies
  <2>2. CacheTypes' /\ Reads
      BY <1>1, <2>1, StoreUnchanged DEF CacheTypes
  <2> QED BY <1>1, <1>2, <2>2, ReaderEnds DEF Reads
<1> QED BY <1>3, <1>4

LEMMA ReadsKeysKeeps ==
    ASSUME OfflineInv, NEW t \in tasks, ReadsKeys(t)
    PROVE  OfflineInv' /\ GoodKept
<1> DEFINE g == active[t.by]
           keys == {p \in Paths : store'[t.gen].held[p] \in {"good", "bad"}}
           said == told'
<1>1. /\ CacheTypes /\ Shape /\ LeftoversForgotten
      /\ t \in Tasks /\ Stage(t) /\ t.at = "open" /\ t.kind = "status"
      /\ tasks' = tasks \ {t} /\ UNCHANGED <<index, worker, active, requests>>
      /\ store' = WithCache(t.gen)
      /\ told' = IF g # Null /\ PathsOf[g] \subseteq keys
                 THEN [what |-> "ready", alone |-> t.alone, so |-> Complete(g)]
                 ELSE [what |-> "not_ready"]
      /\ t.alone => KnowsItAll(t, store, index, active)
    BY DEF OfflineInv, Shape, TasksInStage, AloneKnowsAll, ReadsKeys, Ends
<1>2. t.gen \in Generations /\ t.by \in Workers /\ g \in Generations \cup {Null} /\ t.alone \in BOOLEAN
    BY <1>1 DEF Stage, Tasks, CacheTypes
<1>3. ASSUME g # Null, PathsOf[g] \subseteq keys, t.alone
      PROVE  Complete(g)
  <2>1. g \in Generations /\ PathsOf[g] # {} /\ PathsOf[g] \subseteq Paths
      BY <1>2, <1>3, ManifestAssumption
  <2>2. store[t.gen] # Null /\ store'[t.gen] = store[t.gen]
    <3>1. PICK p \in PathsOf[g] : p \in Paths /\ store'[t.gen].held[p] \in {"good", "bad"}
        BY <1>3, <2>1
    <3>2. store[t.gen] # Null
        BY <1>1, <1>2, <3>1, WithCall, EmptyIsCache
    <3> QED BY <1>1, <1>2, <3>2, WithCall
  <2>3. \A p \in PathsOf[g] : p \in Paths /\ store[t.gen].held[p] \in {"good", "bad"}
      BY <1>3, <2>2
  <2>4. ~Bare(store[t.gen])
      BY <2>1, <2>2, <2>3, NotBare
  <2>5. g = t.gen
      BY <1>1, <1>3, <2>4 DEF KnowsItAll
  <2>6. store[g].record
    <3>1. ~Writes(t)
        BY <1>1 DEF Writes
    <3>2. \A x \in tasks : ~Writes(x)
        BY <1>1, <1>3, <3>1, NobodyWrites
    <3>3. ~Fetching(g, tasks)
        BY <3>2 DEF Fetching, Writes
    <3>4. ~Forgotten(g, tasks, active)
        BY <1>2 DEF Forgotten
    <3> QED BY <1>1, <2>1, <2>4, <2>5, <3>3, <3>4 DEF LeftoversForgotten
  <2> QED BY <1>3, <2>2, <2>3, <2>5, <2>6 DEF Complete, Stored
<1>4. told' \in Told /\ TellsTheTruth'
  <2>1. CASE g # Null /\ PathsOf[g] \subseteq keys
    <3>1. told' = [what |-> "ready", alone |-> t.alone, so |-> Complete(g)]
        BY <1>1, <2>1
    <3>2. Complete(g) \in BOOLEAN
        BY DEF Complete, Stored
    <3>3. /\ told' \in [what : {"prepared", "removed", "ready"}, alone : BOOLEAN, so : BOOLEAN]
          /\ told'.what = "ready" /\ told'.alone = t.alone /\ (t.alone => told'.so)
        BY <1>2, <1>3, <2>1, <3>1, <3>2
    <3> QED BY <3>3 DEF Told, TellsTheTruth
  <2>2. CASE ~(g # Null /\ PathsOf[g] \subseteq keys)
    <3>1. told' = [what |-> "not_ready"]
        BY <1>1, <2>2
    <3> QED BY <3>1 DEF Told, TellsTheTruth
  <2> QED BY <2>1, <2>2
<1>5. CacheTypes'
    BY <1>1, <1>2, <1>4, WithCall DEF CacheTypes
<1>6. Reads
    BY <1>1, <1>2, StoreOpened
<1> QED BY <1>1, <1>4, <1>5, <1>6, ReaderEnds DEF Reads

(***************************************************************************)
(* Requests that begin.                                                    *)
(***************************************************************************)
LEMMA Begun ==
    ASSUME CacheTypes, Shape, NEW b \in Tasks, Begin(b), b.id = requests,
           \A g \in Generations : Grows(store[g], store'[g])
    PROVE  \E v \in Tasks :
            /\ Carries(tasks, {}, ~Writes(b), {v})
            /\ v.id = requests /\ v.by = b.by /\ v.kind = b.kind /\ v.at = b.at /\ v.gen = b.gen
            /\ v.path = b.path /\ v.left = b.left /\ v.failed = b.failed /\ v.linked = b.linked
            /\ Writes(v) <=> Writes(b)
            /\ v.alone => \A u \in tasks : ~Writes(u)
            /\ requests \in Nat /\ requests' = requests + 1 /\ requests' \in 0..MaxRequests
<1> DEFINE others == {u \in tasks : Writes(u)}
           a == others = {}
           v == [b EXCEPT !.alone = a]
<1>1. /\ requests < MaxRequests /\ requests' = requests + 1
      /\ tasks' = (IF Writes(b) THEN Crowd(tasks) ELSE tasks) \cup {v}
    BY DEF Begin
<1>2. a \in BOOLEAN /\ (a => \A u \in tasks : ~Writes(u))
    OBVIOUS
<1> HIDE DEF a, others
<1>3. /\ v \in Tasks /\ v.alone = a
      /\ v.id = b.id /\ v.by = b.by /\ v.kind = b.kind /\ v.at = b.at /\ v.gen = b.gen
      /\ v.path = b.path /\ v.left = b.left /\ v.failed = b.failed /\ v.linked = b.linked
    BY <1>2, Zenon DEF Tasks
<1> HIDE DEF v
<1>4. Carries(tasks, {}, ~Writes(b), {v})
  <2>1. tasks \in SUBSET Tasks
      BY DEF Shape, TasksInStage
  <2>2. tasks = {Kept(u, {}, TRUE) : u \in tasks} /\ Crowd(tasks) = {Kept(u, {}, FALSE) : u \in tasks}
      BY <2>1, CarriedForms
  <2>3. CASE Writes(b)
    <3>1. tasks' = {Kept(u, {}, FALSE) : u \in tasks} \cup {v}
        BY <1>1, <2>2, <2>3
    <3>2. (~Writes(b)) = FALSE
        BY <2>3 DEF Writes
    <3> QED BY <3>1, <3>2 DEF Carries
  <2>4. CASE ~Writes(b)
    <3>1. tasks' = {Kept(u, {}, TRUE) : u \in tasks} \cup {v}
        BY <1>1, <2>2, <2>4
    <3>2. (~Writes(b)) = TRUE
        BY <2>4 DEF Writes
    <3> QED BY <3>1, <3>2 DEF Carries
  <2> QED BY <2>3, <2>4
<1>5. Writes(v) <=> Writes(b)
    BY <1>3 DEF Writes
<1>6. requests \in Nat /\ requests' \in 0..MaxRequests
    BY <1>1, BoundsAssumption DEF CacheTypes
<1> QED BY <1>1, <1>2, <1>3, <1>4, <1>5, <1>6

LEMMA BeginMove ==
    ASSUME OfflineInv, NEW b \in Tasks, Begin(b), b.id = requests, b.kind # "prepare",
           Stage(b), b.at # "verify",
           b.at \in {"record", "has", "open"} => Seen(b.gen, tasks, index, active),
           (\A u \in tasks : ~Writes(u)) => KnowsItAll(b, store, index, active),
           UNCHANGED <<store, index, active, told>>, worker' \in Workers
    PROVE  OfflineInv' /\ GoodKept
<1>1. CacheTypes /\ Shape /\ AloneKnowsAll /\ OneIsStocked /\ LeftoversForgotten
    BY DEF OfflineInv
<1>2. Reads /\ Calm /\ Untouched /\ \A g \in Generations : Grows(store[g], store'[g])
    BY StoreUnchanged DEF Reads
<1>3. PICK v \in Tasks :
        /\ Carries(tasks, {}, ~Writes(b), {v})
        /\ v.id = requests /\ v.by = b.by /\ v.kind = b.kind /\ v.at = b.at /\ v.gen = b.gen
        /\ v.path = b.path /\ v.left = b.left /\ v.failed = b.failed /\ v.linked = b.linked
        /\ Writes(v) <=> Writes(b)
        /\ v.alone => \A u \in tasks : ~Writes(u)
        /\ requests \in Nat /\ requests' = requests + 1 /\ requests' \in 0..MaxRequests
    BY <1>1, <1>2, Begun
<1> DEFINE new == {v}
           calm == ~Writes(b)
<1>4. Carries(tasks, {}, calm, new) /\ calm \in BOOLEAN
    BY <1>3 DEF Writes
<1>5. Stage(v) /\ KnowsItsCache(v, store')
    BY <1>3 DEF Stage, KnowsItsCache
<1>6. v.alone => KnowsItAll(v, store', index', active')
    BY <1>3 DEF KnowsItAll
<1>7. Shape'
  <2>1. RecordsEarned
      BY <1>2 DEF RecordsEarned, Calm
  <2> QED BY <1>1, <1>3, <1>5, <2>1, BeginShape
<1>8. \A x \in new :
        /\ x.alone => KnowsItAll(x, store', index', active')
        /\ x.kind # "prepare"
        /\ x.at \in {"record", "has", "open"} => Seen(x.gen, tasks, index, active)
    BY <1>3, <1>6
<1> HIDE DEF new, calm
<1>9. AloneKnowsAll'
  <2>1. \A u \in tasks : u.alone /\ calm /\ u.kind = "status" /\ u.at \in {"has", "open"} =>
            active'[u.by] \in {active[u.by], Null, u.gen} \/ Bare(store[u.gen])
      OBVIOUS
  <2> QED BY <1>1, <1>2, <1>4, <1>8, <2>1, ReaderKnows
<1>10. OneIsStocked' /\ LeftoversForgotten'
  <2>1. \A s \in tasks \ tasks : s.kind # "prepare"
      OBVIOUS
  <2>2. \A w \in Workers : active'[w] \in Generations =>
            /\ Seen(active'[w], tasks, index, active)
            /\ active'[w] = active[w] \/ ~Leftover(store'[active'[w]])
      BY DEF Seen
  <2>3. \A g \in Generations :
            /\ Bare(store[g]) => Bare(store'[g])
            /\ Leftover(store'[g]) => Leftover(store[g])
      OBVIOUS
  <2> QED BY <1>1, <1>4, <1>8, <2>1, <2>2, <2>3, OtherWork
<1>11. CacheTypes'
    BY <1>1, <1>3 DEF CacheTypes
<1>12. TellsTheTruth'
    BY DEF OfflineInv, TellsTheTruth
<1>13. GoodKept
    BY <1>1, <1>4, StoreUnchanged, GoodCarried
<1> QED BY <1>7, <1>9, <1>10, <1>11, <1>12, <1>13 DEF OfflineInv

LEMMA TaskFields ==
    ASSUME CacheTypes, NEW kind \in Kinds, NEW at \in Places, NEW g \in Generations \cup {Null},
           NEW p \in Paths \cup {Null},
           NEW left \in SUBSET (Generations \cup Paths \cup {"index"}), NEW by \in Workers,
           NEW b, b = [id |-> requests, by |-> by, kind |-> kind, at |-> at, gen |-> g, path |-> p,
                       left |-> left, failed |-> FALSE, linked |-> TRUE, alone |-> TRUE]
    PROVE  /\ b \in Tasks /\ b.id = requests /\ b.by = by /\ b.kind = kind /\ b.at = at
           /\ b.gen = g /\ b.path = p /\ b.left = left /\ ~b.failed /\ b.linked
<1>1. requests \in Nat
    BY BoundsAssumption DEF CacheTypes
<1> QED BY <1>1 DEF Tasks

LEMMA ServeBegins ==
    ASSUME OfflineInv, Status \/ \E p \in Paths : Fetch(p)
    PROVE  OfflineInv' /\ GoodKept
<1> DEFINE at == IF active[worker] = Null THEN "load" ELSE "has"
           g == active[worker]
<1>1. CacheTypes /\ worker \in Workers /\ g \in Generations \cup {Null} /\ at \in Places
    BY DEF OfflineInv, CacheTypes, Places
<1>2. at = "has" => g \in Generations /\ Seen(g, tasks, index, active)
    BY <1>1 DEF Seen
<1>3. at \in {"load", "has"} /\ UNCHANGED <<store, index, worker, active, told>>
    BY DEF Status, Fetch
<1> HIDE DEF at
<1>4. CASE Status
  <2> DEFINE b == Task("status", at, g, Null)
  <2>1. Begin(b)
      BY <1>4 DEF Status, at
  <2>2. /\ b \in Tasks /\ b.id = requests /\ b.kind = "status" /\ b.at = at /\ b.by = worker
        /\ b.gen = g /\ b.left = {}
      BY <1>1, TaskFields DEF Task, Kinds
  <2> HIDE DEF b
  <2>3. Stage(b)
      BY <1>2, <1>3, <2>2 DEF Stage
  <2>4. KnowsItAll(b, store, index, active)
      BY <2>2 DEF KnowsItAll
  <2> QED BY <1>1, <1>2, <1>3, <2>1, <2>2, <2>3, <2>4, BeginMove
<1>5. CASE \E p \in Paths : Fetch(p)
  <2>1. PICK p \in Paths : Fetch(p)
      BY <1>5
  <2> DEFINE b == Task("fetch", at, g, p)
  <2>2. Begin(b)
      BY <2>1 DEF Fetch, at
  <2>3. /\ b \in Tasks /\ b.id = requests /\ b.kind = "fetch" /\ b.at = at /\ b.by = worker
        /\ b.gen = g /\ b.left = {} /\ b.path = p
      BY <1>1, TaskFields DEF Task, Kinds
  <2> HIDE DEF b
  <2>4. Stage(b)
      BY <1>2, <1>3, <2>3 DEF Stage
  <2>5. KnowsItAll(b, store, index, active)
      BY <2>3 DEF KnowsItAll
  <2> QED BY <1>1, <1>2, <1>3, <2>2, <2>3, <2>4, <2>5, BeginMove
<1> QED BY <1>4, <1>5

LEMMA NewWorkerKeeps ==
    ASSUME OfflineInv, NewWorker
    PROVE  OfflineInv' /\ GoodKept
<1> DEFINE c == Task("activate", "load", Null, Null)
           b == [c EXCEPT !.by = worker']
<1>1. /\ CacheTypes /\ worker \in Workers /\ worker' = worker + 1 /\ worker' \in Workers
      /\ UNCHANGED <<store, index, active, told>> /\ Begin(b)
    BY BoundsAssumption DEF OfflineInv, CacheTypes, NewWorker, Workers
<1>2. c \in Tasks /\ c.id = requests /\ c.kind = "activate" /\ c.at = "load"
  <2>1. "activate" \in Kinds /\ "load" \in Places
      BY DEF Kinds, Places
  <2> QED BY <1>1, <2>1, TaskFields DEF Task
<1> HIDE DEF c
<1>3. b \in Tasks /\ b.id = requests /\ b.kind = "activate" /\ b.at = "load"
    BY <1>1, <1>2, Zenon DEF Tasks
<1> HIDE DEF b
<1>4. Stage(b)
    BY <1>3 DEF Stage
<1>5. KnowsItAll(b, store, index, active)
    BY <1>3 DEF KnowsItAll
<1> QED BY <1>1, <1>3, <1>4, <1>5, BeginMove

LEMMA RemoveBegins ==
    ASSUME OfflineInv, RemoveCopies
    PROVE  OfflineInv' /\ GoodKept
<1> DEFINE c == Task("remove", "sweep", Null, Null)
           b == [c EXCEPT !.left = OwnedNames]
<1>1. /\ CacheTypes /\ worker \in Workers /\ Begin(b)
      /\ UNCHANGED <<store, index, worker, active, told>>
    BY DEF OfflineInv, CacheTypes, RemoveCopies
<1>2. c \in Tasks /\ c.id = requests /\ c.kind = "remove" /\ c.at = "sweep"
  <2>1. "remove" \in Kinds /\ "sweep" \in Places
      BY DEF Kinds, Places
  <2> QED BY <1>1, <2>1, TaskFields DEF Task
<1>3. OwnedNames \subseteq Generations \cup {"index"}
    BY DEF OwnedNames, Names, Caches
<1> HIDE DEF c
<1>4. b \in Tasks /\ b.id = requests /\ b.kind = "remove" /\ b.at = "sweep" /\ b.left = OwnedNames
  <2>1. OwnedNames \in SUBSET (Generations \cup Paths \cup {"index"})
      BY <1>3
  <2> QED BY <1>2, <2>1, Zenon DEF Tasks
<1> HIDE DEF b
<1>5. Stage(b)
    BY <1>3, <1>4 DEF Stage
<1>6. KnowsItAll(b, store, index, active)
    BY <1>4 DEF KnowsItAll
<1> QED BY <1>1, <1>4, <1>5, <1>6, BeginMove

(***************************************************************************)
(* Removals, and the activation of a newer worker.                         *)
(***************************************************************************)
LEMMA SweeperMove ==
    ASSUME OfflineInv, NEW t \in tasks, t.kind \in {"remove", "late_remove", "activate"},
           NEW lost, NEW new, Carries(tasks \ {t}, lost, TRUE, new), CacheTypes',
           requests' = requests, index' = index \/ index' = Null, RecordsEarned,
           \A g \in Generations :
                /\ Bare(store[g]) => Bare(store'[g])
                /\ Leftover(store'[g]) => Leftover(store[g]),
           \A v \in new :
                /\ v \in Tasks /\ Stage(v)
                /\ v.id = t.id /\ v.kind = t.kind /\ v.alone = t.alone
                /\ t.at = "page_sweep" => v.at = "page_sweep"
                /\ v.at = "record" /\ v.gen \in Generations => Seen(v.gen, tasks, index, active)
                /\ v.alone => KnowsItAll(v, store', index', active'),
           \A v, w \in new : v = w,
           \A w \in Workers :
                \/ active'[w] \in {active[w], Null}
                \/ /\ active'[w] \in Generations /\ Seen(active'[w], tasks, index, active)
                   /\ ~Leftover(store'[active'[w]]),
           TellsTheTruth'
    PROVE  OfflineInv'
<1>1. CacheTypes /\ Shape /\ AloneKnowsAll /\ OneIsStocked /\ LeftoversForgotten /\ Writes(t)
    BY DEF OfflineInv, Writes
<1>2. \A v \in new : v.at \notin {"has", "open", "verify"} /\ KnowsItsCache(v, store')
    BY DEF Stage, KnowsItsCache
<1>3. Shape'
  <2>1. requests \in Nat
      BY <1>1, BoundsAssumption DEF CacheTypes
  <2>2. \A v \in new :
            /\ v \in Tasks /\ Stage(v) /\ KnowsItsCache(v, store')
            /\ v.id = t.id /\ v.kind = t.kind /\ (v.alone => t.alone)
            /\ t.kind = "remove" /\ t.at = "page_sweep" => v.at = "page_sweep"
      BY <1>2
  <2> QED BY <1>1, <2>1, <2>2, MoveShape
<1>4. AloneKnowsAll'
  <2>1. CASE t.kind = "late_remove"
      BY <1>1, <2>1, LateKnows
  <2>2. CASE t.kind # "late_remove"
      BY <1>1, <2>2, WriterKnows
  <2> QED BY <2>1, <2>2
<1>5. OneIsStocked' /\ LeftoversForgotten'
  <2>1. \A s \in tasks \ (tasks \ {t}) : s.kind # "prepare"
      OBVIOUS
  <2>2. \A v \in new :
            /\ v.kind # "prepare"
            /\ v.at \in {"record", "has", "open"} /\ v.gen \in Generations =>
                    Seen(v.gen, tasks, index, active)
      BY <1>2
  <2>3. \A w \in Workers : active'[w] \in Generations =>
            /\ Seen(active'[w], tasks, index, active)
            /\ active'[w] = active[w] \/ ~Leftover(store'[active'[w]])
      BY ManifestAssumption DEF Seen
  <2> QED BY <1>1, <2>1, <2>2, <2>3, OtherWork
<1> QED BY <1>3, <1>4, <1>5 DEF OfflineInv

\* Somebody else writes too, or for longer.
LEMMA RemovalIsNotGood ==
    ASSUME NEW t \in tasks, t.kind \in {"remove", "late_remove"}
    PROVE  GoodKept
BY DEF GoodKept, Writes

LEMMA ActivationLoads ==
    ASSUME OfflineInv, NEW t \in tasks, t.kind = "activate", LoadsIndex(t)
    PROVE  OfflineInv' /\ GoodKept
<1> DEFINE v == [t EXCEPT !.at = "record", !.gen = index]
           new == {v}
<1>1. /\ CacheTypes /\ Shape /\ t \in Tasks /\ Stage(t) /\ t.at = "load"
      /\ tasks' = (tasks \ {t}) \cup new /\ UNCHANGED <<store, index, worker, active, requests, told>>
    BY DEF OfflineInv, Shape, TasksInStage, LoadsIndex, Moves
<1>2. /\ v \in Tasks /\ Stage(v) /\ v.at = "record" /\ v.gen = index
      /\ v.id = t.id /\ v.kind = t.kind /\ v.alone = t.alone
    BY <1>1, LoadsIndexFields
<1> HIDE DEF v
<1>3. KnowsItAll(v, store', index', active')
    BY <1>1, <1>2 DEF KnowsItAll
<1>4. Seen(v.gen, tasks, index, active)
    BY <1>2 DEF Seen
<1>5. \A x \in new :
        /\ x \in Tasks /\ Stage(x)
        /\ x.id = t.id /\ x.kind = t.kind /\ x.alone = t.alone
        /\ t.at = "page_sweep" => x.at = "page_sweep"
        /\ x.at = "record" /\ x.gen \in Generations => Seen(x.gen, tasks, index, active)
        /\ x.alone => KnowsItAll(x, store', index', active')
    BY <1>1, <1>2, <1>3, <1>4
<1>6. \A x, y \in new : x = y
    OBVIOUS
<1> HIDE DEF new
<1>7. Calm /\ Carries(tasks \ {t}, {}, TRUE, new)
    BY <1>1, StoreUnchanged, Moved
<1>8. CacheTypes' /\ TellsTheTruth' /\ RecordsEarned
    BY <1>1 DEF OfflineInv, CacheTypes, TellsTheTruth, RecordsEarned
<1>9. \A w \in Workers :
        \/ active'[w] \in {active[w], Null}
        \/ /\ active'[w] \in Generations /\ Seen(active'[w], tasks, index, active)
           /\ ~Leftover(store'[active'[w]])
    BY <1>1
<1>10. \A g \in Generations :
        /\ Bare(store[g]) => Bare(store'[g])
        /\ Leftover(store'[g]) => Leftover(store[g])
    BY <1>1
<1>11. OfflineInv'
    BY <1>1, <1>5, <1>6, <1>7, <1>8, <1>9, <1>10, SweeperMove
<1>12. GoodKept
    BY <1>1, <1>7, StoreUnchanged, GoodCarried
<1> QED BY <1>11, <1>12

LEMMA ActivationSweeps ==
    ASSUME OfflineInv, NEW t \in tasks, t.kind = "activate", LoadsRecord(t)
    PROVE  OfflineInv' /\ GoodKept
<1> DEFINE g == IF Loadable(t.gen) THEN t.gen ELSE Null
           left == Caches \ {g}
           v == [t EXCEPT !.at = "sweep", !.left = left]
           new == {v}
<1>1. /\ CacheTypes /\ Shape /\ t \in Tasks /\ Stage(t) /\ t.at = "record"
      /\ active' = [active EXCEPT ![t.by] = g]
      /\ tasks' = (tasks \ {t}) \cup new
      /\ UNCHANGED <<store, index, worker, requests, told>>
      /\ t.alone => KnowsItAll(t, store, index, active)
    BY DEF OfflineInv, Shape, TasksInStage, AloneKnowsAll, LoadsRecord, Resumed
<1>2. t.by \in Workers /\ t.gen \in Generations \cup {Null}
    BY <1>1 DEF Tasks
<1>3. /\ g \in Generations \cup {Null}
      /\ g # Null => g = t.gen /\ g \in Generations /\ store[g] # Null /\ store[g].record
    BY <1>2 DEF Loadable
<1>4. t.alone => (index \in left => store[index] = Null \/ ~store[index].record)
  <2>1. t.alone => index = t.gen
      BY <1>1 DEF KnowsItAll
  <2>2. index \in left => index # g /\ index \in Generations
      BY DEF Caches
  <2> QED BY <2>1, <2>2, ManifestAssumption DEF Loadable
<1>5. left \in SUBSET Generations
    BY DEF Caches
<1> HIDE DEF g, left
<1>6. /\ v \in Tasks /\ v.at = "sweep" /\ v.left = left
      /\ v.id = t.id /\ v.kind = t.kind /\ v.alone = t.alone
  <2>1. left \in SUBSET (Generations \cup Paths \cup {"index"})
      BY <1>5
  <2> QED BY <1>1, <2>1, Zenon DEF Tasks, Places
<1> HIDE DEF v
<1>7. Stage(v) /\ (v.alone => KnowsItAll(v, store', index', active'))
    BY <1>1, <1>4, <1>5, <1>6 DEF Stage, KnowsItAll
<1>8. \A x \in new :
        /\ x \in Tasks /\ Stage(x)
        /\ x.id = t.id /\ x.kind = t.kind /\ x.alone = t.alone
        /\ t.at = "page_sweep" => x.at = "page_sweep"
        /\ x.at = "record" /\ x.gen \in Generations => Seen(x.gen, tasks, index, active)
        /\ x.alone => KnowsItAll(x, store', index', active')
    BY <1>1, <1>6, <1>7
<1>9. \A x, y \in new : x = y
    OBVIOUS
<1> HIDE DEF new
<1>10. Calm /\ Carries(tasks \ {t}, {}, TRUE, new)
    BY <1>1, StoreUnchanged, Moved
<1>11. /\ active' \in [Workers -> Generations \cup {Null}] /\ active'[t.by] = g
       /\ \A w \in Workers \ {t.by} : active'[w] = active[w]
    BY <1>1, <1>2, <1>3 DEF CacheTypes
<1>12. CacheTypes' /\ TellsTheTruth' /\ RecordsEarned
    BY <1>1, <1>11 DEF OfflineInv, CacheTypes, TellsTheTruth, RecordsEarned
<1>13. g # Null => Seen(g, tasks, index, active)
    BY <1>1, <1>3 DEF Seen
<1>14. \A w \in Workers :
        \/ active'[w] \in {active[w], Null}
        \/ /\ active'[w] \in Generations /\ Seen(active'[w], tasks, index, active)
           /\ ~Leftover(store'[active'[w]])
    BY <1>1, <1>3, <1>11, <1>13 DEF Leftover
<1>15. \A h \in Generations :
        /\ Bare(store[h]) => Bare(store'[h])
        /\ Leftover(store'[h]) => Leftover(store[h])
    BY <1>1
<1>16. OfflineInv'
    BY <1>1, <1>8, <1>9, <1>10, <1>12, <1>14, <1>15, SweeperMove
<1>17. GoodKept
    BY <1>1, <1>10, StoreUnchanged, GoodCarried
<1> QED BY <1>16, <1>17

\* One deletion of a sweep: what it leaves of the sweeping task.
SweepsOn(t, n, w) ==
    /\ Carries(tasks \ {t}, {n}, TRUE, {w})
    /\ w.id = t.id /\ w.by = t.by /\ w.kind = t.kind /\ w.at = t.at /\ w.gen = t.gen
    /\ w.path = t.path /\ w.left = t.left \ {n} /\ w.failed = t.failed
    /\ w.linked <=> t.linked /\ t.gen # n
    /\ w.alone = t.alone

LEMMA DeletedNext ==
    ASSUME CacheTypes, Shape, NEW t \in tasks, NEW n \in Generations, DeletesNext(t, n)
    PROVE  /\ store' = Deleted(n) /\ UNCHANGED <<index, worker, active, requests, told>>
           /\ \E w \in Tasks : SweepsOn(t, n, w)
<1> DEFINE u == [t EXCEPT !.left = t.left \ {n}]
           lost == {n}
           calm == TRUE
           w == Kept(u, lost, calm)
           ts == (tasks \ {t}) \cup {u}
<1>1. /\ store' = Deleted(n) /\ UNCHANGED <<index, worker, active, requests, told>>
      /\ tasks' = Orphaned(ts, n)
    BY NamesAssumption DEF DeletesNext
<1>2. t \in Tasks /\ tasks \in SUBSET Tasks /\ calm \in BOOLEAN
    BY DEF Shape, TasksInStage
<1>3. /\ u \in Tasks /\ u.id = t.id /\ u.by = t.by /\ u.kind = t.kind /\ u.at = t.at
      /\ u.gen = t.gen /\ u.path = t.path /\ u.left = t.left \ {n} /\ u.failed = t.failed
      /\ u.linked = t.linked /\ u.alone = t.alone
  <2> DEFINE left == t.left \ {n}
  <2>1. left \in SUBSET (Generations \cup Paths \cup {"index"})
      BY <1>2 DEF Tasks
  <2> HIDE DEF left
  <2>2. LET v == [t EXCEPT !.left = left]
        IN  /\ v \in Tasks /\ v.id = t.id /\ v.by = t.by /\ v.kind = t.kind /\ v.at = t.at
            /\ v.gen = t.gen /\ v.path = t.path /\ v.left = left /\ v.failed = t.failed
            /\ v.linked = t.linked /\ v.alone = t.alone
      BY <1>2, <2>1, Zenon DEF Tasks
  <2> QED BY <2>2 DEF left
<1> HIDE DEF u
<1>4. ts \in SUBSET Tasks
    BY <1>2, <1>3
<1>5. Orphaned(ts, n) = {Kept(x, {n}, TRUE) : x \in ts}
  <2> HIDE DEF ts
  <2> QED BY <1>4, OrphanedForm
<1>6. tasks' = {Kept(x, {n}, TRUE) : x \in tasks \ {t}} \cup {w}
    BY <1>1, <1>5
<1> HIDE DEF lost, calm
<1>7. w = Kept(u, lost, calm)
    OBVIOUS
<1> HIDE DEF w
<1>8. /\ w \in Tasks
      /\ w.id = u.id /\ w.by = u.by /\ w.kind = u.kind /\ w.at = u.at
      /\ w.gen = u.gen /\ w.path = u.path /\ w.left = u.left /\ w.failed = u.failed
      /\ w.linked <=> u.linked /\ u.gen \notin lost
      /\ w.alone <=> u.alone /\ calm
    BY <1>2, <1>3, <1>7, KeptFields
<1>9. w.alone = t.alone
    BY <1>2, <1>3, <1>8 DEF Tasks, calm
<1>10. \A g \in Generations : IF g \in {n} THEN store'[g] = Null ELSE Grows(store[g], store'[g])
    BY <1>1, DeleteCall DEF Grows
<1>11. Carries(tasks \ {t}, {n}, TRUE, {w})
    BY <1>6, <1>10 DEF Carries
<1>12. /\ w.id = t.id /\ w.by = t.by /\ w.kind = t.kind /\ w.at = t.at /\ w.gen = t.gen
       /\ w.path = t.path /\ w.left = t.left \ {n} /\ w.failed = t.failed
       /\ w.linked <=> t.linked /\ t.gen # n
    BY <1>3, <1>8 DEF lost
<1> QED BY <1>1, <1>8, <1>9, <1>11, <1>12 DEF SweepsOn

\* What one deletion leaves of the caches.
LEMMA StoreDeleted ==
    ASSUME CacheTypes, NEW n \in Generations, store' = Deleted(n)
    PROVE  /\ RecordsEarned
           /\ \A g \in Generations :
                /\ Bare(store[g]) => Bare(store'[g])
                /\ Leftover(store'[g]) => Leftover(store[g])
           /\ \A g \in Generations : g # n => store'[g] = store[g]
           /\ store'[n] = Null
<1>1. store'[n] = Null /\ \A g \in Generations : g # n => store'[g] = store[g]
    BY DeleteCall
<1>2. RecordsEarned
    BY <1>1 DEF RecordsEarned
<1>3. \A g \in Generations :
        /\ Bare(store[g]) => Bare(store'[g])
        /\ Leftover(store'[g]) => Leftover(store[g])
    BY <1>1 DEF Bare, Leftover
<1> QED BY <1>1, <1>2, <1>3

LEMMA SweeperDeletes ==
    ASSUME OfflineInv, NEW t \in tasks, t.kind \in {"remove", "late_remove", "activate"},
           NEW n \in t.left, DeletesNext(t, n)
    PROVE  OfflineInv' /\ GoodKept
<1>1. /\ CacheTypes /\ Shape /\ t \in Tasks /\ Stage(t) /\ t.at \in {"sweep", "page_sweep"}
      /\ t.alone => KnowsItAll(t, store, index, active)
    BY DEF OfflineInv, Shape, TasksInStage, AloneKnowsAll, DeletesNext
<1>2. /\ t.left \subseteq Generations \cup {"index"}
      /\ t.kind = "activate" => t.at = "sweep" /\ t.left \subseteq Generations
    BY <1>1 DEF Stage
<1>3. CASE n \in Generations
  <2>1. /\ store' = Deleted(n) /\ UNCHANGED <<index, worker, active, requests, told>>
        /\ \E w \in Tasks : SweepsOn(t, n, w)
      BY <1>1, <1>3, DeletedNext
  <2>2. PICK w \in Tasks :
            /\ Carries(tasks \ {t}, {n}, TRUE, {w})
            /\ w.id = t.id /\ w.by = t.by /\ w.kind = t.kind /\ w.at = t.at /\ w.gen = t.gen
            /\ w.path = t.path /\ w.left = t.left \ {n} /\ w.alone = t.alone
      BY <2>1 DEF SweepsOn
  <2> DEFINE new == {w}
  <2>3. /\ RecordsEarned
        /\ \A g \in Generations :
            /\ Bare(store[g]) => Bare(store'[g])
            /\ Leftover(store'[g]) => Leftover(store[g])
        /\ \A g \in Generations : g # n => store'[g] = store[g]
        /\ store'[n] = Null
      BY <1>1, <1>3, <2>1, StoreDeleted
  <2>4. Stage(w)
      BY <1>1, <1>2, <2>2 DEF Stage
  <2>5. w.alone => KnowsItAll(w, store', index', active')
    <3>1. CASE t.kind = "activate"
      <4>1. index \in t.left => index \in Generations
          BY <1>2, <3>1
      <4> QED BY <1>1, <1>2, <2>1, <2>2, <2>3, <3>1, <4>1 DEF KnowsItAll
    <3>2. CASE t.kind = "remove" /\ t.at = "page_sweep" /\ t.alone
      <4>1. (index = Null \/ "index" \in w.left)
          BY <1>1, <1>3, <2>2, <3>2, NamesAssumption DEF KnowsItAll
      <4>2. \A g \in Generations : Bare(store'[g]) \/ g \in w.left
          BY <1>1, <2>2, <2>3, <3>2 DEF KnowsItAll, Bare
      <4> QED BY <2>1, <2>2, <3>2, <4>1, <4>2 DEF KnowsItAll
    <3>3. CASE t.kind # "activate" /\ ~(t.kind = "remove" /\ t.at = "page_sweep" /\ t.alone)
        BY <2>2, <3>3 DEF KnowsItAll
    <3> QED BY <3>1, <3>2, <3>3
  <2>6. \A x \in new :
            /\ x \in Tasks /\ Stage(x)
            /\ x.id = t.id /\ x.kind = t.kind /\ x.alone = t.alone
            /\ t.at = "page_sweep" => x.at = "page_sweep"
            /\ x.at = "record" /\ x.gen \in Generations => Seen(x.gen, tasks, index, active)
            /\ x.alone => KnowsItAll(x, store', index', active')
      BY <1>1, <2>2, <2>4, <2>5
  <2>7. \A x, y \in new : x = y
      OBVIOUS
  <2>8. Carries(tasks \ {t}, {n}, TRUE, new)
      BY <2>2
  <2> HIDE DEF new
  <2>9. CacheTypes'
      BY <1>1, <1>3, <2>1, DeleteCall DEF CacheTypes
  <2>10. TellsTheTruth'
      BY <2>1 DEF OfflineInv, TellsTheTruth
  <2>11. \A x \in Workers :
            \/ active'[x] \in {active[x], Null}
            \/ /\ active'[x] \in Generations /\ Seen(active'[x], tasks, index, active)
               /\ ~Leftover(store'[active'[x]])
      BY <2>1
  <2>12. OfflineInv'
      BY <2>1, <2>3, <2>6, <2>7, <2>8, <2>9, <2>10, <2>11, SweeperMove
  <2>13. GoodKept
    <3>1. CASE t.kind = "activate"
      <4>1. CASE n = index /\ t.alone
          BY <1>1, <1>2, <3>1, <4>1 DEF KnowsItAll, GoodKept, Complete, Stored
      <4>2. CASE ~t.alone
          BY <3>1, <4>2 DEF GoodKept, Writes
      <4>3. CASE n # index
        <5>1. index \notin {n}
            BY <4>3
        <5>2. index \in Generations => Lasts(store[index], store'[index])
            BY <2>3, <4>3 DEF Lasts
        <5> QED BY <1>1, <2>1, <2>8, <5>1, <5>2, GoodCarried
      <4> QED BY <4>1, <4>2, <4>3
    <3>2. CASE t.kind # "activate"
        BY <3>2, RemovalIsNotGood
    <3> QED BY <3>1, <3>2
  <2> QED BY <2>12, <2>13
<1>4. CASE n = "index"
  <2> DEFINE v == [t EXCEPT !.left = t.left \ {n}]
             new == {v}
  <2>1. /\ t.kind # "activate"
        /\ index' = Null /\ tasks' = (tasks \ {t}) \cup new
        /\ UNCHANGED <<store, worker, active, requests, told>>
      BY <1>2, <1>4, NamesAssumption DEF DeletesNext, Moves
  <2>2. /\ v \in Tasks /\ v.id = t.id /\ v.kind = t.kind /\ v.at = t.at /\ v.gen = t.gen
        /\ v.left = t.left \ {n} /\ v.alone = t.alone /\ v.path = t.path
    <3> DEFINE left == t.left \ {n}
    <3>1. left \in SUBSET (Generations \cup Paths \cup {"index"})
        BY <1>1 DEF Tasks
    <3> HIDE DEF left
    <3>2. LET x == [t EXCEPT !.left = left]
          IN  /\ x \in Tasks /\ x.id = t.id /\ x.kind = t.kind /\ x.at = t.at /\ x.gen = t.gen
              /\ x.left = left /\ x.alone = t.alone /\ x.path = t.path
        BY <1>1, <3>1, Zenon DEF Tasks
    <3> QED BY <3>2 DEF left
  <2> HIDE DEF v
  <2>3. Stage(v)
      BY <1>1, <1>2, <2>1, <2>2 DEF Stage
  <2>4. v.alone => KnowsItAll(v, store', index', active')
    <3>1. t.alone /\ t.kind = "remove" /\ t.at = "page_sweep" =>
                \A g \in Generations : Bare(store'[g]) \/ g \in v.left
        BY <1>1, <1>4, <2>1, <2>2, NamesAssumption DEF KnowsItAll
    <3> QED BY <1>1, <2>1, <2>2, <3>1 DEF KnowsItAll
  <2>5. \A x \in new :
            /\ x \in Tasks /\ Stage(x)
            /\ x.id = t.id /\ x.kind = t.kind /\ x.alone = t.alone
            /\ t.at = "page_sweep" => x.at = "page_sweep"
            /\ x.at = "record" /\ x.gen \in Generations => Seen(x.gen, tasks, index, active)
            /\ x.alone => KnowsItAll(x, store', index', active')
      BY <1>1, <2>2, <2>3, <2>4
  <2>6. \A x, y \in new : x = y
      OBVIOUS
  <2> HIDE DEF new
  <2>7. Carries(tasks \ {t}, {}, TRUE, new)
      BY <1>1, <2>1, StoreUnchanged, Moved
  <2>8. CacheTypes' /\ TellsTheTruth' /\ RecordsEarned
      BY <1>1, <2>1 DEF OfflineInv, CacheTypes, TellsTheTruth, RecordsEarned
  <2>9. \A x \in Workers :
            \/ active'[x] \in {active[x], Null}
            \/ /\ active'[x] \in Generations /\ Seen(active'[x], tasks, index, active)
               /\ ~Leftover(store'[active'[x]])
      BY <2>1
  <2>10. \A g \in Generations :
            /\ Bare(store[g]) => Bare(store'[g])
            /\ Leftover(store'[g]) => Leftover(store[g])
      BY <2>1
  <2>11. OfflineInv'
      BY <2>1, <2>5, <2>6, <2>7, <2>8, <2>9, <2>10, SweeperMove
  <2>12. GoodKept
      BY <2>1, RemovalIsNotGood
  <2> QED BY <2>11, <2>12
<1> QED BY <1>2, <1>3, <1>4

\* A sweeper that ends without a successor.
LEMMA SweeperEnds ==
    ASSUME OfflineInv, NEW t \in tasks, t.kind \in {"remove", "late_remove", "activate"},
           tasks' = tasks \ {t}, CacheTypes', UNCHANGED <<store, index, requests>>,
           \A w \in Workers : active'[w] \in {active[w], Null},
           TellsTheTruth'
    PROVE  OfflineInv' /\ GoodKept
<1> DEFINE new == {}
<1>1. CacheTypes /\ Shape
    BY DEF OfflineInv
<1>2. \A v \in new :
        /\ v \in Tasks /\ Stage(v)
        /\ v.id = t.id /\ v.kind = t.kind /\ v.alone = t.alone
        /\ t.at = "page_sweep" => v.at = "page_sweep"
        /\ v.at = "record" /\ v.gen \in Generations => Seen(v.gen, tasks, index, active)
        /\ v.alone => KnowsItAll(v, store', index', active')
    OBVIOUS
<1>3. \A v, w \in new : v = w
    OBVIOUS
<1>4. tasks' = (tasks \ {t}) \cup new
    OBVIOUS
<1> HIDE DEF new
<1>5. Carries(tasks \ {t}, {}, TRUE, new)
    BY <1>1, <1>4, StoreUnchanged, Moved
<1>6. RecordsEarned
    BY DEF RecordsEarned
<1>7. \A g \in Generations :
        /\ Bare(store[g]) => Bare(store'[g])
        /\ Leftover(store'[g]) => Leftover(store[g])
    OBVIOUS
<1>8. \A w \in Workers :
        \/ active'[w] \in {active[w], Null}
        \/ /\ active'[w] \in Generations /\ Seen(active'[w], tasks, index, active)
           /\ ~Leftover(store'[active'[w]])
    OBVIOUS
<1>9. OfflineInv'
    BY <1>2, <1>3, <1>5, <1>6, <1>7, <1>8, SweeperMove
<1>10. GoodKept
    BY <1>1, <1>5, StoreUnchanged, GoodCarried
<1> QED BY <1>9, <1>10

LEMMA ActivateEndsKeeps ==
    ASSUME OfflineInv, NEW t \in tasks, ActivateEnds(t)
    PROVE  OfflineInv' /\ GoodKept
<1>1. /\ t.kind = "activate" /\ tasks' = tasks \ {t}
      /\ UNCHANGED <<store, index, worker, active, requests, told>>
    BY DEF ActivateEnds, Ends
<1>2. CacheTypes' /\ TellsTheTruth'
    BY <1>1 DEF OfflineInv, CacheTypes, TellsTheTruth
<1>3. \A w \in Workers : active'[w] \in {active[w], Null}
    BY <1>1
<1> QED BY <1>1, <1>2, <1>3, SweeperEnds

LEMMA RemovedKeeps ==
    ASSUME OfflineInv, NEW t \in tasks, t.kind \in {"remove", "late_remove"},
           t.at = "page_sweep", t.left = {}, Removed(t)
    PROVE  OfflineInv' /\ GoodKept
<1> DEFINE gone == index = Null /\ \A g \in Caches : store[g] = EmptyCache
           said == told'
<1>1. /\ CacheTypes /\ t \in Tasks /\ Stage(t)
      /\ t.alone => KnowsItAll(t, store, index, active)
      /\ tasks' = tasks \ {t} /\ UNCHANGED <<store, index, worker, active, requests>>
      /\ told' = [what |-> "removed", alone |-> t.alone, so |-> gone]
    BY DEF OfflineInv, Shape, TasksInStage, AloneKnowsAll, Removed, Ends
<1>2. t.kind = "remove" /\ t.alone \in BOOLEAN
    BY <1>1 DEF Stage, Tasks
<1>3. t.alone => gone
    BY <1>1, <1>2 DEF KnowsItAll, Bare, Caches
<1>4. gone \in BOOLEAN
    OBVIOUS
<1> HIDE DEF gone
<1>5. /\ told' \in [what : {"prepared", "removed", "ready"}, alone : BOOLEAN, so : BOOLEAN]
      /\ told'.what = "removed" /\ told'.alone = t.alone /\ (t.alone => told'.so)
    BY <1>1, <1>2, <1>3, <1>4
<1>6. CacheTypes' /\ TellsTheTruth'
    BY <1>1, <1>5 DEF CacheTypes, Told, TellsTheTruth
<1>7. \A w \in Workers : active'[w] \in {active[w], Null}
    BY <1>1
<1> QED BY <1>1, <1>6, <1>7, SweeperEnds

\* The task in which the page sweeps, knowing all that is stored.
LEMMA PageTask ==
    ASSUME NEW t \in Tasks, t.kind = "remove", NEW v,
           v = [t EXCEPT !.at = "page_sweep", !.left = OwnedNames]
    PROVE  /\ v \in Tasks /\ Stage(v) /\ v.at = "page_sweep"
           /\ v.id = t.id /\ v.kind = "remove" /\ v.alone = t.alone
           /\ UNCHANGED <<store, index>> => KnowsItAll(v, store', index', active')
<1>1. OwnedNames \in SUBSET (Generations \cup Paths \cup {"index"})
      /\ OwnedNames \subseteq Generations \cup {"index"}
    BY DEF OwnedNames, Names, Caches
<1>2. /\ index = Null \/ "index" \in OwnedNames
      /\ \A g \in Generations : Bare(store[g]) \/ g \in OwnedNames
    BY DEF OwnedNames, Names, Caches, Bare
<1> DEFINE names == OwnedNames
<1>3. v = [t EXCEPT !.at = "page_sweep", !.left = names]
    OBVIOUS
<1>4. names \in SUBSET (Generations \cup Paths \cup {"index"})
    BY <1>1
<1> HIDE DEF names
<1>5. /\ v \in Tasks /\ v.at = "page_sweep" /\ v.left = names
      /\ v.id = t.id /\ v.kind = t.kind /\ v.alone = t.alone
    BY <1>3, <1>4, Zenon DEF Tasks, Places
<1>6. Stage(v)
    BY <1>1, <1>5 DEF Stage, names
<1>7. UNCHANGED <<store, index>> => KnowsItAll(v, store', index', active')
    BY <1>2, <1>5 DEF KnowsItAll, names
<1> QED BY <1>5, <1>6, <1>7

LEMMA WorkerRemovedKeeps ==
    ASSUME OfflineInv, NEW t \in tasks, t.kind \in {"remove", "late_remove"},
           t.at = "sweep", WorkerRemoved(t)
    PROVE  OfflineInv' /\ GoodKept
<1>1. /\ CacheTypes /\ Shape /\ t \in Tasks /\ t.by \in Workers
      /\ active' = [active EXCEPT ![t.by] = Null]
      /\ UNCHANGED <<store, index, worker, requests, told>>
    BY DEF OfflineInv, Shape, TasksInStage, WorkerRemoved, Tasks
<1>2. active' \in [Workers -> Generations \cup {Null}]
      /\ \A w \in Workers : active'[w] \in {active[w], Null}
    BY <1>1 DEF CacheTypes
<1>3. CacheTypes' /\ TellsTheTruth'
    BY <1>1, <1>2 DEF OfflineInv, CacheTypes, TellsTheTruth
<1>4. CASE t.kind = "late_remove"
  <2>1. tasks' = tasks \ {t}
      BY <1>4 DEF WorkerRemoved, Ends
  <2> QED BY <1>1, <1>2, <1>3, <2>1, SweeperEnds
<1>5. CASE t.kind = "remove"
  <2> DEFINE v == [t EXCEPT !.at = "page_sweep", !.left = OwnedNames]
             new == {v}
  <2>1. tasks' = (tasks \ {t}) \cup new
      BY <1>5 DEF WorkerRemoved, PageSweeps
  <2>2. /\ v \in Tasks /\ Stage(v) /\ v.at = "page_sweep"
        /\ v.id = t.id /\ v.kind = "remove" /\ v.alone = t.alone
        /\ UNCHANGED <<store, index>> => KnowsItAll(v, store', index', active')
      BY <1>1, <1>5, PageTask
  <2> HIDE DEF v
  <2>3. \A x \in new :
            /\ x \in Tasks /\ Stage(x)
            /\ x.id = t.id /\ x.kind = t.kind /\ x.alone = t.alone
            /\ t.at = "page_sweep" => x.at = "page_sweep"
            /\ x.at = "record" /\ x.gen \in Generations => Seen(x.gen, tasks, index, active)
            /\ x.alone => KnowsItAll(x, store', index', active')
      BY <1>1, <1>5, <2>2
  <2>4. \A x, y \in new : x = y
      OBVIOUS
  <2> HIDE DEF new
  <2>5. Carries(tasks \ {t}, {}, TRUE, new)
      BY <1>1, <2>1, StoreUnchanged, Moved
  <2>6. RecordsEarned
      BY <1>1 DEF RecordsEarned
  <2>7. \A w \in Workers :
            \/ active'[w] \in {active[w], Null}
            \/ /\ active'[w] \in Generations /\ Seen(active'[w], tasks, index, active)
               /\ ~Leftover(store'[active'[w]])
      BY <1>2
  <2>8. \A g \in Generations :
            /\ Bare(store[g]) => Bare(store'[g])
            /\ Leftover(store'[g]) => Leftover(store[g])
      BY <1>1
  <2>9. OfflineInv'
      BY <1>1, <1>3, <2>3, <2>4, <2>5, <2>6, <2>7, <2>8, SweeperMove
  <2> QED BY <2>9, RemovalIsNotGood
<1> QED BY <1>4, <1>5

LEMMA RemoveTimesOutKeeps ==
    ASSUME OfflineInv, NEW t \in tasks, t.kind = "remove", t.at = "sweep", RemoveTimesOut(t)
    PROVE  OfflineInv' /\ GoodKept
<1> DEFINE late == [t EXCEPT !.kind = "late_remove"]
           page == [t EXCEPT !.at = "page_sweep", !.left = OwnedNames]
           new == {late, page}
<1>1. /\ CacheTypes /\ Shape /\ AloneKnowsAll /\ OneIsStocked /\ LeftoversForgotten
      /\ t \in Tasks /\ Stage(t) /\ t.id < requests
      /\ UNCHANGED <<store, index, worker, active, requests, told>>
      /\ tasks' = (tasks \ {t}) \cup new
    BY DEF OfflineInv, Shape, TasksInStage, RemoveTimesOut, PageSweeps
<1>2. /\ page \in Tasks /\ Stage(page) /\ page.at = "page_sweep"
      /\ page.id = t.id /\ page.kind = "remove" /\ page.alone = t.alone
      /\ UNCHANGED <<store, index>> => KnowsItAll(page, store', index', active')
    BY <1>1, PageTask
<1>3. /\ late \in Tasks /\ late.id = t.id /\ late.kind = "late_remove"
      /\ late.at = "sweep" /\ late.left = t.left /\ late.alone = t.alone
    BY <1>1, Zenon DEF Tasks, Kinds
<1> HIDE DEF late, page
<1>4. Stage(late)
    BY <1>1, <1>3 DEF Stage
<1>5. Carries(tasks \ {t}, {}, TRUE, new)
    BY <1>1, StoreUnchanged, Moved
<1>6. \A v \in new :
        /\ v \in Tasks /\ Stage(v) /\ v.id = t.id /\ v.alone = t.alone
        /\ v.kind \in {"remove", "late_remove"} /\ v.at \in {"sweep", "page_sweep"}
        /\ KnowsItsCache(v, store')
        /\ KnowsItAll(v, store', index', active')
  <2>1. KnowsItsCache(late, store') /\ KnowsItAll(late, store', index', active')
      BY <1>3 DEF KnowsItsCache, KnowsItAll
  <2>2. KnowsItsCache(page, store')
      BY <1>2 DEF KnowsItsCache
  <2> QED BY <1>1, <1>2, <1>3, <1>4, <2>1, <2>2
<1>7. \A v, w \in new : v # w => TimedOut(v, w)
    BY <1>2, <1>3 DEF TimedOut
<1> HIDE DEF new
<1>8. Shape'
  <2>1. TasksInStage /\ OneTimedOut /\ CachesAsOpened /\ RecordsWhole /\ AloneIsAlone
      BY <1>1 DEF Shape
  <2>2. TasksInStage'
    <3>1. requests \in Nat /\ requests' \in Nat /\ requests <= requests'
        BY <1>1, BoundsAssumption DEF CacheTypes
    <3>2. \A v \in new : v \in Tasks /\ v.id < requests' /\ Stage(v)
        BY <1>1, <1>6
    <3> QED BY <1>5, <2>1, <3>1, <3>2, TasksCarried
  <2>3. OneTimedOut'
    <3>1. \A v \in new, u \in tasks \ {t} : v.id = u.id => TimedOut(v, u)
        BY <1>6, <2>1 DEF OneTimedOut, TimedOut
    <3>2. \A v, w \in new : v.id = w.id /\ v # w => TimedOut(v, w)
        BY <1>7
    <3> QED BY <1>5, <2>1, <3>1, <3>2, IdsCarried
  <2>4. CachesAsOpened'
      BY <1>5, <1>6, <2>1, CachesCarried
  <2>5. RecordsWhole'
    <3>1. \A g \in Generations : store'[g] # Null /\ store'[g].record =>
            \/ store[g] # Null /\ store[g].record
            \/ \A p \in PathsOf[g] : store'[g].held[p] # "absent"
        BY <1>1
    <3> QED BY <1>5, <2>1, <3>1, RecordsCarried
  <2>6. AloneIsAlone'
    <3> DEFINE calm == TRUE
               none == {}
               rest == tasks \ {t}
    <3>1. \A v \in new, u \in rest :
            /\ v.alone /\ Writes(u) => u.id = v.id
            /\ u.alone /\ calm /\ Writes(v) => v.id = u.id
        BY <1>6, <2>1 DEF AloneIsAlone, Writes
    <3>2. \A v, w \in new : v.alone /\ Writes(w) => w.id = v.id
        BY <1>6
    <3>3. Carries(rest, none, calm, new)
        BY <1>5
    <3> HIDE DEF calm, none, rest
    <3> QED BY <2>1, <3>1, <3>2, <3>3, AloneCarried
  <2> QED BY <2>2, <2>3, <2>4, <2>5, <2>6 DEF Shape
<1>9. AloneKnowsAll'
    BY <1>1, <1>5, <1>6, WriterKnows DEF Writes
<1>10. OneIsStocked' /\ LeftoversForgotten'
  <2>1. \A s \in tasks \ (tasks \ {t}) : s.kind # "prepare"
      OBVIOUS
  <2>2. \A v \in new :
            /\ v.kind # "prepare"
            /\ v.at \in {"record", "has", "open"} /\ v.gen \in Generations =>
                    Seen(v.gen, tasks, index, active)
      BY <1>6
  <2>3. \A w \in Workers : active'[w] \in Generations =>
            /\ Seen(active'[w], tasks, index, active)
            /\ active'[w] = active[w] \/ ~Leftover(store'[active'[w]])
      BY <1>1 DEF Seen
  <2>4. \A g \in Generations :
            /\ Bare(store[g]) => Bare(store'[g])
            /\ Leftover(store'[g]) => Leftover(store[g])
      BY <1>1
  <2>5. index' = index \/ index' = Null
      BY <1>1
  <2> QED BY <1>1, <1>5, <2>1, <2>2, <2>3, <2>4, <2>5, OtherWork
<1>11. CacheTypes' /\ TellsTheTruth'
    BY <1>1 DEF OfflineInv, CacheTypes, TellsTheTruth
<1> QED BY <1>8, <1>9, <1>10, <1>11, RemovalIsNotGood DEF OfflineInv

(***************************************************************************)
(* The browser.                                                            *)
(***************************************************************************)
\* A step of no task, by which nothing comes to be stored or current.
LEMMA OthersMove ==
    ASSUME OfflineInv, NEW lost, NEW calm, Carries(tasks, lost, calm, {}), CacheTypes',
           requests' \in Nat, requests <= requests', RecordsEarned, AloneKnowsAll',
           UNCHANGED <<index, active, told>>,
           \A g \in Generations :
                /\ Bare(store[g]) => Bare(store'[g])
                /\ Leftover(store'[g]) => Leftover(store[g])
    PROVE  OfflineInv'
<1> DEFINE new == {}
           rest == tasks
<1>1. CacheTypes /\ Shape /\ AloneKnowsAll /\ OneIsStocked /\ LeftoversForgotten /\ requests \in Nat
    BY BoundsAssumption DEF OfflineInv, CacheTypes
<1>2. Shape'
    BY <1>1, OthersShape
<1>3. OneIsStocked' /\ LeftoversForgotten'
  <2>1. \A s \in tasks \ rest : s.kind # "prepare"
      OBVIOUS
  <2>2. \A v \in new :
            /\ v.kind # "prepare"
            /\ v.at \in {"record", "has", "open"} /\ v.gen \in Generations =>
                    Seen(v.gen, tasks, index, active)
      OBVIOUS
  <2>3. \A w \in Workers : active'[w] \in Generations =>
            /\ Seen(active'[w], tasks, index, active)
            /\ active'[w] = active[w] \/ ~Leftover(store'[active'[w]])
      BY DEF Seen
  <2>4. Carries(rest, lost, calm, new)
      OBVIOUS
  <2> HIDE DEF new, rest
  <2> QED BY <1>1, <2>1, <2>2, <2>3, <2>4, OtherWork
<1>4. TellsTheTruth'
    BY DEF OfflineInv, TellsTheTruth
<1> QED BY <1>2, <1>3, <1>4 DEF OfflineInv

LEMMA EvictsKeeps ==
    ASSUME OfflineInv, NEW g \in Generations, Evicts(g)
    PROVE  OfflineInv' /\ GoodKept
<1> DEFINE lost == {g}
           calm == FALSE
           new == {}
           rest == tasks
<1>1. /\ CacheTypes /\ Shape /\ AloneKnowsAll /\ TasksInStage /\ tasks \in SUBSET Tasks
      /\ requests < MaxRequests /\ requests' = requests + 1 /\ store' = Deleted(g)
      /\ tasks' = Crowd(Orphaned(tasks, g))
      /\ UNCHANGED <<index, worker, active, told>>
    BY DEF OfflineInv, Shape, TasksInStage, Evicts
<1>2. requests \in Nat /\ requests' \in 0..MaxRequests
    BY <1>1, BoundsAssumption DEF CacheTypes
<1>3. tasks' = {Kept(u, lost, calm) : u \in rest} \cup new
    BY <1>1, CrowdedForm
<1>4. \A h \in Generations : IF h \in lost THEN store'[h] = Null ELSE Grows(store[h], store'[h])
    BY <1>1, DeleteCall DEF Grows
<1>5. Carries(rest, lost, calm, new)
    BY <1>3, <1>4 DEF Carries
<1>6. \A v \in new : v.alone => KnowsItAll(v, store', index', active')
    OBVIOUS
<1>7. \A u \in rest : u.alone /\ calm =>
        /\ u.kind = "prepare" => u.gen \notin lost
        /\ KnowsItAll(u, store', index', active')
    OBVIOUS
<1>8. Carries(tasks, lost, calm, {})
    BY <1>5
<1> HIDE DEF lost, calm, new, rest
<1>9. AloneKnowsAll'
    BY <1>1, <1>5, <1>6, <1>7, KnowsCarried
<1>10. CacheTypes'
    BY <1>1, <1>2, DeleteCall DEF CacheTypes
<1>11. /\ RecordsEarned
       /\ \A h \in Generations :
            /\ Bare(store[h]) => Bare(store'[h])
            /\ Leftover(store'[h]) => Leftover(store[h])
    BY <1>1, StoreDeleted
<1>12. requests' \in Nat /\ requests <= requests'
    BY <1>1, <1>2
<1>13. OfflineInv'
    BY <1>1, <1>8, <1>9, <1>10, <1>11, <1>12, OthersMove
<1>14. GoodKept
    BY <1>1, <1>2 DEF GoodKept
<1> QED BY <1>13, <1>14

LEMMA CorruptsKeeps ==
    ASSUME OfflineInv, NEW g \in Generations, NEW p \in Paths, Corrupts(g, p)
    PROVE  OfflineInv' /\ GoodKept
<1> DEFINE lost == {}
           calm == FALSE
           new == {}
           rest == tasks
<1>1. /\ CacheTypes /\ Shape /\ AloneKnowsAll /\ TasksInStage /\ tasks \in SUBSET Tasks
      /\ store[g] # Null /\ store[g].held[p] = "good"
      /\ store' = [store EXCEPT ![g].held[p] = "bad"]
      /\ tasks' = Crowd(tasks) /\ UNCHANGED <<index, worker, active, requests, told>>
    BY DEF OfflineInv, Shape, TasksInStage, Corrupts
<1>2. PutIn(store', g, p, "bad")
  <2>1. "bad" \in Entries
      BY DEF Entries
  <2> QED BY <1>1, <2>1, PutCall
<1>3. /\ store' \in [Generations -> Contents \cup {Null}]
      /\ store'[g] # Null /\ store'[g].record = store[g].record /\ store'[g].held[p] = "bad"
      /\ \A q \in Paths \ {p} : store'[g].held[q] = store[g].held[q]
      /\ \A h \in Generations \ {g} : store'[h] = store[h]
    BY <1>2 DEF PutIn
<1>4. ~Bare(store[g]) /\ ~Bare(store'[g])
    BY <1>1, <1>3, NotBare
<1>5. Calm
    BY <1>3, <1>4, <1>1 DEF Calm, Leftover, Bare
<1>6. \A h \in Generations : Grows(store[h], store'[h])
    BY <1>1, <1>3 DEF Grows
<1>7. tasks' = {Kept(u, lost, calm) : u \in rest} \cup new
    BY <1>1, CarriedForms
<1>8. Carries(rest, lost, calm, new)
    BY <1>6, <1>7 DEF Carries
<1>9. Carries(tasks, {}, FALSE, {}) /\ Carries(rest, {}, calm, new) /\ Carries(tasks, lost, calm, new)
    BY <1>8
<1>10. \A v \in new : v.alone => KnowsItAll(v, store', index', active')
    OBVIOUS
<1>11. \A u \in rest : u.alone /\ calm =>
            /\ u.kind = "prepare" => u.gen \notin lost
            /\ KnowsItAll(u, store', index', active')
    OBVIOUS
<1>12. index \notin lost
    OBVIOUS
<1> HIDE DEF lost, calm, new, rest
<1>13. AloneKnowsAll'
  <2>1. AloneKnowsAll /\ TasksInStage
      BY <1>1
  <2> QED BY <1>8, <1>10, <1>11, <2>1, KnowsCarried
<1>14. CacheTypes'
    BY <1>1, <1>3 DEF CacheTypes
<1>15. /\ RecordsEarned
       /\ \A h \in Generations :
            /\ Bare(store[h]) => Bare(store'[h])
            /\ Leftover(store'[h]) => Leftover(store[h])
    BY <1>5 DEF RecordsEarned, Calm
<1>16. requests' \in Nat /\ requests <= requests'
    BY <1>1, BoundsAssumption DEF CacheTypes
<1>17. OfflineInv'
    BY <1>1, <1>9, <1>13, <1>14, <1>15, <1>16, OthersMove
<1>18. GoodKept
  <2>1. index \in Generations => Lasts(store[index], store'[index])
      BY <1>3 DEF Lasts
  <2> QED BY <1>1, <1>9, <1>12, <2>1, GoodCarried
<1> QED BY <1>17, <1>18

LEMMA StopsKeeps ==
    ASSUME OfflineInv, Stops
    PROVE  OfflineInv' /\ GoodKept
<1>1. /\ CacheTypes /\ Shape /\ RecordsWhole
      /\ requests < MaxRequests /\ requests' = requests + 1
      /\ active' = [w \in Workers |-> Null] /\ tasks' = {}
      /\ told' = [what |-> "nothing"] /\ UNCHANGED <<store, index, worker>>
    BY DEF OfflineInv, Shape, Stops
<1>2. requests \in Nat /\ requests' \in 0..MaxRequests
    BY <1>1, BoundsAssumption DEF CacheTypes
<1>3. CacheTypes'
    BY <1>1, <1>2 DEF CacheTypes, Told
<1>4. Shape'
  <2>1. RecordsWhole'
      BY <1>1 DEF RecordsWhole, Whole
  <2> QED BY <1>1, <2>1 DEF Shape, TasksInStage, OneTimedOut, CachesAsOpened, AloneIsAlone
<1>5. \A w \in Workers, g \in Generations : active'[w] # g
    BY <1>1, ManifestAssumption
<1>6. AloneKnowsAll' /\ LeftoversForgotten'
    BY <1>1, <1>5 DEF AloneKnowsAll, LeftoversForgotten, Forgotten
<1>7. OneIsStocked'
    BY <1>1, <1>5 DEF OneIsStocked, Seen
<1>8. TellsTheTruth'
    BY <1>1 DEF TellsTheTruth
<1>9. GoodKept
    BY <1>1, <1>2 DEF GoodKept
<1> QED BY <1>3, <1>4, <1>6, <1>7, <1>8, <1>9 DEF OfflineInv

(***************************************************************************)
(* Preparing.                                                              *)
(***************************************************************************)
LEMMA PrepareBegins ==
    ASSUME OfflineInv, NEW g \in Generations, Prepare(g)
    PROVE  OfflineInv' /\ GoodKept
<1> DEFINE c == Task("prepare", "fetch", g, Null)
           b == [c EXCEPT !.left = PathsOf[g]]
<1>1. /\ CacheTypes /\ Shape /\ AloneKnowsAll /\ OneIsStocked /\ LeftoversForgotten /\ TasksInStage
      /\ worker \in Workers /\ Begin(b)
      /\ store' = WithCache(g) /\ UNCHANGED <<index, worker, active, told>>
    BY DEF OfflineInv, CacheTypes, Prepare, Shape
<1>2. c \in Tasks /\ c.id = requests /\ c.kind = "prepare" /\ c.at = "fetch" /\ c.gen = g /\ c.linked
  <2>1. "prepare" \in Kinds /\ "fetch" \in Places
      BY DEF Kinds, Places
  <2> QED BY <1>1, <2>1, TaskFields DEF Task
<1>3. /\ b \in Tasks /\ b.id = requests /\ b.kind = "prepare" /\ b.at = "fetch" /\ b.gen = g
      /\ b.left = PathsOf[g] /\ b.linked
  <2> DEFINE left == PathsOf[g]
  <2>1. left \in SUBSET (Generations \cup Paths \cup {"index"})
      BY ManifestAssumption
  <2> HIDE DEF c, left
  <2>2. LET x == [c EXCEPT !.left = left]
        IN  /\ x \in Tasks /\ x.id = c.id /\ x.kind = c.kind /\ x.at = c.at /\ x.gen = c.gen
            /\ x.left = left /\ x.linked = c.linked
      BY <1>2, <2>1, Zenon DEF Tasks
  <2> QED BY <1>2, <2>2 DEF left
<1> HIDE DEF c, b
<1>4. Calm /\ \A h \in Generations : Grows(store[h], store'[h])
    BY <1>1, StoreOpened
<1>5. PICK v \in Tasks :
        /\ Carries(tasks, {}, ~Writes(b), {v})
        /\ v.id = requests /\ v.by = b.by /\ v.kind = b.kind /\ v.at = b.at /\ v.gen = b.gen
        /\ v.path = b.path /\ v.left = b.left /\ v.failed = b.failed /\ v.linked = b.linked
        /\ Writes(v) <=> Writes(b)
        /\ v.alone => \A u \in tasks : ~Writes(u)
        /\ requests \in Nat /\ requests' = requests + 1 /\ requests' \in 0..MaxRequests
    BY <1>1, <1>3, <1>4, Begun
<1> DEFINE new == {v}
           calm == ~Writes(b)
           none == {}
           rest == tasks
<1>6. ~calm
    BY <1>3 DEF Writes
<1>7. Stage(v) /\ KnowsItsCache(v, store') /\ KnowsItAll(v, store', index', active')
    BY <1>1, <1>3, <1>5, WithCall DEF Stage, KnowsItsCache, KnowsItAll, GoodSoFar
<1>8. Shape'
  <2>1. RecordsEarned
      BY <1>4 DEF RecordsEarned, Calm
  <2>2. Carries(tasks, {}, calm, {v})
      BY <1>5
  <2> HIDE DEF calm
  <2> QED BY <1>1, <1>5, <1>6, <1>7, <2>1, <2>2, BeginShape
<1>9. Carries(rest, none, calm, new)
    BY <1>5
<1>10. \A x \in new : x = v
    OBVIOUS
<1>11. v \in new
    OBVIOUS
<1>12. /\ \A h \in Generations : ~Filling(h, tasks \ rest) /\ ~Fetching(h, tasks \ rest)
       /\ \A h, k \in Generations : ~Sweeping(h, k, tasks \ rest)
    BY DEF Filling, Fetching, Sweeping
<1>13. \A u \in rest : u.alone /\ calm =>
        /\ u.kind = "prepare" => u.gen \notin none
        /\ KnowsItAll(u, store', index', active')
    BY <1>6
<1> HIDE DEF new, calm, none, rest
<1>14. AloneKnowsAll'
    BY <1>1, <1>7, <1>9, <1>10, <1>13, KnowsCarried
<1>15. OneIsStocked'
  <2>1. \A h \in Generations : Seen(h, new, index', active') => Seen(h, tasks, index, active)
      BY <1>1, <1>3, <1>5, <1>10 DEF Seen
  <2>2. \A h \in Generations : Bare(store[h]) => Bare(store'[h])
      BY <1>4 DEF Calm
  <2> QED BY <1>1, <1>9, <1>12, <2>1, <2>2, StockedCarried
<1>16. LeftoversForgotten'
  <2>1. \A x \in new : Fetching(x.gen, new)
      BY <1>3, <1>5, <1>10, <1>11 DEF Fetching
  <2>2. \A h \in Generations : Leftover(store'[h]) => Leftover(store[h])
      BY <1>4 DEF Calm
  <2>3. \A w \in Workers : active'[w] = active[w]
      BY <1>1
  <2> QED BY <1>1, <1>9, <1>12, <2>1, <2>2, <2>3, LeftoversCarried
<1>17. CacheTypes'
    BY <1>1, <1>5, WithCall DEF CacheTypes
<1>18. TellsTheTruth'
    BY <1>1 DEF OfflineInv, TellsTheTruth
<1>19. GoodKept
    BY <1>5 DEF GoodKept
<1> QED BY <1>8, <1>14, <1>15, <1>16, <1>17, <1>18, <1>19 DEF OfflineInv

\* A step of a prepare under way.
LEMMA PrepareMove ==
    ASSUME OfflineInv, NEW t \in tasks, t.kind = "prepare",
           NEW lost, NEW new, Carries(tasks \ {t}, lost, TRUE, new), CacheTypes',
           requests' = requests, RecordsEarned,
           \A v \in new :
                /\ v \in Tasks /\ Stage(v) /\ KnowsItsCache(v, store')
                /\ v.id = t.id /\ v.kind = "prepare" /\ v.gen = t.gen /\ v.alone = t.alone
                /\ v.alone => KnowsItAll(v, store', index', active'),
           \A v, w \in new : v = w,
           \/ index' = index /\ active' = active
           \/ /\ index' = t.gen /\ \A w \in Workers : active'[w] \in {active[w], t.gen}
              /\ Rules(t.gen, new),
           \A g \in Generations : Bare(store[g]) => Bare(store'[g]) \/ Filling(g, new),
           Filling(t.gen, {t}) =>
                Filling(t.gen, new) \/ Bare(store'[t.gen]) \/ Rules(t.gen, new),
           \A h \in Generations : Sweeping(t.gen, h, {t}) =>
                Sweeping(t.gen, h, new) \/ Bare(store'[t.gen]) \/ Bare(store'[h]),
           \A g \in Generations : Leftover(store'[g]) => Leftover(store[g]) \/ Fetching(g, new),
           Fetching(t.gen, {t}) => Fetching(t.gen, new) \/ ~Leftover(store'[t.gen]),
           TellsTheTruth'
    PROVE  OfflineInv'
<1> DEFINE rest == tasks \ {t}
           calm == TRUE
<1>1. CacheTypes /\ Shape /\ AloneKnowsAll /\ OneIsStocked /\ LeftoversForgotten /\ TasksInStage
    BY DEF OfflineInv, Shape
<1>2. Shape'
  <2>1. requests \in Nat
      BY <1>1, BoundsAssumption DEF CacheTypes
  <2>2. \A v \in new :
            /\ v \in Tasks /\ Stage(v) /\ KnowsItsCache(v, store')
            /\ v.id = t.id /\ v.kind = t.kind /\ (v.alone => t.alone)
            /\ Writes(v) => Writes(t)
            /\ t.kind = "remove" /\ t.at = "page_sweep" => v.at = "page_sweep"
      BY DEF Writes
  <2> QED BY <1>1, <2>1, <2>2, MoveShape
<1>3. AloneKnowsAll'
    BY <1>1, WriterKnows DEF Writes
<1>4. tasks \ rest = {t}
    OBVIOUS
<1>5. Carries(rest, lost, calm, new)
    OBVIOUS
<1> HIDE DEF rest, calm
<1>6. \A g \in Generations :
        /\ Filling(g, tasks \ rest) => g = t.gen /\ Filling(t.gen, {t})
        /\ Fetching(g, tasks \ rest) => g = t.gen /\ Fetching(t.gen, {t})
        /\ \A h \in Generations : Sweeping(g, h, tasks \ rest) => g = t.gen /\ Sweeping(t.gen, h, {t})
    BY <1>4 DEF Filling, Fetching, Sweeping
<1>7. \A g \in Generations : Seen(g, new, index', active') =>
        Seen(g, tasks, index, active) \/ Rules(g, new)
  <2>1. \A v \in new : v.at \notin {"record", "has", "open"}
      BY DEF Stage
  <2> QED BY <2>1 DEF Seen
<1>8. OneIsStocked'
  <2>1. \A g \in Generations : Filling(g, tasks \ rest) =>
            Filling(g, new) \/ Bare(store'[g]) \/ Rules(g, new)
      BY <1>6
  <2>2. \A g, h \in Generations : Sweeping(g, h, tasks \ rest) =>
            Sweeping(g, h, new) \/ Bare(store'[g]) \/ Bare(store'[h])
      BY <1>6
  <2> QED BY <1>1, <1>5, <1>7, <2>1, <2>2, StockedCarried
<1>9. LeftoversForgotten'
  <2>1. \A w \in Workers : active'[w] \in Generations =>
            \/ active'[w] = active[w] \/ ~Leftover(store'[active'[w]])
            \/ \E s \in tasks : s.kind = "prepare" /\ s.gen = active'[w]
      OBVIOUS
  <2>2. \A g \in Generations : Fetching(g, tasks \ rest) =>
            Fetching(g, new) \/ ~Leftover(store'[g])
      BY <1>6
  <2>3. \A v \in new : v.kind = "prepare" =>
            \/ Fetching(v.gen, new)
            \/ \E s \in tasks : s.kind = "prepare" /\ s.gen = v.gen
      OBVIOUS
  <2> QED BY <1>1, <1>5, <2>1, <2>2, <2>3, LeftoversCarried
<1> QED BY <1>2, <1>3, <1>8, <1>9 DEF OfflineInv

\* A prepare before it flips the index.
LEMMA PrepareGoesOn ==
    ASSUME OfflineInv, NEW t \in tasks, t.kind = "prepare", t.at = "fetch",
           NEW v \in Tasks, tasks' = (tasks \ {t}) \cup {v},
           v.id = t.id, v.kind = "prepare", v.gen = t.gen, v.alone = t.alone, v.linked = t.linked,
           v.at \in {"fetch", "index"}, Stage(v), KnowsItsCache(v, store'),
           CacheTypes', RecordsEarned, UNCHANGED <<index, active, requests, told>>,
           \A g \in Generations : Grows(store[g], store'[g]) /\ Lasts(store[g], store'[g]),
           t.alone => GoodSoFar(v, store'[t.gen]),
           \A g \in Generations \ {t.gen} : store'[g] = store[g],
           ~t.linked => store'[t.gen] = store[t.gen]
    PROVE  OfflineInv' /\ GoodKept
<1> DEFINE new == {v}
           none == {}
<1>1. /\ CacheTypes /\ Shape /\ t \in Tasks /\ Stage(t) /\ t.gen \in Generations
      /\ t.alone => KnowsItAll(t, store, index, active)
    BY DEF OfflineInv, Shape, TasksInStage, AloneKnowsAll, Stage
<1>2. tasks' = (tasks \ {t}) \cup new /\ v \in new /\ \A x \in new : x = v
    OBVIOUS
<1>3. index \notin none
    OBVIOUS
<1> HIDE DEF new
<1>4. Carries(tasks \ {t}, none, TRUE, new)
    BY <1>1, <1>2, Moved
<1> HIDE DEF none
<1>5. v.alone => KnowsItAll(v, store', index', active')
    BY <1>1 DEF KnowsItAll
<1>6. t.linked => Filling(t.gen, new)
    BY <1>2 DEF Filling
<1>7. \A x \in new :
        /\ x \in Tasks /\ Stage(x) /\ KnowsItsCache(x, store')
        /\ x.id = t.id /\ x.kind = "prepare" /\ x.gen = t.gen /\ x.alone = t.alone
        /\ x.alone => KnowsItAll(x, store', index', active')
    BY <1>2, <1>5
<1>8. \A x, y \in new : x = y
    BY <1>2
<1>9. \A g \in Generations : Bare(store[g]) => Bare(store'[g]) \/ Filling(g, new)
    BY <1>1, <1>6
<1>10. Filling(t.gen, {t}) =>
            Filling(t.gen, new) \/ Bare(store'[t.gen]) \/ Rules(t.gen, new)
    BY <1>6 DEF Filling
<1>11. \A h \in Generations : Sweeping(t.gen, h, {t}) =>
            Sweeping(t.gen, h, new) \/ Bare(store'[t.gen]) \/ Bare(store'[h])
    BY DEF Sweeping
<1>12. t.linked => Fetching(t.gen, new) \/ ~Leftover(store'[t.gen])
  <2>1. t.linked /\ v.at = "fetch" => Fetching(t.gen, new)
      BY <1>2 DEF Fetching
  <2>2. t.linked /\ v.at = "index" => store'[t.gen].record
      BY DEF KnowsItsCache
  <2> QED BY <2>1, <2>2 DEF Leftover
<1>13. \A g \in Generations : Leftover(store'[g]) => Leftover(store[g]) \/ Fetching(g, new)
    BY <1>1, <1>12
<1>14. Fetching(t.gen, {t}) => Fetching(t.gen, new) \/ ~Leftover(store'[t.gen])
    BY <1>12 DEF Fetching
<1>15. TellsTheTruth'
    BY DEF OfflineInv, TellsTheTruth
<1>16. \/ index' = index /\ active' = active
       \/ /\ index' = t.gen /\ \A w \in Workers : active'[w] \in {active[w], t.gen}
          /\ Rules(t.gen, new)
    OBVIOUS
<1>17. OfflineInv'
    BY <1>4, <1>7, <1>8, <1>9, <1>10, <1>11, <1>13, <1>14, <1>15, <1>16, PrepareMove
<1>18. GoodKept
    BY <1>1, <1>3, <1>4, GoodCarried
<1> QED BY <1>17, <1>18

LEMMA FetchedKeeps ==
    ASSUME OfflineInv, NEW t \in tasks, t.kind = "prepare", t.at = "fetch",
           NEW p \in t.left, Fetched(t, p)
    PROVE  OfflineInv' /\ GoodKept
<1> DEFINE left == t.left \ {p}
           stored == [t EXCEPT !.left = left]
           not_stored == [t EXCEPT !.left = left, !.failed = TRUE]
<1>1. /\ CacheTypes /\ t \in Tasks /\ Stage(t) /\ KnowsItsCache(t, store)
      /\ t.alone => KnowsItAll(t, store, index, active)
      /\ UNCHANGED <<index, worker, active, requests, told>>
    BY DEF OfflineInv, Shape, TasksInStage, CachesAsOpened, AloneKnowsAll, Fetched
<1>2. /\ t.gen \in Generations /\ t.left \subseteq PathsOf[t.gen] /\ PathsOf[t.gen] \subseteq Paths
      /\ left \subseteq PathsOf[t.gen]
    BY <1>1, ManifestAssumption DEF Stage
<1>3. left \in SUBSET (Generations \cup Paths \cup {"index"})
    BY <1>2
<1>4. CASE store' = Put(t, p, "good") /\ tasks' = (tasks \ {t}) \cup {stored}
  <2> HIDE DEF left
  <2>1. /\ stored \in Tasks /\ stored.id = t.id /\ stored.kind = t.kind /\ stored.gen = t.gen
        /\ stored.alone = t.alone /\ stored.linked = t.linked /\ stored.at = t.at
        /\ stored.left = left /\ stored.failed = t.failed /\ stored.path = t.path
      BY <1>1, <1>3, Zenon DEF Tasks
  <2> HIDE DEF stored
  <2>2. Stage(stored)
      BY <1>1, <1>2, <2>1 DEF Stage
  <2>3. CASE t.linked
    <3>1. store[t.gen] # Null /\ store' = [store EXCEPT ![t.gen].held[p] = "good"]
        BY <1>1, <1>4, <2>3 DEF Put, KnowsItsCache
    <3>2. PutIn(store', t.gen, p, "good")
      <4>1. "good" \in Entries /\ p \in Paths
          BY <1>2 DEF Entries
      <4> QED BY <1>1, <1>2, <3>1, <4>1, PutCall
    <3>3. /\ store' \in [Generations -> Contents \cup {Null}]
          /\ store'[t.gen] # Null /\ store'[t.gen].record = store[t.gen].record
          /\ store'[t.gen].held[p] = "good"
          /\ \A q \in Paths \ {p} : store'[t.gen].held[q] = store[t.gen].held[q]
          /\ \A h \in Generations \ {t.gen} : store'[h] = store[h]
        BY <3>2 DEF PutIn
    <3>4. KnowsItsCache(stored, store')
        BY <1>1, <1>2, <2>1, <3>1, <3>3 DEF KnowsItsCache, left
    <3>5. CacheTypes' /\ RecordsEarned
        BY <1>1, <1>2, <3>1, <3>3 DEF CacheTypes, RecordsEarned
    <3>6. \A g \in Generations : Grows(store[g], store'[g]) /\ Lasts(store[g], store'[g])
        BY <1>2, <3>1, <3>3 DEF Grows, Lasts
    <3>7. t.alone => GoodSoFar(stored, store'[t.gen])
        BY <1>1, <1>2, <2>1, <3>3 DEF KnowsItAll, GoodSoFar, left
    <3> QED BY <1>1, <1>4, <2>1, <2>2, <2>3, <3>3, <3>4, <3>5, <3>6, <3>7, PrepareGoesOn
  <2>4. CASE ~t.linked
    <3>1. store' = store
        BY <1>4, <2>4 DEF Put
    <3>2. KnowsItsCache(stored, store')
        BY <2>1, <2>4 DEF KnowsItsCache
    <3>3. CacheTypes' /\ RecordsEarned
        BY <1>1, <3>1 DEF CacheTypes, RecordsEarned
    <3>4. \A g \in Generations : Grows(store[g], store'[g]) /\ Lasts(store[g], store'[g])
        BY <3>1, StoreUnchanged
    <3>5. /\ \A g \in Generations \ {t.gen} : store'[g] = store[g]
          /\ ~t.alone
        BY <1>1, <2>4, <3>1 DEF KnowsItAll
    <3> QED BY <1>1, <1>4, <2>1, <2>2, <3>1, <3>2, <3>3, <3>4, <3>5, PrepareGoesOn
  <2> QED BY <2>3, <2>4
<1>5. CASE store' = store /\ tasks' = (tasks \ {t}) \cup {not_stored}
  <2> HIDE DEF left
  <2>1. /\ not_stored \in Tasks /\ not_stored.id = t.id /\ not_stored.kind = t.kind
        /\ not_stored.gen = t.gen /\ not_stored.alone = t.alone /\ not_stored.linked = t.linked
        /\ not_stored.at = t.at /\ not_stored.left = left /\ not_stored.failed
        /\ not_stored.path = t.path
      BY <1>1, <1>3, Zenon DEF Tasks
  <2> HIDE DEF not_stored
  <2>2. Stage(not_stored)
      BY <1>1, <1>2, <2>1 DEF Stage
  <2>3. KnowsItsCache(not_stored, store')
      BY <1>1, <1>5, <2>1 DEF KnowsItsCache
  <2>4. CacheTypes' /\ RecordsEarned
      BY <1>1, <1>5 DEF CacheTypes, RecordsEarned
  <2>5. \A g \in Generations : Grows(store[g], store'[g]) /\ Lasts(store[g], store'[g])
      BY <1>5, StoreUnchanged
  <2>6. /\ \A g \in Generations \ {t.gen} : store'[g] = store[g]
        /\ GoodSoFar(not_stored, store'[t.gen])
      BY <1>5, <2>1 DEF GoodSoFar
  <2> QED BY <1>1, <1>5, <2>1, <2>2, <2>3, <2>4, <2>5, <2>6, PrepareGoesOn
<1> QED BY <1>4, <1>5 DEF Fetched, Moves

LEMMA RecordsKeeps ==
    ASSUME OfflineInv, NEW t \in tasks, t.kind = "prepare", t.at = "fetch",
           t.left = {}, ~t.failed, Records(t)
    PROVE  OfflineInv' /\ GoodKept
<1> DEFINE v == [t EXCEPT !.at = "index"]
<1>1. /\ CacheTypes /\ t \in Tasks /\ Stage(t) /\ KnowsItsCache(t, store)
      /\ tasks' = (tasks \ {t}) \cup {v}
      /\ t.alone => KnowsItAll(t, store, index, active)
      /\ store' = IF t.linked THEN [store EXCEPT ![t.gen].record = TRUE] ELSE store
      /\ UNCHANGED <<index, worker, active, requests, told>>
    BY DEF OfflineInv, Shape, TasksInStage, CachesAsOpened, AloneKnowsAll, Records, Moves
<1>2. t.gen \in Generations /\ PathsOf[t.gen] \subseteq Paths
    BY <1>1, ManifestAssumption DEF Stage
<1>3. /\ v \in Tasks /\ v.id = t.id /\ v.kind = t.kind /\ v.gen = t.gen /\ v.alone = t.alone
      /\ v.linked = t.linked /\ v.at = "index" /\ v.left = t.left /\ v.failed = t.failed
      /\ v.path = t.path
    BY <1>1, Zenon DEF Tasks, Places
<1> HIDE DEF v
<1>4. Stage(v)
    BY <1>1, <1>3 DEF Stage
<1>5. CASE t.linked
  <2>1. /\ store[t.gen] # Null /\ store' = [store EXCEPT ![t.gen].record = TRUE]
        /\ \A p \in PathsOf[t.gen] : store[t.gen].held[p] # "absent"
      BY <1>1, <1>5 DEF KnowsItsCache
  <2>2. /\ store' \in [Generations -> Contents \cup {Null}]
        /\ store'[t.gen] # Null /\ store'[t.gen].record /\ store'[t.gen].held = store[t.gen].held
        /\ \A h \in Generations \ {t.gen} : store'[h] = store[h]
      BY <1>1, <1>2, <2>1, RecordCall
  <2>3. KnowsItsCache(v, store')
      BY <1>3, <2>2 DEF KnowsItsCache
  <2>4. CacheTypes' /\ RecordsEarned
      BY <1>1, <2>1, <2>2 DEF CacheTypes, RecordsEarned
  <2>5. \A g \in Generations : Grows(store[g], store'[g]) /\ Lasts(store[g], store'[g])
      BY <2>1, <2>2 DEF Grows, Lasts
  <2>6. t.alone => GoodSoFar(v, store'[t.gen])
      BY <1>1, <1>3, <2>2 DEF KnowsItAll, GoodSoFar
  <2> QED BY <1>1, <1>3, <1>4, <1>5, <2>2, <2>3, <2>4, <2>5, <2>6, PrepareGoesOn
<1>6. CASE ~t.linked
  <2>1. store' = store
      BY <1>1, <1>6
  <2>2. KnowsItsCache(v, store')
      BY <1>3, <1>6 DEF KnowsItsCache
  <2>3. CacheTypes' /\ RecordsEarned
      BY <1>1, <2>1 DEF CacheTypes, RecordsEarned
  <2>4. \A g \in Generations : Grows(store[g], store'[g]) /\ Lasts(store[g], store'[g])
      BY <2>1, StoreUnchanged
  <2>5. /\ \A g \in Generations \ {t.gen} : store'[g] = store[g]
        /\ ~t.alone
      BY <1>1, <1>6, <2>1 DEF KnowsItAll
  <2> QED BY <1>1, <1>3, <1>4, <2>1, <2>2, <2>3, <2>4, <2>5, PrepareGoesOn
<1> QED BY <1>5, <1>6

LEMMA FlipsKeeps ==
    ASSUME OfflineInv, NEW t \in tasks, t.kind = "prepare", t.at = "index", Flips(t)
    PROVE  OfflineInv' /\ GoodKept
<1> DEFINE left == Caches \ {t.gen}
           v == [t EXCEPT !.at = "sweep", !.left = left]
           new == {v}
           none == {}
<1>1. /\ CacheTypes /\ Shape /\ RecordsWhole
      /\ t \in Tasks /\ Stage(t) /\ KnowsItsCache(t, store)
      /\ t.alone => KnowsItAll(t, store, index, active)
      /\ index' = t.gen /\ active' = [active EXCEPT ![t.by] = t.gen]
      /\ tasks' = (tasks \ {t}) \cup new
      /\ UNCHANGED <<store, worker, requests, told>>
    BY DEF OfflineInv, Shape, TasksInStage, CachesAsOpened, AloneKnowsAll, Flips, Moves
<1>2. t.gen \in Generations /\ t.by \in Workers
    BY <1>1 DEF Stage, Tasks
<1>3. /\ left \in SUBSET (Generations \cup Paths \cup {"index"})
      /\ left \subseteq Generations \ {t.gen}
      /\ \A h \in Generations \ {t.gen} : Bare(store[h]) \/ h \in left
    BY DEF Caches, Bare
<1> HIDE DEF left
<1>4. /\ v \in Tasks /\ v.id = t.id /\ v.kind = t.kind /\ v.gen = t.gen /\ v.alone = t.alone
      /\ v.linked = t.linked /\ v.at = "sweep" /\ v.left = left /\ v.path = t.path
    BY <1>1, <1>3, Zenon DEF Tasks, Places
<1> HIDE DEF v
<1>5. Stage(v)
    BY <1>1, <1>3, <1>4 DEF Stage
<1>6. KnowsItsCache(v, store') /\ (v.alone => KnowsItAll(v, store', index', active'))
    BY <1>1, <1>4 DEF KnowsItsCache, KnowsItAll, GoodSoFar
<1>7. v \in new /\ \A x \in new : x = v
    OBVIOUS
<1> HIDE DEF new
<1>8. Rules(t.gen, new)
    BY <1>1, <1>3, <1>4, <1>7 DEF Rules, Sweeping
<1>9. \A g \in Generations : Grows(store[g], store'[g])
    BY <1>1, StoreUnchanged
<1>10. Carries(tasks \ {t}, none, TRUE, new)
    BY <1>1, <1>9, Moved
<1> HIDE DEF none
<1>11. /\ active' \in [Workers -> Generations \cup {Null}]
       /\ \A w \in Workers : active'[w] \in {active[w], t.gen}
    BY <1>1, <1>2 DEF CacheTypes
<1>12. CacheTypes' /\ RecordsEarned /\ TellsTheTruth'
    BY <1>1, <1>2, <1>11 DEF OfflineInv, CacheTypes, RecordsEarned, TellsTheTruth
<1>13. \A x \in new :
        /\ x \in Tasks /\ Stage(x) /\ KnowsItsCache(x, store')
        /\ x.id = t.id /\ x.kind = "prepare" /\ x.gen = t.gen /\ x.alone = t.alone
        /\ x.alone => KnowsItAll(x, store', index', active')
    BY <1>4, <1>5, <1>6, <1>7
<1>14. \A x, y \in new : x = y
    BY <1>7
<1>15. \A g \in Generations :
        /\ Bare(store[g]) => Bare(store'[g]) \/ Filling(g, new)
        /\ Leftover(store'[g]) => Leftover(store[g]) \/ Fetching(g, new)
    BY <1>1
<1>16. /\ Filling(t.gen, {t}) =>
            Filling(t.gen, new) \/ Bare(store'[t.gen]) \/ Rules(t.gen, new)
       /\ \A h \in Generations : Sweeping(t.gen, h, {t}) =>
            Sweeping(t.gen, h, new) \/ Bare(store'[t.gen]) \/ Bare(store'[h])
       /\ Fetching(t.gen, {t}) => Fetching(t.gen, new) \/ ~Leftover(store'[t.gen])
    BY <1>8 DEF Sweeping, Fetching
<1>17. OfflineInv'
    BY <1>1, <1>8, <1>10, <1>11, <1>12, <1>13, <1>14, <1>15, <1>16, PrepareMove
<1>18. GoodKept
  <2>1. index' # Null
      BY <1>1, <1>2, ManifestAssumption
  <2>2. t.alone => Complete(index)'
    <3>1. t.alone => /\ store[t.gen] # Null /\ store[t.gen].record
                     /\ \A p \in PathsOf[t.gen] : store[t.gen].held[p] = "good"
        BY <1>1 DEF KnowsItAll, KnowsItsCache, GoodSoFar
    <3> QED BY <1>1, <2>1, <3>1 DEF Complete, Stored
  <2> QED BY <2>1, <2>2 DEF GoodKept, Writes
<1> QED BY <1>17, <1>18

\* A prepare that ends, losing a cache perhaps.
LEMMA PrepareEnds ==
    ASSUME OfflineInv, NEW t \in tasks, t.kind = "prepare", NEW lost,
           Carries(tasks \ {t}, lost, TRUE, {}), CacheTypes',
           RecordsEarned, UNCHANGED <<index, active, requests>>,
           \A g \in Generations :
                /\ Bare(store[g]) => Bare(store'[g])
                /\ Leftover(store'[g]) => Leftover(store[g]),
           Bare(store'[t.gen]) \/ (t.at = "sweep" /\ t.left = {}),
           TellsTheTruth'
    PROVE  OfflineInv'
<1> DEFINE new == {}
<1>1. Carries(tasks \ {t}, lost, TRUE, new)
    OBVIOUS
<1>2. \A x \in new :
        /\ x \in Tasks /\ Stage(x) /\ KnowsItsCache(x, store')
        /\ x.id = t.id /\ x.kind = "prepare" /\ x.gen = t.gen /\ x.alone = t.alone
        /\ x.alone => KnowsItAll(x, store', index', active')
    OBVIOUS
<1>3. \A x, y \in new : x = y
    OBVIOUS
<1> HIDE DEF new
<1>4. /\ Filling(t.gen, {t}) =>
            Filling(t.gen, new) \/ Bare(store'[t.gen]) \/ Rules(t.gen, new)
      /\ \A h \in Generations : Sweeping(t.gen, h, {t}) =>
            Sweeping(t.gen, h, new) \/ Bare(store'[t.gen]) \/ Bare(store'[h])
      /\ Fetching(t.gen, {t}) => Fetching(t.gen, new) \/ ~Leftover(store'[t.gen])
    BY DEF Filling, Sweeping, Fetching, Leftover
<1>5. \/ index' = index /\ active' = active
      \/ /\ index' = t.gen /\ \A w \in Workers : active'[w] \in {active[w], t.gen}
         /\ Rules(t.gen, new)
    OBVIOUS
<1>6. \A g \in Generations :
        /\ Bare(store[g]) => Bare(store'[g]) \/ Filling(g, new)
        /\ Leftover(store'[g]) => Leftover(store[g]) \/ Fetching(g, new)
    OBVIOUS
<1> QED BY <1>1, <1>2, <1>3, <1>4, <1>5, <1>6, PrepareMove

LEMMA PreparedKeeps ==
    ASSUME OfflineInv, NEW t \in tasks, t.kind = "prepare", t.at = "sweep", t.left = {},
           Prepared(t)
    PROVE  OfflineInv' /\ GoodKept
<1> DEFINE so == Stored(t.gen, {"good"})
           none == {}
           new == {}
<1>1. /\ CacheTypes /\ Shape /\ RecordsWhole
      /\ t \in Tasks /\ Stage(t) /\ KnowsItsCache(t, store)
      /\ t.alone => KnowsItAll(t, store, index, active)
      /\ tasks' = tasks \ {t} /\ UNCHANGED <<store, index, worker, active, requests>>
      /\ told' = [what |-> "prepared", alone |-> t.alone, so |-> so]
    BY DEF OfflineInv, Shape, TasksInStage, CachesAsOpened, AloneKnowsAll, Prepared, Ends
<1>2. t.gen \in Generations /\ t.alone \in BOOLEAN
    BY <1>1 DEF Stage, Tasks
<1>3. t.alone => so
    BY <1>1, <1>2, ManifestAssumption DEF KnowsItAll, KnowsItsCache, GoodSoFar, Stored
<1>4. so \in BOOLEAN
    BY DEF Stored
<1> HIDE DEF so
<1>5. /\ told' \in [what : {"prepared", "removed", "ready"}, alone : BOOLEAN, so : BOOLEAN]
      /\ told'.what = "prepared" /\ told'.alone = t.alone /\ (t.alone => told'.so)
    BY <1>1, <1>2, <1>3, <1>4
<1>6. CacheTypes' /\ TellsTheTruth' /\ RecordsEarned
    BY <1>1, <1>5 DEF CacheTypes, Told, TellsTheTruth, RecordsEarned
<1>7. \A g \in Generations : Grows(store[g], store'[g])
    BY <1>1, StoreUnchanged
<1>8. index \notin none /\ tasks' = (tasks \ {t}) \cup new
    BY <1>1
<1> HIDE DEF new
<1>9. Carries(tasks \ {t}, none, TRUE, new)
    BY <1>1, <1>7, <1>8, Moved
<1>10. Carries(tasks \ {t}, none, TRUE, {})
    BY <1>9 DEF new
<1>11. \A g \in Generations :
        /\ Bare(store[g]) => Bare(store'[g])
        /\ Leftover(store'[g]) => Leftover(store[g])
    BY <1>1
<1> HIDE DEF none
<1>12. OfflineInv'
    BY <1>1, <1>6, <1>10, <1>11, PrepareEnds
<1>13. GoodKept
    BY <1>1, <1>8, <1>9, StoreUnchanged, GoodCarried
<1> QED BY <1>12, <1>13

LEMMA DiscardsKeeps ==
    ASSUME OfflineInv, NEW t \in tasks, t.kind = "prepare", Discards(t)
    PROVE  OfflineInv' /\ GoodKept
<1> DEFINE lost == {t.gen}
           rest == tasks \ {t}
<1>1. /\ CacheTypes /\ Shape /\ t \in Tasks /\ Stage(t) /\ tasks \in SUBSET Tasks
      /\ store' = Deleted(t.gen) /\ tasks' = Orphaned(rest, t.gen)
      /\ told' = [what |-> "unprepared"]
      /\ UNCHANGED <<index, worker, active, requests>>
    BY DEF OfflineInv, Shape, TasksInStage, Discards
<1>2. t.gen \in Generations
    BY <1>1 DEF Stage
<1>3. tasks' = {Kept(u, lost, TRUE) : u \in rest}
  <2>1. rest \in SUBSET Tasks
      BY <1>1
  <2> HIDE DEF rest
  <2>2. Orphaned(rest, t.gen) = {Kept(u, {t.gen}, TRUE) : u \in rest}
      BY <2>1, OrphanedForm
  <2> QED BY <1>1, <2>2
<1>4. \A h \in Generations : IF h \in lost THEN store'[h] = Null ELSE Grows(store[h], store'[h])
    BY <1>1, <1>2, DeleteCall DEF Grows
<1>5. Carries(tasks \ {t}, lost, TRUE, {})
    BY <1>2, <1>3, <1>4 DEF Carries
<1>6. index # t.gen => index \notin lost
    OBVIOUS
<1> HIDE DEF lost, rest
<1>7. /\ RecordsEarned /\ Bare(store'[t.gen])
      /\ \A g \in Generations :
            /\ Bare(store[g]) => Bare(store'[g])
            /\ Leftover(store'[g]) => Leftover(store[g])
    BY <1>1, <1>2, StoreDeleted DEF Bare
<1>8. CacheTypes' /\ TellsTheTruth'
    BY <1>1, <1>2, DeleteCall DEF CacheTypes, Told, TellsTheTruth
<1>9. OfflineInv'
    BY <1>1, <1>5, <1>7, <1>8, PrepareEnds
<1>10. GoodKept
  <2>1. CASE index = t.gen
      BY <2>1 DEF GoodKept
  <2>2. CASE index # t.gen
    <3> DEFINE new == {}
    <3>1. Carries(tasks \ {t}, lost, TRUE, new)
        BY <1>5
    <3> HIDE DEF new
    <3>2. index \in Generations => Lasts(store[index], store'[index])
        BY <1>1, <1>2, <2>2, DeleteCall DEF Lasts
    <3> QED BY <1>1, <1>6, <2>2, <3>1, <3>2, GoodCarried
  <2> QED BY <2>1, <2>2
<1> QED BY <1>9, <1>10

LEMMA PrepareDeletes ==
    ASSUME OfflineInv, NEW t \in tasks, t.kind = "prepare", NEW n \in t.left, DeletesNext(t, n)
    PROVE  OfflineInv' /\ GoodKept
<1> DEFINE lost == {n}
<1>1. /\ CacheTypes /\ Shape /\ t \in Tasks /\ Stage(t) /\ KnowsItsCache(t, store)
      /\ t.alone => KnowsItAll(t, store, index, active)
      /\ t.at \in {"sweep", "page_sweep"}
    BY DEF OfflineInv, Shape, TasksInStage, CachesAsOpened, AloneKnowsAll, DeletesNext
<1>2. /\ t.at = "sweep" /\ t.gen \in Generations /\ t.left \subseteq Generations \ {t.gen}
      /\ n \in Generations /\ n # t.gen
    BY <1>1 DEF Stage
<1>3. /\ store' = Deleted(n) /\ UNCHANGED <<index, worker, active, requests, told>>
      /\ \E w \in Tasks : SweepsOn(t, n, w)
    BY <1>1, <1>2, DeletedNext
<1>4. PICK w \in Tasks :
        /\ Carries(tasks \ {t}, lost, TRUE, {w})
        /\ w.id = t.id /\ w.kind = t.kind /\ w.at = t.at /\ w.gen = t.gen
        /\ w.path = t.path /\ w.left = t.left \ {n} /\ w.failed = t.failed /\ w.alone = t.alone
        /\ w.linked <=> t.linked /\ t.gen # n
    BY <1>3 DEF SweepsOn
<1> DEFINE new == {w}
<1>5. /\ RecordsEarned
      /\ \A g \in Generations :
            /\ Bare(store[g]) => Bare(store'[g])
            /\ Leftover(store'[g]) => Leftover(store[g])
      /\ \A g \in Generations : g # n => store'[g] = store[g]
      /\ store'[n] = Null
    BY <1>1, <1>2, <1>3, StoreDeleted
<1>6. Stage(w)
    BY <1>1, <1>2, <1>4 DEF Stage
<1>7. KnowsItsCache(w, store') /\ (w.alone => KnowsItAll(w, store', index', active'))
    BY <1>1, <1>2, <1>3, <1>4, <1>5 DEF KnowsItsCache, KnowsItAll, GoodSoFar
<1>8. w \in new /\ \A x \in new : x = w
    OBVIOUS
<1>9. Carries(tasks \ {t}, lost, TRUE, new)
    BY <1>4
<1> HIDE DEF new, lost
<1>10. \A x \in new :
        /\ x \in Tasks /\ Stage(x) /\ KnowsItsCache(x, store')
        /\ x.id = t.id /\ x.kind = "prepare" /\ x.gen = t.gen /\ x.alone = t.alone
        /\ x.alone => KnowsItAll(x, store', index', active')
    BY <1>4, <1>6, <1>7, <1>8
<1>11. \A x, y \in new : x = y
    BY <1>8
<1>12. \A h \in Generations : Sweeping(t.gen, h, {t}) =>
            Sweeping(t.gen, h, new) \/ Bare(store'[t.gen]) \/ Bare(store'[h])
    BY <1>2, <1>4, <1>5, <1>8 DEF Sweeping, Bare
<1>13. /\ Filling(t.gen, {t}) =>
            Filling(t.gen, new) \/ Bare(store'[t.gen]) \/ Rules(t.gen, new)
       /\ Fetching(t.gen, {t}) => Fetching(t.gen, new) \/ ~Leftover(store'[t.gen])
    BY <1>2 DEF Filling, Fetching
<1>14. CacheTypes' /\ TellsTheTruth'
    BY <1>1, <1>2, <1>3, DeleteCall DEF OfflineInv, CacheTypes, TellsTheTruth
<1>15. \/ index' = index /\ active' = active
       \/ /\ index' = t.gen /\ \A x \in Workers : active'[x] \in {active[x], t.gen}
          /\ Rules(t.gen, new)
    BY <1>3
<1>16. \A g \in Generations :
        /\ Bare(store[g]) => Bare(store'[g]) \/ Filling(g, new)
        /\ Leftover(store'[g]) => Leftover(store[g]) \/ Fetching(g, new)
    BY <1>5
<1>17. OfflineInv'
    BY <1>3, <1>5, <1>9, <1>10, <1>11, <1>12, <1>13, <1>14, <1>15, <1>16, PrepareMove
<1>18. GoodKept
  <2>1. t.alone => index = t.gen /\ index' = index /\ store'[index] = store[index]
      BY <1>1, <1>2, <1>3, <1>5 DEF KnowsItAll
  <2> QED BY <2>1 DEF GoodKept, Writes, Complete, Stored
<1> QED BY <1>17, <1>18

(***************************************************************************)
(* The invariant, and what it says of the properties.                      *)
(***************************************************************************)
LEMMA OfflineStarts == OfflineInit => OfflineInv
<1> SUFFICES ASSUME OfflineInit PROVE OfflineInv
    OBVIOUS
<1>1. /\ store = [g \in Generations |-> Null] /\ index = Null /\ worker = 1
      /\ active = [w \in Workers |-> Null] /\ tasks = {} /\ requests = 0
      /\ told = [what |-> "nothing"]
    BY DEF OfflineInit
<1>2. CacheTypes
    BY <1>1, BoundsAssumption DEF CacheTypes, Workers, Told
<1>3. Shape
    BY <1>1 DEF Shape, TasksInStage, OneTimedOut, CachesAsOpened, RecordsWhole, AloneIsAlone
<1>4. AloneKnowsAll /\ OneIsStocked /\ LeftoversForgotten
    BY <1>1 DEF AloneKnowsAll, OneIsStocked, LeftoversForgotten, Bare
<1>5. TellsTheTruth
    BY <1>1 DEF TellsTheTruth
<1> QED BY <1>2, <1>3, <1>4, <1>5 DEF OfflineInv

LEMMA DeletesNextKeeps ==
    ASSUME OfflineInv, NEW t \in tasks, NEW n \in t.left, DeletesNext(t, n)
    PROVE  OfflineInv' /\ GoodKept
<1>1. t \in Tasks /\ Stage(t) /\ t.at \in {"sweep", "page_sweep"}
    BY DEF OfflineInv, Shape, TasksInStage, DeletesNext
<1>2. t.kind \in {"prepare", "remove", "late_remove", "activate"}
    BY <1>1 DEF Tasks, Kinds, Stage
<1> QED BY <1>2, PrepareDeletes, SweeperDeletes

LEMMA OfflineSteps == OfflineInv /\ [OfflineNext]_offlineVars => OfflineInv' /\ GoodKept
<1> SUFFICES ASSUME OfflineInv, [OfflineNext]_offlineVars PROVE OfflineInv' /\ GoodKept
    OBVIOUS
<1>1. CASE \E g \in Generations : Prepare(g) \/ Evicts(g)
    BY <1>1, PrepareBegins, EvictsKeeps
<1>2. CASE RemoveCopies \/ NewWorker \/ Stops
    BY <1>2, RemoveBegins, NewWorkerKeeps, StopsKeeps
<1>3. CASE Status \/ \E p \in Paths : Fetch(p)
    BY <1>3, ServeBegins
<1>4. CASE \E g \in Generations, p \in Paths : Corrupts(g, p)
    BY <1>4, CorruptsKeeps
<1>5. ASSUME NEW t \in tasks, PrepareStep(t)
      PROVE  OfflineInv' /\ GoodKept
    BY <1>5, FetchedKeeps, RecordsKeeps, FlipsKeeps, PreparedKeeps, DiscardsKeeps
        DEF PrepareStep, Throws
<1>6. ASSUME NEW t \in tasks, RemoveStep(t)
      PROVE  OfflineInv' /\ GoodKept
  <2>1. t.kind \in {"remove", "late_remove"}
      BY <1>6 DEF RemoveStep
  <2>2. CASE t.at = "sweep" /\ t.left = {} /\ WorkerRemoved(t)
      BY <2>1, <2>2, WorkerRemovedKeeps
  <2>3. CASE t.at = "sweep" /\ t.kind = "remove" /\ RemoveTimesOut(t)
      BY <2>3, RemoveTimesOutKeeps
  <2>4. CASE t.at = "page_sweep" /\ t.left = {} /\ Removed(t)
      BY <2>1, <2>4, RemovedKeeps
  <2> QED BY <1>6, <2>2, <2>3, <2>4 DEF RemoveStep
<1>7. ASSUME NEW t \in tasks, ActivateEnds(t) \/ Has(t) \/ Matches(t) \/ Verifies(t) \/ ReadsKeys(t)
      PROVE  OfflineInv' /\ GoodKept
    BY <1>7, ActivateEndsKeeps, HasKeeps, MatchesKeeps, VerifiesKeeps, ReadsKeysKeeps
<1>8. ASSUME NEW t \in tasks, LoadsIndex(t) \/ LoadsRecord(t)
      PROVE  OfflineInv' /\ GoodKept
  <2>1. t \in Tasks /\ Stage(t) /\ t.at \in {"load", "record"}
      BY <1>8 DEF OfflineInv, Shape, TasksInStage, LoadsIndex, LoadsRecord
  <2>2. t.kind \in {"fetch", "status", "activate"}
      BY <2>1 DEF Tasks, Kinds, Stage
  <2> QED BY <1>8, <2>2, ReaderLoadsIndex, ReaderLoadsRecord, ActivationLoads, ActivationSweeps
<1>9. CASE UNCHANGED offlineVars
  <2>1. UNCHANGED <<store, index, worker, active, tasks, requests, told>>
      BY <1>9 DEF offlineVars
  <2>2. CacheTypes' /\ Shape'
      BY <2>1 DEF OfflineInv, CacheTypes, Shape, TasksInStage, OneTimedOut, CachesAsOpened,
                  RecordsWhole, Whole, AloneIsAlone
  <2>3. AloneKnowsAll' /\ OneIsStocked' /\ LeftoversForgotten'
      BY <2>1 DEF OfflineInv, AloneKnowsAll, OneIsStocked, LeftoversForgotten
  <2>4. TellsTheTruth'
      BY <2>1 DEF OfflineInv, TellsTheTruth
  <2>5. GoodKept
      BY <2>1 DEF GoodKept, Complete, Stored
  <2> QED BY <2>2, <2>3, <2>4, <2>5 DEF OfflineInv
<1> QED BY <1>1, <1>2, <1>3, <1>4, <1>5, <1>6, <1>7, <1>8, <1>9, DeletesNextKeeps DEF OfflineNext

\* Whatever prepares, removals, requests, evictions and worker updates overlap,
\* the invariant holds: every task is where its kind can be and knows what it
\* wrote, and at most one generation that may be current has anything stored.
THEOREM OfflineInvariance == OfflineSpec => []OfflineInv
<1>1. OfflineInit => OfflineInv
    BY OfflineStarts
<1>2. OfflineInv /\ [OfflineNext]_offlineVars => OfflineInv'
    BY OfflineSteps
<1> QED BY <1>1, <1>2, PTL DEF OfflineSpec

\* A manifest record is there only with an entry for every path, or the trace
\* of one that a fetch found wrong and deleted; and a page was told the truth
\* when it heard "prepared" (every byte the right one), "ready" (bytes for every
\* path) or "removed", if no other writer, eviction or corruption overlapped its
\* request (sw.js, offline/README.md).
THEOREM CopiesStaySound == OfflineSpec => []CopiesAreSound
<1>1. OfflineInv => CopiesAreSound
  <2> SUFFICES ASSUME OfflineInv PROVE CopiesAreSound
      OBVIOUS
  <2>1. CacheTypes /\ OneTimedOut /\ RecordsWhole /\ TellsTheTruth
      BY DEF OfflineInv, Shape
  <2>2. \A t, u \in tasks : t.id = u.id => t.kind # u.kind \/ t = u
      BY <2>1 DEF OneTimedOut, TimedOut
  <2>3. OfflineTypeOK
      BY <2>1, <2>2 DEF OfflineTypeOK, CacheTypes
  <2>4. NeverHalfStored
      BY <2>1, <2>3 DEF NeverHalfStored, RecordsWhole
  <2> QED BY <2>1, <2>4 DEF CopiesAreSound
<1> QED BY <1>1, OfflineInvariance, PTL

\* While one prepare, of the current or of another generation, or one worker
\* update is under way alone, no step loses the complete current copy without a
\* complete one in its place, except that a failing prepare deletes the very
\* generation the index points at (sw.js: the previous good generation stays).
THEOREM GoodGenerationSurvives == OfflineSpec => GoodGenerationKept
<1>1. OfflineInv /\ [OfflineNext]_offlineVars => [GoodKept]_offlineVars
    BY OfflineSteps
<1>2. OfflineSpec => [][GoodKept]_offlineVars
    BY <1>1, OfflineInvariance, PTL DEF OfflineSpec
<1> QED BY <1>2 DEF GoodGenerationKept, GoodKept
=============================================================================
