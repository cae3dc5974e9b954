---------------------------- MODULE ModelAssets ----------------------------
(***************************************************************************)
(* The OCR model's bytes (packages/readers-tesseract, model-cache.ts):      *)
(* preparations probe the persistent cache, download, verify and commit;    *)
(* "Remove downloaded OCR data" can come at any of their awaits.  The       *)
(* reader's scopes (module OcrReader) have a newer preparation abort the    *)
(* older ones.  Store requests are answered in the order they are made, and *)
(* whoever made one goes on when it is answered.                            *)
(***************************************************************************)
EXTENDS Naturals, Sequences

CONSTANTS
    MaxPreparations,    \* bound of the model: calls of prepare()
    MaxRemovals         \* bound of the model: calls of remove()

ASSUME ModelAssumption == {MaxPreparations, MaxRemovals} \subseteq Nat

VARIABLES
    preparations,   \* the calls of prepare(), in order
    store,          \* requests to the key-value store, oldest first
    cache,          \* the slot: "none", "good" or "bad" bytes
    memory,         \* this.verifiedBytes: "none", "good" or "bad"
    modelState,     \* this.state
    epoch,          \* this.epoch
    removedAt       \* (observer) how many preparations had begun when the last
                    \* remove() did, unless it could not delete the slot

modelAssetVars ==
    <<preparations, store, cache, memory, modelState, epoch, removedAt>>

Bytes == {"good", "bad"}

\* An earlier visit may have left any bytes in the slot.
ModelAssetsInit ==
    /\ preparations = <<>> /\ store = <<>>
    /\ cache \in Bytes \cup {"none"}
    /\ memory = "none" /\ modelState = "not_prepared" /\ epoch = 0
    /\ removedAt = {}

\* Mutant: the operation's signal is not looked at.
AliveEpoch(p) == preparations[p].epoch = epoch

\* alive(): neither invalidated by a remove() nor aborted by its operation.
Alive(p) == preparations[p].epoch = epoch /\ ~preparations[p].aborted

At(p, pc) == preparations' = [preparations EXCEPT ![p].pc = pc]

Ask(kind, who) == store' = Append(store, [kind |-> kind, by |-> who])

\* The preparation is dead, or fails without touching anything shared.
Dies(p) ==
    /\ At(p, "ended")
    /\ UNCHANGED <<cache, memory, modelState>>

\* prepare() up to its first await; bytes in memory are used at once.
Prepare ==
    LET p == Len(preparations) + 1
        begun(pc) ==
            [q \in 1..p |-> IF q = p THEN [pc |-> pc, epoch |-> epoch, aborted |-> FALSE]
                            ELSE [preparations[q] EXCEPT !.aborted = TRUE]]
    IN  /\ p <= MaxPreparations
        /\ \/ /\ memory # "none"
              /\ preparations' = begun("ended") /\ modelState' = "ready_memory"
              /\ UNCHANGED store
           \/ /\ memory = "none"
              /\ preparations' = begun("get") /\ Ask("get", p)
              /\ UNCHANGED modelState
        /\ UNCHANGED <<cache, memory, epoch, removedAt>>

Downloads(p) == At(p, "fetch") /\ modelState' = "downloading"

\* The slot is read: verified bytes are used, mismatched ones are deleted.
Got(p) ==
    \/ /\ ~Alive(p)
       /\ Dies(p) /\ store' = Tail(store)
    \/ /\ Alive(p) /\ cache = "good"
       /\ At(p, "ended") /\ memory' = cache /\ modelState' = "ready_cached"
       /\ store' = Tail(store) /\ UNCHANGED cache
    \/ /\ Alive(p) /\ cache = "bad"
       /\ At(p, "del") /\ store' = Append(Tail(store), [kind |-> "del", by |-> p])
       /\ UNCHANGED <<cache, memory, modelState>>
    \/ /\ Alive(p) /\ cache = "none"
       /\ Downloads(p) /\ store' = Tail(store)
       /\ UNCHANGED <<cache, memory>>

\* The mismatched entry is gone; a fresh download follows.
Deleted(p) ==
    /\ cache' = "none" /\ store' = Tail(store)
    /\ \/ Alive(p) /\ Downloads(p)
       \/ ~Alive(p) /\ At(p, "ended") /\ UNCHANGED modelState
    /\ UNCHANGED memory

\* The write of verified bytes is in the slot; one that died meanwhile asks
\* for them to be deleted again.
Committed(p) ==
    /\ cache' = "good"
    /\ \/ /\ Alive(p)
          /\ At(p, "ended") /\ memory' = "good" /\ modelState' = "ready_memory"
          /\ store' = Tail(store)
       \/ /\ ~Alive(p)
          /\ At(p, "undo") /\ store' = Append(Tail(store), [kind |-> "del", by |-> p])
          /\ UNCHANGED <<memory, modelState>>

Undone(p) ==
    /\ cache' = "none" /\ store' = Tail(store)
    /\ At(p, "ended") /\ UNCHANGED <<memory, modelState>>

\* The store fails: an optional cache that is not there.
StoreFails(p) ==
    /\ store' = Tail(store)
    /\ \/ ~Alive(p) /\ Dies(p)
       \/ /\ preparations[p].pc \in {"get", "del"} /\ Alive(p)
          /\ Downloads(p) /\ UNCHANGED <<cache, memory>>
       \/ /\ preparations[p].pc = "set" /\ Alive(p)
          /\ At(p, "ended") /\ memory' = "good" /\ modelState' = "ready_memory"
          /\ UNCHANGED cache

\* The store answers its oldest request; remove() made those of nobody (0).
StoreAnswers ==
    /\ store # <<>>
    /\ LET p == Head(store).by
       IN  \/ /\ p # 0
              /\ \/ preparations[p].pc = "get" /\ Got(p)
                 \/ preparations[p].pc = "del" /\ Deleted(p)
                 \/ preparations[p].pc = "set" /\ Committed(p)
                 \/ preparations[p].pc = "undo" /\ Undone(p)
                 \/ StoreFails(p)
              /\ UNCHANGED removedAt
           \/ /\ p = 0
              /\ store' = Tail(store) /\ modelState' = "not_prepared"
              /\ \/ cache' = "none" /\ UNCHANGED removedAt
                 \/ removedAt' = {} /\ UNCHANGED cache
              /\ UNCHANGED <<preparations, memory>>
    /\ UNCHANGED epoch

\* The download is answered, or fails on line or off line.
Fetched(p) ==
    /\ preparations[p].pc = "fetch"
    /\ \/ ~Alive(p) /\ Dies(p)
       \/ /\ Alive(p)
          /\ At(p, "body") /\ modelState' = "verifying"
          /\ UNCHANGED <<cache, memory>>
       \/ /\ Alive(p)
          /\ At(p, "ended")
          /\ modelState' \in {"not_prepared", "unavailable_offline"}
          /\ UNCHANGED <<cache, memory>>
    /\ UNCHANGED <<store, epoch, removedAt>>

\* The body is there and verified; its write to the cache is asked for.
BodyRead(p) ==
    /\ preparations[p].pc = "body"
    /\ \/ Dies(p) /\ UNCHANGED store
       \/ /\ Alive(p)
          /\ At(p, "ended") /\ modelState' = "failed_integrity"
          /\ UNCHANGED <<store, cache, memory>>
       \/ /\ Alive(p)
          /\ At(p, "set") /\ Ask("set", p)
          /\ UNCHANGED <<cache, memory, modelState>>
    /\ UNCHANGED <<epoch, removedAt>>

\* The operation the preparation serves was closed, cancelled or too late.
AbortPreparation(p) ==
    /\ preparations[p].pc # "ended" /\ ~preparations[p].aborted
    /\ preparations' = [preparations EXCEPT ![p].aborted = TRUE]
    /\ UNCHANGED <<store, cache, memory, modelState, epoch, removedAt>>

\* Mutant: preparations under way are not invalidated.
RemoveQuietly ==
    /\ epoch < MaxRemovals
    /\ epoch' = epoch /\ memory' = "none" /\ Ask("del", 0)
    /\ removedAt' = {Len(preparations)}
    /\ UNCHANGED <<preparations, cache, modelState>>

\* remove(): invalidate every preparation first, then delete.
Remove ==
    /\ epoch < MaxRemovals
    /\ epoch' = epoch + 1 /\ memory' = "none" /\ Ask("del", 0)
    /\ removedAt' = {Len(preparations)}
    /\ UNCHANGED <<preparations, cache, modelState>>

ModelAssetsNext ==
    \/ Prepare \/ StoreAnswers \/ Remove
    \/ \E p \in DOMAIN preparations : Fetched(p) \/ BodyRead(p) \/ AbortPreparation(p)

(***************************************************************************)
(* Properties.                                                             *)
(***************************************************************************)

Removing == \E i \in DOMAIN store : store[i].by = 0

\* Removed model data stays removed: once remove() is done and until somebody
\* prepares again, neither memory nor the cache holds it, whatever download or
\* write was under way.
ModelStaysRemoved ==
    ~Removing /\ Len(preparations) \in removedAt =>
        memory = "none" /\ cache = "none"

\* The state shown says whether verified bytes are at hand: a dead preparation
\* publishes nothing over a newer one, and no mismatched bytes are ever ready.
ReadyHasBytes ==
    ~Removing => (modelState \in {"ready_memory", "ready_cached"} <=> memory = "good")

\* The state the workspace shows tells what the store and the memory hold.
ModelStateIsTrue == ModelStaysRemoved /\ ReadyHasBytes
=============================================================================
