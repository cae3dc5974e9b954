--------------------------- MODULE RunLifecycle ---------------------------
(***************************************************************************)
(* What the file lifecycle promises to whoever holds something of a file:  *)
(* generation first.  While a generation lasts, its document stays what it *)
(* is and what it owns only grows; a document is replaced or dropped, and  *)
(* its resources are released, only by retiring the generation.            *)
(***************************************************************************)
EXTENDS Naturals

CONSTANT NoDoc

VARIABLES fileState, generation, document, owned

lifeVars == <<fileState, generation, document, owned>>

\* The states in the order a file goes through them before any run.
Rank == [idle |-> 0, validating_file |-> 1, loading_metadata |-> 2, selecting |-> 3]

Ended == {"complete", "partial", "failed", "cancelled"}

\* What a run may do to the state of its file.
RunMoves ==
    ({"selecting"} \X {"preparing_assets", "running"})
        \cup {<<"preparing_assets", "running">>}
        \cup ({"running"} \X Ended)
        \cup (Ended \X {"selecting"})

LifeInit ==
    fileState = "idle" /\ generation = 0 /\ document = NoDoc /\ owned = {}

\* The file comes closer to selection; it has no document before that.
Advance ==
    /\ {fileState, fileState'} \subseteq DOMAIN Rank
    /\ Rank[fileState] <= Rank[fileState']
    /\ owned \subseteq owned'
    /\ \/ document' = document
       \/ document = NoDoc /\ fileState # "selecting" /\ fileState' = "selecting"
    /\ UNCHANGED generation

\* Something is handed over for the file, whatever happens to it meanwhile.
Hold ==
    /\ owned \subseteq owned'
    /\ UNCHANGED <<fileState, generation, document>>

\* A run goes on; starting and cancelling one opens a new generation.
Work ==
    /\ <<fileState, fileState'>> \in RunMoves
    /\ generation' \in {generation, generation + 1}
    /\ UNCHANGED <<document, owned>>

\* The generation ends, and with it everything it owned.
Retire ==
    /\ generation' > generation
    /\ owned' \cap owned = {}
    /\ fileState' \in DOMAIN Rank
    /\ fileState' # "selecting" => document' = NoDoc

LifeSpec == LifeInit /\ [][Advance \/ Hold \/ Work \/ Retire]_lifeVars
=============================================================================
