---------------------------- MODULE NativeParts ----------------------------
(***************************************************************************)
(* The parts of the native side beside the supervisor, of which a behaviour *)
(* explores one: baseline creation, the exchange with the comparator, a     *)
(* profile's worker, the comparison of stored runs, the readers' walks over  *)
(* a page, and the commands that inspect, replay and pair.                  *)
(***************************************************************************)
EXTENDS Baselines, CompareBridge, Comparison, NativeReaders, ProfileWorker, NativeInspect

VARIABLE part   \* the part this behaviour explores

NoExchange == unsent = 1 /\ BridgeInit
NoComparison == asked = NoReport /\ stage = "ended" /\ outcome = <<>> /\ verdict = NoVerdict
NoReading == reading = NoEnding /\ cursor = 0 /\ walk = EmptyWalk /\ crop = NoCrop /\ stop = FALSE /\ ending = NoEnding
NoInspection ==
    /\ disk = [path \in {"source", "a", "b"} |-> Nothing] /\ installed = [n \in Allowlisted \cup {"isolated"} |-> 1]
    /\ pairing = NoPairing /\ last = NoCommand /\ commands = 0

NativeInit ==
    /\ BaselinesInit /\ WorkerInit
    /\ \/ part \in {"baselines", "worker"} /\ NoExchange /\ NoComparison /\ NoReading /\ NoInspection
       \/ part = "bridge" /\ BridgeInit /\ NoComparison /\ NoReading /\ NoInspection
       \/ part = "compare" /\ CompareInit /\ NoExchange /\ NoReading /\ NoInspection
       \/ part = "reading" /\ ReadersInit /\ NoExchange /\ NoComparison /\ NoInspection
       \/ part = "inspect" /\ InspectInit /\ NoExchange /\ NoComparison /\ NoReading

Bridging(A) ==
    /\ part = "bridge" /\ A
    /\ UNCHANGED <<part, baselineVars, compareVars, readerVars, workerVars, inspectVars>>

WorkerOnly(A) ==
    /\ part = "worker" /\ A
    /\ UNCHANGED <<part, baselineVars, bridgeVars, compareVars, readerVars, inspectVars>>

NativeNext ==
    \/ Bridging(BridgeNext) \/ WorkerOnly(WorkerNext)
    \/ /\ part = "baselines" /\ BaselinesNext
       /\ UNCHANGED <<part, bridgeVars, compareVars, readerVars, workerVars, inspectVars>>
    \/ /\ part = "compare" /\ CompareNext
       /\ UNCHANGED <<part, baselineVars, bridgeVars, readerVars, workerVars, inspectVars>>
    \/ /\ part = "reading" /\ ReadersNext
       /\ UNCHANGED <<part, baselineVars, bridgeVars, compareVars, workerVars, inspectVars>>
    \/ /\ part = "inspect" /\ InspectNext
       /\ UNCHANGED <<part, baselineVars, bridgeVars, compareVars, readerVars, workerVars>>

nativeVars == <<part, baselineVars, bridgeVars, compareVars, readerVars, workerVars, inspectVars>>

\* The fairness of BridgeSpec and WorkerSpec.
NativeFairness ==
    /\ WF_nativeVars(Bridging(Parent)) /\ WF_nativeVars(Bridging(DeadlinePasses))
    /\ WF_nativeVars(WorkerOnly(Supervise)) /\ WF_nativeVars(WorkerOnly(WorkerDeadline))
    /\ \A s \in Outputs : WF_nativeVars(WorkerOnly(DrainStream(s)))

NativeSpec == NativeInit /\ [][NativeNext]_nativeVars /\ NativeFairness

---------------------------------------------------------------------------
(***************************************************************************)
(* What the comparator and a profile's worker answer is believed only       *)
(* whole and of a process that ended well. Neither the comparator, which    *)
(* starts no process of its own, nor any process of a worker outlives its   *)
(* request, unless the parent was interrupted while it waited.              *)
(***************************************************************************)
ProcessesAreClean == ExchangeIsClean /\ WorkerIsNotTrusted

(***************************************************************************)
(* Neither the comparator nor a worker holds the caller for ever.           *)
(***************************************************************************)
ProcessesEnd == (part = "bridge" => ExchangeEnds) /\ (part = "worker" => WorkerEnds)
=============================================================================
