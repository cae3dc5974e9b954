---------------------------- MODULE CompareBridge ----------------------------
(***************************************************************************)
(* One exchange with the shared comparator: native/inkflip/compare_bridge.py *)
(* starts a Node process (packages/compare/node/bridge.mjs), writes one     *)
(* request, reads one response and one stream of diagnostics, all within a  *)
(* deadline and byte caps, and decides what the answer is worth.            *)
(*                                                                         *)
(* Bytes are counted in chunks. A parent action is one round of the        *)
(* selector loop on one stream; the child acts between any two of them and  *)
(* may die, hang or flood at any time.                                     *)
(***************************************************************************)
EXTENDS Naturals

CONSTANTS RequestChunks, MaxRequest, \* the request and max_request_bytes
          MaxResponse, MaxDiagnostic, \* max_response_bytes, max_stderr_bytes
          MaxStdin,                   \* LIMITS.maxStdinBytes of the entrypoint
          PipeSize                    \* chunks a pipe holds

ASSUME BridgeAssumption ==
    /\ RequestChunks \subseteq Nat \ {0}
    /\ {MaxRequest, MaxResponse, MaxDiagnostic, MaxStdin, PipeSize} \subseteq Nat \ {0}

VARIABLES phase,     \* where _exchange is
          unsent,    \* chunks of the request still to be written
          open,      \* streams registered with the selector
          received,  \* chunks counted on stdout and stderr
          answer,    \* how the exchange ended
          late,      \* the wall deadline has passed
          scratch,   \* the private directory exists
          child,     \* the Node process
          pipes      \* chunks in flight on each stream

bridgeVars == <<phase, unsent, open, received, answer, late, scratch, child, pipes>>

Streams == {"stdin", "stdout", "stderr"}
Replies == {"none", "result", "refusal", "broken"}
Typed == {"request_too_large", "capability", "spawn_error", "timeout", "output_limit",
          "crash", "exit", "protocol_error", "remote_error"}

\* The child: alive or how it ended, what it read, the reply it makes of the request
\* (broken: not one whole envelope), and what it has still to write of it.
NoChild == [life |-> "none", read |-> 0, reply |-> "none", left |-> 0]

BridgeInit ==
    /\ phase = "ready" /\ answer = "none"
    /\ unsent \in RequestChunks
    /\ open = {} /\ received = [s \in {"stdout", "stderr"} |-> 0]
    /\ late = FALSE /\ scratch = FALSE
    /\ child = NoChild
    /\ pipes = [s \in Streams |-> 0]

Alive == child.life = "running"

\* SIGKILL to the whole group, and the leader is reaped.
KillGroup == child' = IF Alive THEN [child EXCEPT !.life = "killed"] ELSE child

\* Whatever ends the exchange passes the two finally blocks.
End(reason) ==
    /\ phase' = "ended" /\ answer' = reason
    /\ open' = {} /\ scratch' = FALSE

----------------------------------------------------------------------------
(***************************************************************************)
(* The parent.                                                             *)
(***************************************************************************)
RefuseRequest ==
    /\ phase = "ready" /\ unsent > MaxRequest
    /\ End("request_too_large")
    /\ UNCHANGED <<unsent, received, late, child, pipes>>

SpawnFails ==
    /\ phase = "ready" /\ unsent <= MaxRequest
    /\ \E reason \in {"capability", "spawn_error"} : End(reason)
    /\ UNCHANGED <<unsent, received, late, child, pipes>>

Spawn ==
    /\ phase = "ready" /\ unsent <= MaxRequest
    /\ phase' = "pumping" /\ open' = Streams /\ scratch' = TRUE
    /\ child' = [NoChild EXCEPT !.life = "running"]
    /\ UNCHANGED <<unsent, received, answer, late, pipes>>

\* A write to a pipe nobody reads fails, and the stream is closed as after the last chunk.
WriteRequest ==
    /\ phase = "pumping" /\ ~late /\ "stdin" \in open
    /\ \/ /\ Alive /\ child.reply = "none" /\ pipes["stdin"] < PipeSize
          /\ unsent' = unsent - 1
          /\ pipes' = [pipes EXCEPT !["stdin"] = @ + 1]
          /\ open' = IF unsent = 1 THEN open \ {"stdin"} ELSE open
       \/ /\ ~Alive \/ child.reply # "none"
          /\ open' = open \ {"stdin"}
          /\ UNCHANGED <<unsent, pipes>>
    /\ UNCHANGED <<phase, received, answer, late, scratch, child>>

CapOf(s) == IF s = "stdout" THEN MaxResponse ELSE MaxDiagnostic

\* A chunk is counted; over the cap the group is killed. The end of a stream unregisters it.
ReadStream(s) ==
    /\ phase = "pumping" /\ ~late /\ s \in open
    /\ \/ /\ pipes[s] > 0
          /\ pipes' = [pipes EXCEPT ![s] = @ - 1]
          /\ received' = [received EXCEPT ![s] = @ + 1]
          /\ IF received[s] + 1 > CapOf(s)
             THEN KillGroup /\ End("output_limit")
             ELSE UNCHANGED <<phase, answer, open, scratch, child>>
       \/ /\ pipes[s] = 0 /\ ~Alive
          /\ open' = open \ {s}
          /\ UNCHANGED <<phase, received, answer, scratch, child, pipes>>
    /\ UNCHANGED <<unsent, late>>

TimesOut ==
    /\ phase \in {"pumping", "waiting"} /\ late
    /\ KillGroup /\ End("timeout")
    /\ UNCHANGED <<unsent, received, late, pipes>>

PumpDone ==
    /\ phase = "pumping" /\ open = {}
    /\ phase' = "waiting"
    /\ UNCHANGED <<unsent, open, received, answer, late, scratch, child, pipes>>

\* A decoder that takes what came.
DecodeHasty == IF child.reply \in {"result", "none"} THEN "result" ELSE "remote_error"

\* _decode: an envelope with ok, and exactly the chunks of it.
Decode ==
    CASE child.reply = "result" /\ child.left = 0 -> "result"
      [] child.reply = "refusal" /\ child.left = 0 -> "remote_error"
      [] OTHER -> "protocol_error"

\* The return code is looked at before the bytes are.
Judge ==
    /\ phase = "waiting" /\ ~Alive
    /\ End(CASE child.life \in {"crashed", "killed"} -> "crash"
             [] child.life = "failed" -> "exit"
             [] child.life = "exited" -> Decode)
    /\ UNCHANGED <<unsent, received, late, child, pipes>>

\* KeyboardInterrupt in the loop: the streams are closed, nobody kills the child.
Interrupted ==
    /\ phase \in {"pumping", "waiting"}
    /\ End("interrupted")
    /\ UNCHANGED <<unsent, received, late, child, pipes>>

----------------------------------------------------------------------------
(***************************************************************************)
(* The child and the clock.                                                *)
(***************************************************************************)
ChildReads ==
    /\ Alive /\ child.reply = "none" /\ pipes["stdin"] > 0
    /\ pipes' = [pipes EXCEPT !["stdin"] = @ - 1]
    /\ child' = IF child.read + 1 > MaxStdin
                THEN [child EXCEPT !.read = @ + 1, !.reply = "refusal", !.left = 1]
                ELSE [child EXCEPT !.read = @ + 1]
    /\ UNCHANGED <<phase, unsent, open, received, answer, late, scratch>>

\* The request has ended: the dispatcher's result or a refusal, or what a broken build says.
ChildAnswers ==
    /\ Alive /\ child.reply = "none" /\ pipes["stdin"] = 0 /\ "stdin" \notin open
    /\ \E reply \in Replies \ {"none"}, length \in 1..2 :
          child' = [child EXCEPT !.reply = reply, !.left = length]
    /\ UNCHANGED <<phase, unsent, open, received, answer, late, scratch, pipes>>

\* emit writes the payload; the process exits once it is flushed.
ChildWrites ==
    /\ Alive /\ child.left > 0 /\ pipes["stdout"] < PipeSize
    /\ pipes' = [pipes EXCEPT !["stdout"] = @ + 1]
    /\ child' = [child EXCEPT !.left = @ - 1]
    /\ UNCHANGED <<phase, unsent, open, received, answer, late, scratch>>

ChildExits ==
    /\ Alive /\ child.reply # "none" /\ child.left = 0
    /\ child' = [child EXCEPT !.life = "exited"]
    /\ UNCHANGED <<phase, unsent, open, received, answer, late, scratch, pipes>>

\* A signal, an exit that says why, or a silent exit before the reply is out.
ChildDies ==
    /\ Alive
    /\ \E how \in {"crashed", "failed", "exited"} : child' = [child EXCEPT !.life = how]
    /\ UNCHANGED <<phase, unsent, open, received, answer, late, scratch, pipes>>

\* Diagnostics, or bytes on stdout that are no part of a reply.
ChildFloods ==
    /\ Alive
    /\ \E s \in {"stdout", "stderr"} :
          /\ pipes[s] < PipeSize
          /\ pipes' = [pipes EXCEPT ![s] = @ + 1]
          /\ child' = IF s = "stdout" THEN [child EXCEPT !.reply = "broken"] ELSE child
    /\ UNCHANGED <<phase, unsent, open, received, answer, late, scratch>>

DeadlinePasses ==
    /\ phase \in {"pumping", "waiting"} /\ ~late
    /\ late' = TRUE
    /\ UNCHANGED <<phase, unsent, open, received, answer, scratch, child, pipes>>

Parent ==
    \/ RefuseRequest \/ Spawn \/ WriteRequest \/ PumpDone \/ TimesOut \/ Judge
    \/ \E s \in {"stdout", "stderr"} : ReadStream(s)

Comparator == ChildReads \/ ChildAnswers \/ ChildWrites \/ ChildExits \/ ChildDies \/ ChildFloods

BridgeNext == Parent \/ SpawnFails \/ Interrupted \/ Comparator \/ DeadlinePasses

\* The parent's loop never waits without a timeout and the clock runs.
BridgeSpec ==
    BridgeInit /\ [][BridgeNext]_bridgeVars /\ WF_bridgeVars(Parent) /\ WF_bridgeVars(DeadlinePasses)

----------------------------------------------------------------------------
(***************************************************************************)
(* compare_bridge.py: a result is only ever made of one whole envelope of   *)
(* a process that ended well, within the caps; and no ending of the         *)
(* exchange's own leaves the process or the scratch directory behind.       *)
(***************************************************************************)
AnswerIsWhole ==
    answer = "result" =>
        /\ child.life = "exited" /\ child.reply = "result" /\ child.left = 0
        /\ pipes["stdout"] = 0 /\ received["stdout"] \in 1..MaxResponse
        /\ unsent = 0

NothingStays ==
    phase = "ended" =>
        /\ ~scratch
        /\ answer # "interrupted" => ~Alive

ExchangeIsClean == AnswerIsWhole /\ NothingStays

\* The exchange ends although the comparator may hang, flood or never read.
ExchangeEnds == <>(phase = "ended")
=============================================================================
