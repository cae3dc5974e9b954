---------------------------- MODULE ProfileWorker ----------------------------
(***************************************************************************)
(* One request to an isolated reader profile: native/inkflip/profiles/      *)
(* adapter.py starts a worker in a session of its own, two threads drain    *)
(* its streams against a bound, a third writes the request, the parent      *)
(* waits for the leader or a deadline, kills the whole group and only then  *)
(* joins the threads and looks at what came (pypdf_worker.py is the worker).*)
(*                                                                         *)
(* Bytes are counted in chunks. The worker may start a process that it      *)
(* leaves behind: it holds the streams open, may print to them, and may     *)
(* write a reply of its own to the one pipe they share. Chunks of two       *)
(* processes, or chunks that are no reply, add up to no JSON object.        *)
(***************************************************************************)
EXTENDS Naturals, FiniteSets

CONSTANTS MaxCapture,   \* chunks kept of a stream, _MAX_STDOUT_BYTES
          WorkerPipe,   \* chunks a pipe holds
          WorkerReplies, \* what a worker may say: [ok, version, pages, length], length in chunks
          NoReply

ASSUME WorkerAssumption == MaxCapture \in Nat \ {0} /\ WorkerPipe \in Nat \ {0}

VARIABLES parent,     \* "ready", "waiting", "killing", "joining", "ended"
          overdue,    \* the deadline has passed
          request,    \* chunks of the request: to write, in the pipe, read
          leader,     \* its life, its reply and how much of it is written
          descendant, \* the same of a process the worker started: "none", "running", "dead"
          stream,     \* stdout and stderr: chunks in the pipe and kept, foreign chunks, end seen
          taken       \* what the adapter made of it

workerVars == <<parent, overdue, request, leader, descendant, stream, taken>>

Outputs == {"stdout", "stderr"}
NoProcess == [life |-> "none", reply |-> NoReply, written |-> 0]
NoStream == [flying |-> 0, kept |-> 0, foreign |-> FALSE, overflow |-> FALSE, closed |-> FALSE]

WorkerInit ==
    /\ parent = "ready" /\ overdue = FALSE
    /\ request = [unwritten |-> 1, flying |-> 0]
    /\ leader = NoProcess /\ descendant = NoProcess
    /\ stream = [s \in Outputs |-> NoStream]
    /\ taken = "none"

Writers == (IF leader.life = "running" THEN {"leader"} ELSE {})
              \cup (IF descendant.life = "running" THEN {"descendant"} ELSE {})

----------------------------------------------------------------------------
(***************************************************************************)
(* The parent.                                                             *)
(***************************************************************************)
StartWorker ==
    /\ parent = "ready"
    /\ \/ /\ parent' = "waiting" /\ leader' = [NoProcess EXCEPT !.life = "running"]
          /\ UNCHANGED taken
       \/ parent' = "ended" /\ taken' = "not_started" /\ UNCHANGED leader
    /\ UNCHANGED <<overdue, request, descendant, stream>>

\* proc.wait returns for the leader alone, and the group is killed at once.
WaitReturns ==
    /\ parent = "waiting"
    /\ leader.life # "running" \/ overdue
    /\ parent' = "killing"
    /\ taken' = IF leader.life = "running" THEN "timed_out" ELSE "none"
    /\ UNCHANGED <<overdue, request, leader, descendant, stream>>

\* Only the leader.
KillLeader ==
    /\ parent = "killing"
    /\ parent' = "joining"
    /\ leader' = IF leader.life = "running" THEN [leader EXCEPT !.life = "killed"] ELSE leader
    /\ UNCHANGED <<overdue, request, descendant, stream, taken>>

KillWorkers ==
    /\ parent = "killing"
    /\ parent' = "joining"
    /\ leader' = IF leader.life = "running" THEN [leader EXCEPT !.life = "killed"] ELSE leader
    /\ descendant' = IF descendant.life = "running" THEN [descendant EXCEPT !.life = "dead"] ELSE descendant
    /\ UNCHANGED <<overdue, request, stream, taken>>

\* Ctrl-C while the parent waits: nobody kills the worker.
WorkerForgotten ==
    /\ parent = "waiting"
    /\ parent' = "ended" /\ taken' = "interrupted"
    /\ UNCHANGED <<overdue, request, leader, descendant, stream>>

\* Nothing in the bytes says which process of the group wrote them.
Author == IF leader.written > 0 THEN leader ELSE descendant
AnswerRead == Author.reply

\* Whether the bytes are one JSON object: all of one reply and nothing else.
OneReply ==
    /\ leader.written = 0 \/ descendant.written = 0
    /\ AnswerRead # NoReply /\ Author.written = AnswerRead.length
    /\ ~stream["stdout"].foreign
    /\ stream["stdout"].kept = AnswerRead.length

\* A worker is believed by its word.
JudgeByReply ==
    IF taken = "timed_out" THEN taken
    ELSE IF \E s \in Outputs : stream[s].overflow THEN "overflow"
    ELSE IF ~OneReply THEN "unreadable"
    ELSE IF ~AnswerRead.ok THEN "refused"
    ELSE IF ~AnswerRead.version THEN "wrong_version"
    ELSE IF ~AnswerRead.pages THEN "malformed"
    ELSE "accepted"

\* The deadline, the bounds, the bytes, the exit code, ok, the identity, the pages.
JudgeWorker ==
    IF taken = "timed_out" THEN taken
    ELSE IF \E s \in Outputs : stream[s].overflow THEN "overflow"
    ELSE IF ~OneReply THEN "unreadable"
    ELSE IF leader.life # "exited" THEN "failed"
    ELSE IF ~AnswerRead.ok THEN "refused"
    ELSE IF ~AnswerRead.version THEN "wrong_version"
    ELSE IF ~AnswerRead.pages THEN "malformed"
    ELSE "accepted"

\* The threads have ended: the streams at their end, the writer at a closed pipe.
JoinThreads ==
    /\ parent = "joining"
    /\ \A s \in Outputs : stream[s].closed
    /\ parent' = "ended" /\ taken' = JudgeWorker
    /\ UNCHANGED <<overdue, request, leader, descendant, stream>>

----------------------------------------------------------------------------
(***************************************************************************)
(* The threads.                                                            *)
(***************************************************************************)
WriteStdin ==
    /\ parent \notin {"ready", "ended"} /\ request.unwritten > 0 /\ leader.life = "running"
    /\ request' = [unwritten |-> 0, flying |-> request.unwritten]
    /\ UNCHANGED <<parent, overdue, leader, descendant, stream, taken>>

\* A chunk is kept below the bound; at the bound the stream has overflown.
DrainStream(s) ==
    /\ parent # "ready" /\ ~stream[s].closed
    /\ \/ /\ stream[s].flying > 0
          /\ LET kept == IF stream[s].kept < MaxCapture THEN stream[s].kept + 1 ELSE stream[s].kept
             IN  stream' = [stream EXCEPT ![s].flying = @ - 1, ![s].kept = kept,
                                          ![s].overflow = @ \/ kept >= MaxCapture]
       \/ /\ stream[s].flying = 0 /\ Writers = {} /\ leader.life # "none"
          /\ stream' = [stream EXCEPT ![s].closed = TRUE]
    /\ UNCHANGED <<parent, overdue, request, leader, descendant, taken>>

----------------------------------------------------------------------------
(***************************************************************************)
(* The worker and the clock.                                               *)
(***************************************************************************)
WorkerReads ==
    /\ leader.life = "running" /\ leader.reply = NoReply /\ request.flying > 0
    /\ request' = [request EXCEPT !.flying = 0]
    /\ \E reply \in WorkerReplies : leader' = [leader EXCEPT !.reply = reply]
    /\ UNCHANGED <<parent, overdue, descendant, stream, taken>>

WorkerWrites ==
    /\ leader.life = "running" /\ leader.reply # NoReply /\ leader.written < leader.reply.length
    /\ stream["stdout"].flying < WorkerPipe
    /\ leader' = [leader EXCEPT !.written = @ + 1]
    /\ stream' = [stream EXCEPT !["stdout"].flying = @ + 1]
    /\ UNCHANGED <<parent, overdue, request, descendant, taken>>

\* Diagnostics, output that is no reply, what an abandoned process prints.
WorkerNoise ==
    /\ Writers # {}
    /\ \E s \in Outputs :
          /\ stream[s].flying < WorkerPipe
          /\ stream' = [stream EXCEPT ![s].flying = @ + 1, ![s].foreign = (s = "stdout")]
    /\ UNCHANGED <<parent, overdue, request, leader, descendant, taken>>

\* Whatever it starts may have an answer of its own, or none.
WorkerSpawns ==
    /\ leader.life = "running" /\ descendant.life = "none"
    /\ \E reply \in WorkerReplies \cup {NoReply} :
          descendant' = [NoProcess EXCEPT !.life = "running", !.reply = reply]
    /\ UNCHANGED <<parent, overdue, request, leader, stream, taken>>

DescendantWrites ==
    /\ descendant.life = "running" /\ descendant.reply # NoReply
    /\ descendant.written < descendant.reply.length
    /\ stream["stdout"].flying < WorkerPipe
    /\ descendant' = [descendant EXCEPT !.written = @ + 1]
    /\ stream' = [stream EXCEPT !["stdout"].flying = @ + 1]
    /\ UNCHANGED <<parent, overdue, request, leader, taken>>

\* 0 when the answer says ok, another code when it does not; or it crashes at any time.
WorkerExits ==
    /\ leader.life = "running"
    /\ \/ /\ leader.reply # NoReply /\ leader.written = leader.reply.length
          /\ leader' = [leader EXCEPT !.life = IF leader.reply.ok THEN "exited" ELSE "failed"]
       \/ leader' = [leader EXCEPT !.life = "failed"]
       \/ leader' = [leader EXCEPT !.life = "exited"]
    /\ UNCHANGED <<parent, overdue, request, descendant, stream, taken>>

WorkerDeadline ==
    /\ parent = "waiting" /\ ~overdue
    /\ overdue' = TRUE
    /\ UNCHANGED <<parent, request, leader, descendant, stream, taken>>

Supervise == StartWorker \/ WaitReturns \/ KillWorkers \/ JoinThreads

WorkerNext ==
    \/ Supervise \/ WriteStdin \/ WorkerForgotten
    \/ \E s \in Outputs : DrainStream(s)
    \/ WorkerReads \/ WorkerWrites \/ WorkerNoise \/ WorkerSpawns \/ DescendantWrites \/ WorkerExits
    \/ WorkerDeadline

\* Every thread of the parent runs, and so does the clock.
WorkerFairness ==
    /\ WF_workerVars(Supervise) /\ WF_workerVars(WorkerDeadline)
    /\ \A s \in Outputs : WF_workerVars(DrainStream(s))

WorkerSpec == WorkerInit /\ [][WorkerNext]_workerVars /\ WorkerFairness

----------------------------------------------------------------------------
(***************************************************************************)
(* adapter.py "A worker is never trusted to describe its own success": what *)
(* is accepted is one whole reply of one process of the worker's group, read *)
(* to its end and within the bounds with nothing beside it; it says ok and   *)
(* names the profile's version, and the leader exited with 0 before the      *)
(* deadline. Who wrote it is not known: it may be a process the worker left  *)
(* behind. Once a request has ended nothing of the group lives and no more   *)
(* can come, except when the parent was interrupted, which kills nobody.     *)
(***************************************************************************)
WorkerIsNotTrusted ==
    /\ taken = "accepted" =>
          /\ leader.life = "exited"
          /\ \E process \in {leader, descendant} :
                /\ process.reply # NoReply
                /\ process.reply.ok /\ process.reply.version /\ process.reply.pages
                /\ process.written = process.reply.length /\ stream["stdout"].kept = process.written
                /\ leader.written + descendant.written = process.written
          /\ stream["stdout"].flying = 0 /\ ~stream["stdout"].foreign
          /\ \A s \in Outputs : ~stream[s].overflow
    /\ parent = "ended" /\ taken # "interrupted" => Writers = {}

\* A worker that hangs, floods or leaves a process behind does not hold the parent.
WorkerEnds == <>(parent = "ended")
=============================================================================
