------------------------------ MODULE Pipeline ------------------------------
(***************************************************************************)
(* A pipeline run: the node tasks that build_pipeline wires together, the  *)
(* bounded queues between them with their overflow policies, the           *)
(* dead-letter task, and run_until_complete, which supervises them.        *)
(*                                                                         *)
(* Messages are anonymous: the state is the counters the code keeps        *)
(* (QueueMetrics per destination, NodeMetrics per node) and where messages *)
(* are held.  Wasm nodes are reduced to what the rest of the pipeline can  *)
(* see of them; NodeRunner models them in full.                            *)
(*                                                                         *)
(* Every loop waits in a biased select! with two arms.  They are polled in *)
(* order and the world may change in between, hence two places, "first"    *)
(* and "second".                                                           *)
(***************************************************************************)
EXTENDS Naturals, FiniteSets

CONSTANTS
    Node,
    Kind,           \* the category of a node, see Kinds
    Edge,           \* <<from, to>>, acyclic
    Overflow,       \* the overflow policy of an edge
    Capacity,       \* the capacity of a node's input queue
    DlqCapacity,    \* dead_letter.queue_capacity, 0 when there is no DLQ
    MaxPollErrors,  \* MAX_CONSECUTIVE_POLL_ERRORS
    MaxMsgs         \* bound: the messages a source may produce

Kinds == {"source", "native", "wasm", "router", "sink"}
Policies == {"slow", "drop", "dead-letter"}

ASSUME PipelineAssumption ==
    /\ IsFiniteSet(Node)
    /\ Kind \in [Node -> Kinds]
    /\ Edge \subseteq {e \in Node \X Node : Kind[e[1]] # "sink" /\ Kind[e[2]] # "source"}
    /\ Overflow \in [Edge -> Policies]
    /\ Capacity \in [Node -> Nat \ {0}]
    /\ DlqCapacity \in Nat
    /\ MaxPollErrors \in Nat \ {0}
    /\ MaxMsgs \in Nat

VARIABLES
    task,           \* where each node's task is, or how it ended
    hand,           \* the message a task works on: "none", "fresh" or "retry"
    todo,           \* the edges send_downstream has yet to serve
    parked,         \* entries in a Wasm node's retry buffer
    pollErrors,     \* consecutive_errors of a source
    queue,          \* messages waiting in a node's input queue
    queueStats,     \* QueueMetrics of that queue
    nodeStats,      \* NodeMetrics of the node
    cancelled,      \* the pipeline's CancellationToken
    dlqQueue,       \* records waiting in the DLQ channel
    dlqTask,        \* the DLQ task: "none", "running", "ok" or "failed"
    written,        \* records the DLQ task has taken and written
    opc,            \* where run_until_complete is
    joined,         \* node tasks whose exit it has recorded
    failures        \* what it will report: nodes, "deadline", "dlq"

taskVars == <<task, hand, todo, parked, pollErrors>>
statVars == <<queue, queueStats, nodeStats>>
dlqVars == <<dlqQueue, dlqTask, written>>
runVars == <<opc, joined, failures>>
vars == <<taskVars, statVars, cancelled, dlqVars, runVars>>

Exits == {"ok", "failed", "panicked", "aborted"}
Places == {"spawned", "first", "second", "call", "send", "drain", "draining",
           "close", "close_failed"} \cup Exits
QueueCounters == {"enqueued", "dequeued", "dropped", "dead_lettered",
                  "downstream_closed", "dlq_full", "dlq_closed"}
\* "consumed" stands for the filtered, skipped and dropped counters; "drained"
\* for what a sink collects after its loop, which no counter records.
NodeCounters == {"processed", "failed", "consumed", "dlq_sent", "dlq_lost", "drained"}

PipelineTypeOK ==
    /\ task \in [Node -> Places]
    /\ hand \in [Node -> {"none", "fresh", "retry"}]
    /\ todo \in [Node -> SUBSET Edge]
    /\ parked \in [Node -> Nat]
    /\ pollErrors \in [Node -> 0 .. MaxPollErrors]
    /\ \A n \in Node : queue[n] \in 0 .. Capacity[n]
    /\ queueStats \in [Node -> [QueueCounters -> Nat]]
    /\ nodeStats \in [Node -> [NodeCounters -> Nat]]
    /\ cancelled \in BOOLEAN
    /\ dlqQueue \in 0 .. DlqCapacity
    /\ dlqTask \in {"none", "running", "ok", "failed"}
    /\ written \in Nat
    /\ opc \in {"supervise", "stopping", "aborting", "dlq", "done"}
    /\ joined \subseteq Node
    /\ failures \subseteq Node \cup {"deadline", "dlq"}

Init ==
    /\ task = [n \in Node |-> "spawned"]
    /\ hand = [n \in Node |-> "none"]
    /\ todo = [n \in Node |-> {}]
    /\ parked = [n \in Node |-> 0]
    /\ pollErrors = [n \in Node |-> 0]
    /\ queue = [n \in Node |-> 0]
    /\ queueStats = [n \in Node |-> [c \in QueueCounters |-> 0]]
    /\ nodeStats = [n \in Node |-> [c \in NodeCounters |-> 0]]
    /\ cancelled = FALSE
    /\ dlqQueue = 0
    /\ dlqTask = IF DlqCapacity = 0 THEN "none" ELSE "running"
    /\ written = 0
    /\ opc = "supervise"
    /\ joined = {}
    /\ failures = {}

-----------------------------------------------------------------------------
(***************************************************************************)
(* Tasks and channels.                                                     *)
(***************************************************************************)
Exited(n) == task[n] \in Exits
Processing(n) == Kind[n] \in {"native", "wasm", "router"}
Guest(n) == Kind[n] \in {"wasm", "router"}
Out(n) == {e \in Edge : e[1] = n}

\* Fault: the builder keeps a sender of every queue.
SenderKept(n) == FALSE

\* A task owns its receiver and its senders until it ends.
Closed(n) == Exited(n)
Eof(n) == queue[n] = 0 /\ \A e \in Edge : e[2] = n => Exited(e[1])

Goto(n, place) == task' = [task EXCEPT ![n] = place]
Take(n, m) == hand' = [hand EXCEPT ![n] = m]
Count(n, c) == nodeStats' = [nodeStats EXCEPT ![n][c] = @ + 1]

\* Fault: a failed task ends like any other.
ExitSilently(n, how) ==
    /\ Goto(n, how)
    /\ UNCHANGED <<hand, todo, parked, pollErrors, statVars, cancelled, dlqVars, runVars>>

\* spawn_node_task: the drop guard cancels the pipeline unless the task is ok.
Exit(n, how) ==
    /\ Goto(n, how)
    /\ cancelled' = (cancelled \/ how # "ok")
    /\ UNCHANGED <<hand, todo, parked, pollErrors, statVars, dlqVars, runVars>>

\* Code a task calls and does not control: an adapter, or a guest.
Calling(n) ==
    \/ Kind[n] = "source" /\ task[n] \in {"spawned", "second", "close", "close_failed"}
    \/ Kind[n] = "sink" /\ task[n] \in {"spawned", "call", "draining", "close"}
    \/ Guest(n) /\ task[n] = "call"

Panic(n) == Calling(n) /\ Exit(n, "panicked")

\* init() of a source or a sink, inside its task; the others have none.
Started(n) ==
    /\ task[n] = "spawned"
    /\ Goto(n, "first")
    /\ UNCHANGED <<hand, todo, parked, pollErrors, statVars, cancelled, dlqVars, runVars>>

fail_io_init(n) ==
    /\ task[n] = "spawned"
    /\ Kind[n] \in {"source", "sink"}
    /\ Exit(n, "failed")

-----------------------------------------------------------------------------
(***************************************************************************)
(* The DLQ channel.                                                        *)
(***************************************************************************)

\* try_send on the DLQ: what becomes of the record.
DlqVerdict ==
    CASE dlqTask # "running" -> "closed"
      [] dlqTask = "running" /\ dlqQueue < DlqCapacity -> "sent"
      [] OTHER -> "full"

DlqSend ==
    /\ dlqQueue' = IF DlqVerdict = "sent" THEN dlqQueue + 1 ELSE dlqQueue
    /\ UNCHANGED <<dlqTask, written>>

\* ErrorPolicyExecutor::send_to_dlq: one of two counters of the node.
PolicyDlq(n) ==
    /\ Count(n, IF DlqVerdict = "sent" THEN "dlq_sent" ELSE "dlq_lost")
    /\ DlqSend

\* run_dlq_sink takes a record and writes it, or fails and drops the channel.
DlqWrite ==
    /\ dlqTask = "running"
    /\ dlqQueue > 0
    /\ dlqQueue' = dlqQueue - 1
    /\ \/ written' = written + 1 /\ UNCHANGED dlqTask
       \/ dlqTask' = "failed" /\ UNCHANGED written
    /\ UNCHANGED <<taskVars, statVars, cancelled, runVars>>

\* Every node that may send has dropped its sender.
DlqSendersGone == \A n \in Node : Kind[n] # "sink" => Exited(n)

\* Fault: the DLQ task ends when the pipeline is cancelled, as the nodes do.
DlqUntilCancelled ==
    /\ dlqTask = "running"
    /\ cancelled \/ (dlqQueue = 0 /\ DlqSendersGone)
    /\ dlqTask' \in {"ok", "failed"}
    /\ UNCHANGED <<taskVars, statVars, cancelled, dlqQueue, written, runVars>>

DlqEnd ==
    /\ dlqTask = "running"
    /\ dlqQueue = 0
    /\ DlqSendersGone
    /\ dlqTask' \in {"ok", "failed"}
    /\ UNCHANGED <<taskVars, statVars, cancelled, dlqQueue, written, runVars>>

-----------------------------------------------------------------------------
(***************************************************************************)
(* send_downstream.                                                        *)
(***************************************************************************)

\* Fault: a full queue is overrun.
OfferBlindly(e) == IF Closed(e[2]) THEN "downstream_closed" ELSE "enqueued"

\* The outcome of offering one message on an edge, "blocked" while a slow
\* edge has no room: the counter of the destination that records it.
Offer(e) ==
    LET full == queue[e[2]] >= Capacity[e[2]] IN
    CASE Closed(e[2]) -> "downstream_closed"
      [] ~Closed(e[2]) /\ ~full -> "enqueued"
      [] ~Closed(e[2]) /\ full /\ Overflow[e] = "slow" -> "blocked"
      [] ~Closed(e[2]) /\ full /\ Overflow[e] = "drop" -> "dropped"
      [] ~Closed(e[2]) /\ full /\ Overflow[e] = "dead-letter" ->
           (CASE DlqVerdict = "sent" -> "dead_lettered"
              [] DlqVerdict = "full" -> "dlq_full"
              [] DlqVerdict = "closed" -> "dlq_closed")

\* Non-blocking edges are served before the slow ones.
Servable(n) ==
    {e \in todo[n] : Overflow[e] = "slow" => \A f \in todo[n] : Overflow[f] = "slow"}

send_one(n, e) ==
    LET outcome == Offer(e) IN
    /\ task[n] = "send"
    /\ e \in Servable(n)
    /\ outcome # "blocked"
    /\ queue' = [queue EXCEPT ![e[2]] = IF outcome = "enqueued" THEN @ + 1 ELSE @]
    /\ queueStats' = [queueStats EXCEPT ![e[2]][outcome] = @ + 1]
    /\ todo' = [todo EXCEPT ![n] = @ \ {e}]
    /\ IF outcome \in {"dead_lettered", "dlq_full", "dlq_closed"}
       THEN DlqSend
       ELSE UNCHANGED dlqVars
    /\ UNCHANGED <<task, hand, parked, pollErrors, nodeStats, cancelled, runVars>>

\* All edges are served: a source has counted the message before, the others
\* count it now.
Sent(n) ==
    /\ task[n] = "send"
    /\ todo[n] = {}
    /\ Goto(n, "first")
    /\ Take(n, "none")
    /\ IF Kind[n] = "source" THEN UNCHANGED nodeStats ELSE Count(n, "processed")
    /\ UNCHANGED <<todo, parked, pollErrors, queue, queueStats, cancelled, dlqVars, runVars>>

-----------------------------------------------------------------------------
(***************************************************************************)
(* run_source_loop.                                                        *)
(***************************************************************************)

\* The arm for cancellation comes first in sources and processing nodes.
CancelFirst(n) ==
    /\ task[n] = "first"
    /\ Kind[n] # "sink"
    /\ Goto(n, IF cancelled THEN "close" ELSE "second")
    /\ UNCHANGED <<hand, todo, parked, pollErrors, statVars, cancelled, dlqVars, runVars>>

\* Cancellation wakes a task that waits for input.
CancelWakes(n) ==
    /\ task[n] = "second"
    /\ Kind[n] # "sink"
    /\ cancelled
    /\ Goto(n, "first")
    /\ UNCHANGED <<hand, todo, parked, pollErrors, statVars, cancelled, dlqVars, runVars>>

PollMessage(n) ==
    /\ Kind[n] = "source"
    /\ task[n] = "second"
    /\ nodeStats[n].processed < MaxMsgs
    /\ Goto(n, "send")
    /\ Take(n, "fresh")
    /\ Count(n, "processed")
    /\ todo' = [todo EXCEPT ![n] = Out(n)]
    /\ pollErrors' = [pollErrors EXCEPT ![n] = 0]
    /\ UNCHANGED <<parked, queue, queueStats, cancelled, dlqVars, runVars>>

PollEof(n) ==
    /\ Kind[n] = "source"
    /\ task[n] = "second"
    /\ Goto(n, "close")
    /\ UNCHANGED <<hand, todo, parked, pollErrors, statVars, cancelled, dlqVars, runVars>>

\* After the backoff, which cancellation cuts short, the loop starts over.
PollError(n) ==
    /\ Kind[n] = "source"
    /\ task[n] = "second"
    /\ pollErrors' = [pollErrors EXCEPT ![n] = @ + 1]
    /\ Goto(n, IF pollErrors[n] + 1 >= MaxPollErrors THEN "close_failed" ELSE "first")
    /\ UNCHANGED <<hand, todo, parked, statVars, cancelled, dlqVars, runVars>>

\* A close error is only logged.
SourceClosed(n) ==
    /\ Kind[n] = "source"
    /\ \/ task[n] = "close" /\ Exit(n, "ok")
       \/ task[n] = "close_failed" /\ Exit(n, "failed")

-----------------------------------------------------------------------------
(***************************************************************************)
(* run_passthrough_loop, and what the pipeline sees of a Wasm runner.      *)
(***************************************************************************)
Dequeue(n) ==
    /\ queue[n] > 0
    /\ queue' = [queue EXCEPT ![n] = @ - 1]
    /\ queueStats' = [queueStats EXCEPT ![n].dequeued = @ + 1]
    /\ UNCHANGED nodeStats

RecvMessage(n) ==
    /\ Processing(n)
    /\ task[n] = "second"
    /\ Dequeue(n)
    /\ Take(n, "fresh")
    /\ Goto(n, IF Guest(n) THEN "call" ELSE "send")
    /\ todo' = [todo EXCEPT ![n] = IF Guest(n) THEN {} ELSE Out(n)]
    /\ UNCHANGED <<parked, pollErrors, cancelled, dlqVars, runVars>>

\* Fault: an empty queue is taken for a closed one.
EofWhenEmpty(n) ==
    /\ Processing(n)
    /\ task[n] = "second"
    /\ queue[n] = 0 /\ parked[n] = 0
    /\ Goto(n, "close")
    /\ UNCHANGED <<hand, todo, parked, pollErrors, statVars, cancelled, dlqVars, runVars>>

\* A Wasm node with entries in its retry buffer waits for them.
RecvEof(n) ==
    /\ Processing(n)
    /\ task[n] = "second"
    /\ Eof(n) /\ parked[n] = 0
    /\ Goto(n, "close")
    /\ UNCHANGED <<hand, todo, parked, pollErrors, statVars, cancelled, dlqVars, runVars>>

\* A due retry is taken at the top of the loop, before cancellation is seen,
\* or wakes the task.
RecvRetry(n) ==
    /\ Guest(n)
    /\ task[n] \in {"first", "second"}
    /\ parked[n] > 0
    /\ parked' = [parked EXCEPT ![n] = @ - 1]
    /\ Take(n, "retry")
    /\ Goto(n, "call")
    /\ UNCHANGED <<todo, pollErrors, statVars, cancelled, dlqVars, runVars>>

\* The guest returns: a router names some of its ports, the others all.
CallForwards(n) ==
    /\ Guest(n)
    /\ task[n] = "call"
    /\ Goto(n, "send")
    /\ \E ports \in IF Kind[n] = "router" THEN SUBSET Out(n) ELSE {Out(n)} :
            todo' = [todo EXCEPT ![n] = ports]
    /\ UNCHANGED <<hand, parked, pollErrors, statVars, cancelled, dlqVars, runVars>>

\* The message ends here: filtered, skipped, dead-lettered, or dropped.
CallConsumes(n) ==
    /\ Guest(n)
    /\ task[n] = "call"
    /\ Goto(n, "first")
    /\ Take(n, "none")
    /\ \/ Count(n, "consumed") /\ UNCHANGED dlqVars
       \/ PolicyDlq(n)
    /\ UNCHANGED <<todo, parked, pollErrors, queue, queueStats, cancelled, runVars>>

\* One retry per message stands for the policy's bounded number.
CallRetries(n) ==
    /\ Guest(n)
    /\ task[n] = "call"
    /\ hand[n] = "fresh"
    /\ Goto(n, "first")
    /\ Take(n, "none")
    /\ parked' = [parked EXCEPT ![n] = @ + 1]
    /\ UNCHANGED <<todo, pollErrors, statVars, cancelled, dlqVars, runVars>>

\* A teardown action, or a recovery that fails, ends the loop with an error.
CallTearsDown(n) ==
    /\ Guest(n)
    /\ task[n] = "call"
    /\ Goto(n, "close_failed")
    /\ Take(n, "none")
    /\ \/ Count(n, "consumed") /\ UNCHANGED dlqVars
       \/ PolicyDlq(n)
    /\ UNCHANGED <<todo, parked, pollErrors, queue, queueStats, cancelled, runVars>>

\* Every exit of a Wasm loop flushes the retry buffer to the DLQ.
FlushRetry(n) ==
    /\ Processing(n)
    /\ task[n] \in {"close", "close_failed"}
    /\ parked[n] > 0
    /\ parked' = [parked EXCEPT ![n] = @ - 1]
    /\ PolicyDlq(n)
    /\ UNCHANGED <<task, hand, todo, pollErrors, queue, queueStats, cancelled, runVars>>

ProcessingEnds(n) ==
    /\ Processing(n)
    /\ parked[n] = 0
    /\ \/ task[n] = "close" /\ Exit(n, "ok")
       \/ task[n] = "close_failed" /\ Exit(n, "failed")

-----------------------------------------------------------------------------
(***************************************************************************)
(* run_sink_loop: input comes before cancellation.                         *)
(***************************************************************************)
SinkRecv(n) ==
    /\ Kind[n] = "sink"
    /\ task[n] = "first"
    /\ Dequeue(n)
    /\ Take(n, "fresh")
    /\ Goto(n, "call")
    /\ UNCHANGED <<todo, parked, pollErrors, cancelled, dlqVars, runVars>>

SinkNoInput(n) ==
    /\ Kind[n] = "sink"
    /\ task[n] = "first"
    /\ queue[n] = 0
    /\ Goto(n, IF Eof(n) THEN "drain" ELSE "second")
    /\ UNCHANGED <<hand, todo, parked, pollErrors, statVars, cancelled, dlqVars, runVars>>

SinkCancelSecond(n) ==
    /\ Kind[n] = "sink"
    /\ task[n] = "second"
    /\ \/ cancelled /\ Goto(n, "drain")
       \/ ~cancelled /\ (queue[n] > 0 \/ Eof(n)) /\ Goto(n, "first")
    /\ UNCHANGED <<hand, todo, parked, pollErrors, statVars, cancelled, dlqVars, runVars>>

Collect(n) ==
    /\ Kind[n] = "sink"
    /\ task[n] = "call"
    /\ Goto(n, "first")
    /\ Take(n, "none")
    /\ Count(n, "processed") \/ Count(n, "failed")
    /\ UNCHANGED <<todo, parked, pollErrors, queue, queueStats, cancelled, dlqVars, runVars>>

\* Fault: try_recv does not record the message it takes.
DrainUnrecorded(n) ==
    /\ Kind[n] = "sink"
    /\ task[n] = "drain"
    /\ queue[n] > 0
    /\ queue' = [queue EXCEPT ![n] = @ - 1]
    /\ Take(n, "fresh")
    /\ Goto(n, "draining")
    /\ UNCHANGED <<queueStats, nodeStats, todo, parked, pollErrors, cancelled, dlqVars, runVars>>

DrainRecv(n) ==
    /\ Kind[n] = "sink"
    /\ task[n] = "drain"
    /\ Dequeue(n)
    /\ Take(n, "fresh")
    /\ Goto(n, "draining")
    /\ UNCHANGED <<todo, parked, pollErrors, cancelled, dlqVars, runVars>>

\* What is collected here, or is not, is counted nowhere.
DrainCollect(n) ==
    /\ Kind[n] = "sink"
    /\ task[n] = "draining"
    /\ Goto(n, "drain")
    /\ Take(n, "none")
    /\ Count(n, "drained")
    /\ UNCHANGED <<todo, parked, pollErrors, queue, queueStats, cancelled, dlqVars, runVars>>

DrainEmpty(n) ==
    /\ Kind[n] = "sink"
    /\ task[n] = "drain"
    /\ queue[n] = 0
    /\ Goto(n, "close")
    /\ UNCHANGED <<hand, todo, parked, pollErrors, statVars, cancelled, dlqVars, runVars>>

\* flush() and close(), either of which may fail.
SinkClosed(n) ==
    /\ Kind[n] = "sink"
    /\ task[n] = "close"
    /\ Exit(n, "ok") \/ Exit(n, "failed")

-----------------------------------------------------------------------------
(***************************************************************************)
(* run_until_complete.                                                     *)
(***************************************************************************)

\* Fault: exits seen during the shutdown are not reported.
ExitForgotten(n) == IF opc = "supervise" /\ task[n] # "ok" THEN {n} ELSE {}

record_task_exit(n) == IF task[n] = "ok" THEN {} ELSE {n}

Join(n) ==
    /\ opc \in {"supervise", "stopping"}
    /\ Exited(n) /\ n \notin joined
    /\ joined' = joined \cup {n}
    /\ failures' = failures \cup record_task_exit(n)
    /\ UNCHANGED <<taskVars, statVars, cancelled, dlqVars, opc>>

\* Cancellation starts the shutdown deadline.
BeginStopping ==
    /\ opc = "supervise"
    /\ cancelled
    /\ opc' = "stopping"
    /\ UNCHANGED <<taskVars, statVars, cancelled, dlqVars, joined, failures>>

AllJoined ==
    /\ opc \in {"supervise", "stopping"}
    /\ joined = Node
    /\ opc' = "dlq"
    /\ UNCHANGED <<taskVars, statVars, cancelled, dlqVars, joined, failures>>

\* Fault: the shutdown waits for as long as the nodes take.
DeadlineIgnored == FALSE

\* SHUTDOWN_TIMEOUT passes; the select! looks at it before the tasks.
Deadline ==
    /\ opc = "stopping"
    /\ opc' = "aborting"
    /\ failures' = failures \cup {"deadline"}
    /\ UNCHANGED <<taskVars, statVars, cancelled, dlqVars, joined>>

\* JoinSet::shutdown: a task is dropped where it awaits; a guest call is not
\* such a place.  The drop guard of the task cancels what already is.
AbortTask(n) ==
    /\ opc = "aborting"
    /\ ~Exited(n)
    /\ ~(Guest(n) /\ task[n] = "call")
    /\ Exit(n, "aborted")

Aborted ==
    /\ opc = "aborting"
    /\ \A n \in Node : Exited(n)
    /\ opc' = "dlq"
    /\ joined' = Node
    /\ UNCHANGED <<taskVars, statVars, cancelled, dlqVars, failures>>

\* The DLQ task gets 5 s, then the run is over either way.
DlqAwaited ==
    /\ opc = "dlq"
    /\ opc' = "done"
    /\ failures' = failures \cup (IF dlqTask \in {"none", "ok"} THEN {} ELSE {"dlq"})
    /\ UNCHANGED <<taskVars, statVars, cancelled, dlqVars, joined>>

\* POST /pipeline/shutdown, or a signal.
Cancel ==
    /\ ~cancelled
    /\ cancelled' = TRUE
    /\ UNCHANGED <<taskVars, statVars, dlqVars, runVars>>

Finished ==
    /\ opc = "done"
    /\ UNCHANGED vars

-----------------------------------------------------------------------------
\* Steps of a task that depend on the scheduler alone.
LoopStep(n) ==
    \/ (Processing(n) /\ Started(n)) \/ CancelFirst(n) \/ CancelWakes(n)
    \/ RecvMessage(n) \/ RecvEof(n) \/ RecvRetry(n) \/ FlushRetry(n) \/ ProcessingEnds(n)
    \/ SinkRecv(n) \/ SinkNoInput(n) \/ SinkCancelSecond(n) \/ DrainRecv(n) \/ DrainEmpty(n)
    \/ Sent(n) \/ \E e \in Edge : send_one(n, e)

\* Steps by which a guest returns: fuel and epochs bound its calls.
GuestStep(n) == CallForwards(n) \/ CallConsumes(n) \/ CallRetries(n) \/ CallTearsDown(n)

\* Steps by which an adapter returns; it may never do so.
AdapterStep(n) ==
    \/ (~Processing(n) /\ Started(n)) \/ fail_io_init(n)
    \/ PollMessage(n) \/ PollEof(n) \/ PollError(n) \/ SourceClosed(n)
    \/ Collect(n) \/ DrainCollect(n) \/ SinkClosed(n)

TaskStep(n) == LoopStep(n) \/ GuestStep(n) \/ AdapterStep(n) \/ Panic(n)
DlqStep == DlqWrite \/ DlqEnd
Orchestrator ==
    \/ BeginStopping \/ AllJoined \/ Deadline \/ Aborted \/ DlqAwaited
    \/ \E n \in Node : Join(n) \/ AbortTask(n)

Next == (\E n \in Node : TaskStep(n)) \/ DlqStep \/ Orchestrator \/ Cancel \/ Finished

\* The runtime schedules every ready task and fires its timers; adapters and
\* the DLQ's I/O are not assumed to return.
Spec ==
    /\ Init /\ [][Next]_vars
    /\ WF_vars(Orchestrator)
    /\ \A n \in Node : WF_vars(LoopStep(n) \/ GuestStep(n))
-----------------------------------------------------------------------------
(***************************************************************************)
(* Properties.                                                             *)
(***************************************************************************)
InHand(n) == IF hand[n] = "none" THEN 0 ELSE 1

\* What a node has done with the messages it dequeued.
Settled(n) ==
    nodeStats[n].processed + nodeStats[n].failed + nodeStats[n].consumed
    + nodeStats[n].dlq_sent + nodeStats[n].dlq_lost + nodeStats[n].drained

\* The exported counters reconcile at every instant and through every failure:
\* what entered a queue was taken out of it or still waits there, and what a
\* node took out it holds, has buffered for retry or has settled once.
Conserved ==
    \A n \in Node : Kind[n] # "source" =>
        /\ queueStats[n].enqueued = queueStats[n].dequeued + queue[n]
        /\ queueStats[n].dequeued = InHand(n) + parked[n] + Settled(n)

\* The records a node has counted as dead-lettered, the overflow of its queue
\* and what its error policy sent, each by its number.
Recorded(n) == queueStats[n].dead_lettered + nodeStats[n].dlq_sent
DlqRecords == UNION {{n} \X (1 .. Recorded(n)) : n \in Node}

\* A DLQ task that ends well has written every record any node ever counted
\* as dead-lettered, those flushed while the nodes were exiting included.
DlqComplete == dlqTask = "ok" => dlqQueue = 0 /\ written = Cardinality(DlqRecords)

\* A run that ends on its own and reports success has lost nothing silently:
\* no queue or retry buffer holds a message, none was offered to a node that
\* had gone, and none was refused by a DLQ that had stopped.
CleanRunDelivers ==
    opc = "done" /\ failures = {} /\ ~cancelled =>
        \A n \in Node :
            /\ queue[n] = 0 /\ parked[n] = 0 /\ hand[n] = "none"
            /\ queueStats[n].downstream_closed = 0
            /\ DlqCapacity > 0 => queueStats[n].dlq_closed = 0

\* Success is reported only if every task ended well: a node that failed,
\* panicked or was aborted, or a DLQ task that failed or is still at work,
\* is always among the failures, however the exits and the deadline race.
FailuresSurface ==
    opc = "done" /\ failures = {} =>
        /\ \A n \in Node : task[n] = "ok"
        /\ dlqTask \in {"none", "ok"}

\* Shutdown is bounded: after a cancellation the run ends, even if adapters
\* never return from a call and queues are full.
CancelEndsRun == cancelled ~> opc = "done"

\* One failing node stops the whole pipeline, open-ended sources included.
FailureEndsRun == (\E n \in Node : task[n] \in {"failed", "panicked"}) ~> opc = "done"

\* Backpressure never makes the nodes wait for one another for ever: if
\* adapters return, a run whose sources have ended ends.
EofEndsRun ==
    (\A n \in Node : WF_vars(AdapterStep(n)))
        => ((\A n \in Node : Kind[n] = "source" => Exited(n)) ~> opc = "done")

-----------------------------------------------------------------------------
(***************************************************************************)
(* A statement of the repository that the code does not keep.              *)
(***************************************************************************)

\* run_until_complete: "Returns Ok(()) if all tasks exited cleanly".
CleanExitsAreOk ==
    /\ opc = "done"
    /\ \A n \in Node : task[n] = "ok"
    /\ dlqTask \in {"none", "ok"}
    => failures = {}
=============================================================================
