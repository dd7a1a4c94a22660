------------------------------ MODULE Publisher -------------------------------
(* `wafer-loadgen publish` (publish.rs, stop_signal.rs): the publishing task, *)
(* the pacer thread, the MQTT event-loop task, the hot-swap trigger task and  *)
(* the stop signals, from the handshake to the summary.  The MQTT client      *)
(* library and the broker are external: a bounded request queue, a window of  *)
(* unacknowledged messages and a link that fails and comes back without them. *)
EXTENDS LoadShapes, Sequences

CONSTANTS Shape,             \* the resolved shape (LoadShapes)
          SequenceStart,     \* --sequence-start
          DropWhenFull,      \* --drop-when-full
          QueueCap,          \* the client's request queue (1024)
          Ahead,             \* PACER_AHEAD
          ConnectTimeout, DrainTimeout, DisconnectTimeout,   \* in ticks
          SwapTimeout,       \* the hot-swap request's (30 s)
          MaxInflight,       \* bound on unacknowledged messages (external)
          MaxLinkErrors,     \* bound on failed connections
          Signals,           \* the stop signals, {"sigterm", "sigint"}
          Horizon,           \* the clock stops counting here, past every deadline
          Prompt             \* BOOLEAN: no time passes while a task can run

\* The summary while its figures are collected, and as it is written.
Summaries ==
  [pending : {TRUE}, acked : Nat, connects : Nat]
    \cup [pending : {FALSE}, intended : Nat, rejected : Nat, enqueued : Nat, acked : Nat,
          unacked : Nat, connects : Nat, lag : Nat,
          reason : Signals \cup {"duration", "broker-lost"}, triggered : BOOLEAN]

\* What an instance has to give; resolve_shape refuses a swap past the end.
PublisherAssumption ==
  /\ {QueueCap, Ahead, MaxInflight, ConnectTimeout} \subseteq Nat \ {0}
  /\ {SequenceStart, DrainTimeout, DisconnectTimeout, SwapTimeout, MaxLinkErrors} \subseteq Nat
  /\ {DropWhenFull, Prompt} \subseteq BOOLEAN
  /\ Shape.duration \in Nat /\ Horizon > ConnectTimeout + Shape.duration * Sec
  /\ Shape.profile = "hotswap-trigger" => Shape.swapAt \in 0 .. Shape.duration * Sec - 1
  /\ Signals \subseteq {"sigterm", "sigint"} /\ Absent \notin Nat \cup Summaries

VARIABLES pc,        \* where run_publisher is
          now,       \* ticks since the process started
          timer,     \* ticks left of the wait run_publisher is in
          begun,     \* `start`
          duration,  \* schedule_duration, in ticks
          reason,    \* exit_reason
          stop,      \* StopSignal: "none" or the first signal
          link,      \* the watch channel of LinkStats
          task,      \* the event-loop task
          open,      \* which ends that task still holds: "requests", "stats"
          queue,     \* publish requests in the client's queue
          bye,       \* a DISCONNECT request is queued behind them
          inflight,  \* messages sent and not acknowledged
          next,      \* the pacer's next message; Absent once its thread ended
          due,       \* the pacer's channel, message indices
          index,     \* the message being published
          count,     \* offered, errors, lag (recorded samples), misses
          trace,     \* the trace file: <<seq, ts>> rows
          swap,      \* the hot-swap task: its state and what is left of its request's time
          artifact,  \* hotswap_result_path: "none", "ok" or "error"
          summary,   \* summary_file, Absent until it is written
          since      \* ticks since a completed schedule ended (history)

main  == <<pc, timer, begun, duration, reason, index, count, trace, summary>>
net   == <<link, task, open, queue, bye, inflight>>
pacer == <<next, due>>
trig  == <<swap, artifact>>
vars  == <<pc, now, timer, begun, duration, reason, stop, link, task, open, queue, bye,
           inflight, next, due, index, count, trace, swap, artifact, summary, since>>

Final   == {"ok", "failed", "unwritten", "killed"}
Elapsed == now - begun
Offset[n \in Nat] == IF n = 0 THEN 0 ELSE NextOffset(Shape, n, Offset[n - 1])
Enqueued == count.offered - count.errors

Init ==
  /\ pc = "handshake" /\ now = 0 /\ timer = ConnectTimeout /\ begun = 0 /\ duration = 0
  /\ reason = "duration" /\ stop = "none"
  /\ link = [connects |-> 0, acked |-> 0, errors |-> 0, refused |-> FALSE]
  /\ task = "dial" /\ open = {"requests", "stats"}
  /\ queue = 0 /\ bye = FALSE /\ inflight = 0
  /\ next = Absent /\ due = <<>> /\ index = 0
  /\ count = [offered |-> 0, errors |-> 0, lag |-> 0, misses |-> 0]
  /\ trace = <<>> /\ swap = [at |-> "none", left |-> 0] /\ artifact = "none"
  /\ summary = Absent /\ since = 0

-------------------------------------------------------------------------------
(* The publishing task.                                                       *)

\* The clock starts, the swap task is spawned and the pacer thread started.
Begin(d) ==
  /\ pc' = "loop" /\ begun' = now /\ duration' = d /\ timer' = 0
  /\ next' = 0
  /\ swap' = IF Shape.profile = "hotswap-trigger" /\ Shape.swapAt < d
             THEN [swap EXCEPT !.at = "sleeping"] ELSE swap

\* wait_for_connack: the broker accepted the session.
HandshakeDone ==
  /\ pc = "handshake" /\ stop = "none"
  /\ link.connects > 0 /\ ~link.refused
  /\ Begin(Shape.duration * Sec)
  /\ UNCHANGED <<now, reason, stop, net, due, index, count, trace, artifact, summary, since>>

\* A signal before the CONNACK: the run offers nothing but still reports.
HandshakeStopped ==
  /\ pc = "handshake" /\ stop # "none"
  /\ reason' = stop
  /\ Begin(0)
  /\ UNCHANGED <<now, stop, net, due, index, count, trace, artifact, summary, since>>

\* Refused, or no CONNACK in time: the run fails and writes no summary.
HandshakeFailed ==
  /\ pc = "handshake" /\ stop = "none"
  /\ link.refused \/ (timer = 0 /\ link.connects = 0)
  /\ pc' = "failed"
  /\ UNCHANGED <<now, timer, begun, duration, reason, stop, net, pacer, index, count,
                 trace, trig, summary, since>>

TakeTick ==
  /\ pc = "loop" /\ stop = "none" /\ due # <<>>
  /\ pc' = "enqueue" /\ index' = Head(due) /\ due' = Tail(due)
  /\ UNCHANGED <<now, timer, begun, duration, reason, stop, net, next, count, trace,
                 trig, summary, since>>

\* The trace row of message n: its sequence number and its scheduled time.
Row(n) == <<SequenceStart + count.offered, Offset[n]>>

\* Fault: a rejected message leaves a lag sample too.
OfferLagAlways(failed) ==
  count' = [offered |-> count.offered + 1, errors |-> count.errors + (IF failed THEN 1 ELSE 0),
            lag |-> count.lag + 1, misses |-> count.misses]

\* What an iteration counts once its message was handed over or refused.
Offer(failed) ==
  count' = [offered |-> count.offered + 1,
            errors  |-> count.errors + (IF failed THEN 1 ELSE 0),
            lag     |-> count.lag + (IF failed THEN 0 ELSE 1),
            misses  |-> count.misses + (IF Elapsed >= Offset[index + 1] THEN 1 ELSE 0)]

Enqueue ==
  /\ pc = "enqueue" /\ stop = "none"
  /\ "requests" \in open /\ queue < QueueCap
  /\ queue' = queue + 1
  /\ trace' = Append(trace, Row(index))
  /\ Offer(FALSE)
  /\ pc' = "loop"
  /\ UNCHANGED <<now, timer, begun, duration, reason, stop, link, task, open, bye, inflight,
                 pacer, index, trig, summary, since>>

\* The client's queue is gone, or full and --drop-when-full is set.
Refuse ==
  /\ pc = "enqueue" /\ stop = "none"
  /\ "requests" \notin open \/ (DropWhenFull /\ queue = QueueCap)
  /\ trace' = Append(trace, Row(index))
  /\ IF "stats" \in open
     THEN Offer(TRUE) /\ pc' = "loop" /\ UNCHANGED <<reason, next, due>>
     ELSE /\ reason' = "broker-lost" /\ pc' = "drained"
          /\ due' = <<>> /\ UNCHANGED <<count, next>>
  /\ UNCHANGED <<now, timer, begun, duration, stop, net, index, trig, summary, since>>

\* A stop signal ends the loop; the message in hand is not counted.
LoopStopped ==
  /\ pc \in {"loop", "enqueue"} /\ stop # "none"
  /\ reason' = stop /\ pc' = "drained" /\ due' = <<>>
  /\ UNCHANGED <<now, timer, begun, duration, stop, net, next, index, count, trace,
                 trig, summary, since>>

\* The pacer's channel closed.
ScheduleDone ==
  /\ pc = "loop" /\ stop = "none" /\ due = <<>> /\ next = Absent
  /\ IF reason = "duration" THEN pc' = "drain" /\ timer' = DrainTimeout
                            ELSE pc' = "drained" /\ UNCHANGED timer
  /\ UNCHANGED <<now, begun, duration, reason, stop, net, pacer, index, count, trace,
                 trig, summary, since>>

\* Every message acknowledged, the event loop gone, the timeout or a signal.
DrainEnds ==
  /\ pc = "drain"
  /\ \/ stop # "none" /\ reason' = stop
     \/ /\ stop = "none" /\ UNCHANGED reason
        /\ link.acked >= Enqueued \/ "stats" \notin open \/ timer = 0
  /\ pc' = "drained"
  /\ UNCHANGED <<now, timer, begun, duration, stop, net, pacer, index, count, trace,
                 trig, summary, since>>

\* The counters the report will carry are read before the disconnect.
Snapshot ==
  /\ pc = "drained"
  /\ summary' = [pending |-> TRUE, acked |-> link.acked, connects |-> link.connects]
  /\ pc' = "disconnect"
  /\ UNCHANGED <<now, timer, begun, duration, reason, stop, net, pacer, index, count, trace,
                 trig, since>>

\* client.disconnect() waits for room in the request queue.
Disconnect ==
  /\ pc = "disconnect"
  /\ \/ "requests" \notin open /\ UNCHANGED bye
     \/ "requests" \in open /\ queue < QueueCap /\ bye' = TRUE
  /\ pc' = "join" /\ timer' = DisconnectTimeout
  /\ UNCHANGED <<now, begun, duration, reason, stop, link, task, open, queue, inflight, pacer,
                 index, count, trace, trig, summary, since>>

\* The event-loop task ended, or is aborted after the timeout.
Join ==
  /\ pc = "join"
  /\ \/ task = "over" /\ UNCHANGED <<task, open>>
     \/ timer = 0 /\ task # "over" /\ task' = "over" /\ open' = {}
  /\ pc' = "swap"
  /\ UNCHANGED <<now, timer, begun, duration, reason, stop, link, queue, bye, inflight, pacer,
                 index, count, trace, trig, summary, since>>

(* The swap task is aborted unless the schedule completed, otherwise awaited. *)
JoinSwap ==
  /\ pc = "swap"
  /\ IF reason # "duration" /\ swap.at # "none"
     THEN swap' = [swap EXCEPT !.at = CASE @ = "sleeping" -> "cancelled"
                                        [] @ = "posting" -> "aborted"
                                        [] OTHER -> @]
     ELSE swap.at \in {"none", "ok", "failed"} /\ UNCHANGED swap
  /\ pc' = "report"
  /\ UNCHANGED <<now, timer, begun, duration, reason, stop, net, pacer, index, count, trace,
                 artifact, summary, since>>

SwapFailure == reason = "duration" /\ swap.at = "failed"

\* The summary is written first, then a failed swap fails the run.
Report ==
  /\ pc = "report"
  /\ summary' = [pending |-> FALSE, intended |-> count.offered, rejected |-> count.errors,
                 enqueued |-> Enqueued, acked |-> summary.acked,
                 unacked |-> IF Enqueued > summary.acked THEN Enqueued - summary.acked ELSE 0,
                 connects |-> summary.connects, lag |-> count.lag, reason |-> reason,
                 triggered |-> Shape.profile = "hotswap-trigger" /\ Shape.swapAt < duration
                               /\ ~SwapFailure]
  /\ pc' = IF SwapFailure THEN "failed" ELSE "ok"
  /\ UNCHANGED <<now, timer, begun, duration, reason, stop, net, pacer, index, count, trace,
                 trig, since>>

(* The timing receipt, the trace or the summary cannot be written: the run    *)
(* ends with the error, and the process takes the message in hand, the rows   *)
(* not flushed yet, the client and the swap task with it.                     *)
WriteFails ==
  /\ \/ pc = "handshake" /\ (stop # "none" \/ (link.connects > 0 /\ ~link.refused))
     \/ pc = "enqueue" /\ ("requests" \notin open \/ queue < QueueCap \/ DropWhenFull)
     \/ pc \in {"loop", "enqueue"} /\ stop # "none"
     \/ pc = "loop" /\ due = <<>> /\ next = Absent
     \/ pc = "report"
  /\ pc' = "unwritten"
  /\ UNCHANGED <<now, timer, begun, duration, reason, stop, net, pacer, index, count, trace,
                 trig, summary, since>>

-------------------------------------------------------------------------------
(* The stop signals: the first is kept, the second exits at once.             *)

Signal(s) ==
  /\ pc \notin Final
  /\ IF stop = "none" THEN stop' = s /\ UNCHANGED pc
                      ELSE pc' = "killed" /\ UNCHANGED stop
  /\ UNCHANGED <<now, timer, begun, duration, reason, net, pacer, index, count, trace,
                 trig, summary, since>>

(* The pacer thread.  The receiver is dropped when the loop ends.             *)

Pace ==
  /\ next # Absent /\ pc \notin Final
  /\ \/ /\ Offset[next] >= duration \/ pc \notin {"loop", "enqueue"}
        /\ next' = Absent /\ UNCHANGED due
     \/ /\ Offset[next] < duration /\ pc \in {"loop", "enqueue"}
        /\ Elapsed >= Offset[next] /\ Len(due) < Ahead
        /\ due' = Append(due, next) /\ next' = next + 1
  /\ UNCHANGED <<main, now, stop, net, trig, since>>

(* The event-loop task and the broker behind it.                              *)

LinkUp ==
  /\ task = "dial" /\ task' = "up"
  /\ link' = [link EXCEPT !.connects = @ + 1]
  /\ UNCHANGED <<open, queue, bye, inflight>>

LinkRefused ==
  /\ task = "dial" /\ task' = "ending"
  /\ link' = [link EXCEPT !.refused = TRUE]
  /\ UNCHANGED <<open, queue, bye, inflight>>

\* A failed connection attempt, or a connection lost with all it held.
LinkFails ==
  /\ task \in {"dial", "up"} /\ link.errors < MaxLinkErrors
  /\ link' = [link EXCEPT !.errors = @ + 1]
  /\ task' = "backoff"
  /\ IF task = "up" THEN queue' = 0 /\ bye' = FALSE /\ inflight' = 0
                    ELSE UNCHANGED <<queue, bye, inflight>>
  /\ UNCHANGED open

LinkRetries == task = "backoff" /\ task' = "dial" /\ UNCHANGED <<link, open, queue, bye, inflight>>

Send ==
  /\ task = "up"
  /\ \/ /\ queue > 0 /\ inflight < MaxInflight
        /\ queue' = queue - 1 /\ inflight' = inflight + 1 /\ UNCHANGED <<task, bye>>
     \/ /\ queue = 0 /\ bye
        /\ task' = "ending" /\ bye' = FALSE /\ UNCHANGED <<queue, inflight>>
  /\ UNCHANGED <<link, open>>

Ack ==
  /\ task = "up" /\ inflight > 0
  /\ inflight' = inflight - 1
  /\ link' = [link EXCEPT !.acked = @ + 1]
  /\ UNCHANGED <<task, open, queue, bye>>

\* The ended task drops its two ends, in either order.
TaskEnds ==
  /\ task = "ending"
  /\ \E e \in open : open' = open \ {e}
  /\ task' = IF open' = {} THEN "over" ELSE "ending"
  /\ UNCHANGED <<link, queue, bye, inflight>>

EventLoop ==
  /\ pc \notin Final
  /\ LinkUp \/ LinkRefused \/ LinkFails \/ LinkRetries \/ Send \/ Ack \/ TaskEnds
  /\ UNCHANGED <<main, now, stop, pacer, trig, since>>

(* The hot-swap trigger task.                                                 *)

SwapFires ==
  /\ swap.at = "sleeping" /\ Elapsed >= Shape.swapAt
  /\ swap' = [at |-> "posting", left |-> SwapTimeout]
  /\ UNCHANGED artifact

\* A response, a transport error or the timeout; the artifact is written either way.
SwapAnswers ==
  /\ swap.at = "posting"
  /\ \/ swap' = [swap EXCEPT !.at = "ok"] /\ artifact' = "ok"
     \/ swap' = [swap EXCEPT !.at = "failed"] /\ artifact' = "error"
     \/ swap' = [swap EXCEPT !.at = "failed"] /\ UNCHANGED artifact   \* the write failed

Trigger ==
  /\ pc \notin Final /\ (SwapFires \/ SwapAnswers)
  /\ UNCHANGED <<main, now, stop, net, pacer, since>>

-------------------------------------------------------------------------------
Main == \/ HandshakeDone \/ HandshakeStopped \/ HandshakeFailed
        \/ TakeTick \/ Enqueue \/ Refuse \/ LoopStopped \/ ScheduleDone
        \/ DrainEnds \/ Snapshot \/ Disconnect \/ Join \/ JoinSwap \/ Report

\* A task that could run without waiting for time, a peer or a signal.
Ready ==
  \/ pc \in {"drained", "report"}
  \/ stop # "none" /\ pc \in {"handshake", "loop", "enqueue", "drain"}
  \/ pc = "loop" /\ (due # <<>> \/ next = Absent)
  \/ pc = "enqueue" /\ (DropWhenFull \/ queue < QueueCap \/ "requests" \notin open)
  \/ pc = "drain" /\ link.acked >= Enqueued
  \/ pc = "disconnect" /\ (queue < QueueCap \/ "requests" \notin open)
  \/ pc = "join" /\ task = "over"
  \/ pc = "swap" /\ (reason # "duration" \/ swap.at \in {"none", "ok", "failed"})
  \/ next # Absent /\ Elapsed >= Offset[next] /\ Len(due) < Ahead /\ pc \in {"loop", "enqueue"}

\* A deadline that has passed is acted on before the clock goes on.
Overdue ==
  \/ timer = 0 /\ pc \in {"handshake", "drain", "join"}
  \/ swap.at = "sleeping" /\ Elapsed >= Shape.swapAt
  \/ swap.at = "posting" /\ swap.left = 0

Dec(n) == IF n > 0 THEN n - 1 ELSE 0

Tick ==
  /\ pc \notin Final /\ ~Overdue /\ (Prompt => ~Ready)
  /\ now < Horizon \/ timer > 0 \/ swap.at = "posting"
  /\ now' = IF now < Horizon THEN now + 1 ELSE now
  /\ timer' = Dec(timer)
  /\ swap' = [swap EXCEPT !.left = Dec(@)]
  /\ since' = IF pc \in {"drain", "drained", "disconnect", "join", "swap", "report"}
                 /\ reason = "duration" /\ since <= DrainTimeout + DisconnectTimeout
              THEN since + 1 ELSE since
  /\ UNCHANGED <<pc, begun, duration, reason, stop, net, pacer, index, count, trace, artifact, summary>>

Next == Main \/ WriteFails \/ Pace \/ EventLoop \/ Trigger \/ Tick \/ (\E s \in Signals : Signal(s))

\* The broker serves its link in the end; tasks and the pacer keep running.
Serve == EventLoop /\ (LinkUp \/ LinkRetries \/ Send \/ Ack \/ TaskEnds)

Spec == /\ Init /\ [][Next]_vars
        /\ WF_vars(Main) /\ WF_vars(Pace) /\ WF_vars(Trigger) /\ WF_vars(Tick)
        /\ WF_vars(Serve)

-------------------------------------------------------------------------------
Reported == pc \in Final /\ summary # Absent /\ ~summary.pending
Population == Cardinality({n \in 0 .. Shape.duration * Sec : Offset[n] < Shape.duration * Sec})

\* Types, and what the client holds never exceeds what was handed to it.
PubTypeOK ==
  /\ stop \in Signals \cup {"none"}
  /\ reason \in Signals \cup {"duration", "broker-lost"}
  /\ task \in {"dial", "up", "backoff", "ending", "over"}
  /\ queue \in 0 .. QueueCap /\ inflight \in 0 .. MaxInflight
  /\ Len(due) <= Ahead
  /\ swap.at \in {"none", "sleeping", "posting", "ok", "failed", "cancelled", "aborted"}
  /\ artifact \in {"none", "ok", "error"}
  /\ summary \in Summaries \cup {Absent}
  /\ link.acked + inflight + queue <= Enqueued

(* The summary reconciles however the run ended, with rejected messages, lost *)
(* connections and signals at any point: what was intended was rejected or    *)
(* enqueued, what was enqueued is acknowledged or not, and every enqueued     *)
(* message has a lag sample (PublisherReport, "enqueued = acked + unacked").  *)
Reconciles ==
  Reported => /\ summary.intended = summary.rejected + summary.enqueued
              /\ summary.enqueued = summary.acked + summary.unacked
              /\ summary.lag = summary.enqueued

(* A run that reports its schedule completed offered the whole population of  *)
(* the schedule, however long it was blocked on a full queue on the way.      *)
WholePopulation ==
  Reported /\ summary.reason = "duration" => summary.intended = Population

(* The trace lists the offered messages without a gap, each with its          *)
(* scheduled time however late it left (open loop); only a session that ended *)
(* for good leaves one row more than was offered.                             *)
TraceIsSchedule ==
  /\ \A i \in DOMAIN trace : trace[i] = <<SequenceStart + i - 1, Offset[i - 1]>>
  /\ Len(trace) = count.offered + (IF reason = "broker-lost" THEN 1 ELSE 0)

(* A run with a swap that ends well has swapped and can show it; one whose    *)
(* swap failed has written its summary first (run_publisher, "A failed swap   *)
(* fails the run, but only after the summary is written").                    *)
SwapDecidesRun ==
  /\ pc = "ok" /\ reason = "duration" /\ Shape.profile = "hotswap-trigger" =>
       swap.at = "ok" /\ artifact = "ok"
  /\ pc = "failed" /\ duration > 0 => Reported /\ artifact # "ok"

(* "The longest a publisher that completed its schedule takes to exit after   *)
(* it" (EXIT_DRAIN_SECS).                                                     *)
ExitBounded == since <= DrainTimeout + DisconnectTimeout

(* "the offset (secs) at which the swap was triggered" (PublisherReport): a   *)
(* reported trigger means the request was sent.                               *)
TriggerReported == Reported /\ summary.triggered => swap.at # "cancelled"
===============================================================================
