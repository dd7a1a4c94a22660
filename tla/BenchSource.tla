----------------------------- MODULE BenchSource -----------------------------
(***************************************************************************)
(* BenchSource: a pacer thread sleeps until each message is due and hands  *)
(* its number over a bounded channel; poll() takes the numbers and stamps  *)
(* messages.  The pipeline may block the source between two polls, and may *)
(* drop a poll that waits (cancellation) or the source itself.             *)
(***************************************************************************)
EXTENDS BenchSchedule

CONSTANTS
    PacerAhead,     \* PACER_AHEAD
    MaxStart,       \* bound: the latest first poll
    Slack           \* bound: how far the clock runs past the last due time

\* What an instance has to give.
SourceAssumption == PacerAhead \in Nat \ {0} /\ {MaxStart, Slack} \subseteq Nat

VARIABLES
    now,            \* the monotonic clock
    pacer,          \* "none", "running" or "ended"
    origin,         \* when the pacer was started
    next,           \* the number the pacer thread works on
    due,            \* its channel
    polling,        \* is a poll() future alive?
    sequence,       \* BenchSource.sequence
    phaseCounts,    \* emitted_phase_counts
    completedAt,    \* measurement_completed_offset_ns
    emitted,        \* history: the stamps of the messages returned by poll()
    alive,          \* the source has not been closed and dropped
    summary         \* burst-source-summary.json: "none", "written" or "failed"

sourceVars == <<polling, sequence, phaseCounts, completedAt, emitted, alive, summary>>
vars == <<now, pacer, origin, next, due, sourceVars>>

MaxTime == MaxStart + ScheduleOffset(Total - 1) + Slack
Phases == {"before", "burst", "after"}

SourceTypeOK ==
    /\ now \in 0 .. MaxTime
    /\ pacer \in {"none", "running", "ended"}
    /\ origin \in -1 .. MaxTime
    /\ next \in 0 .. Total
    /\ due \in Seq(0 .. Total) /\ Len(due) <= PacerAhead
    /\ polling \in BOOLEAN /\ alive \in BOOLEAN
    /\ sequence \in 0 .. Total
    /\ phaseCounts \in [Phases -> Nat]
    /\ completedAt \in -1 .. MaxTime
    /\ Len(emitted) <= Total
    /\ summary \in {"none", "written", "failed"}

Init ==
    /\ now = 0
    /\ pacer = "none" /\ origin = -1 /\ next = 0 /\ due = <<>>
    /\ polling = FALSE /\ sequence = 0 /\ completedAt = -1
    /\ phaseCounts = [p \in Phases |-> 0]
    /\ emitted = <<>>
    /\ alive = TRUE
    /\ summary = "none"

-----------------------------------------------------------------------------
\* The runner asks for the next message.  All messages are out: poll returns
\* None, noting once when the schedule was completed.
PollEnd ==
    /\ alive /\ ~polling /\ sequence >= Total
    /\ completedAt' = IF completedAt = -1 /\ HasBurst /\ pacer # "none"
                      THEN LET late == now - MeasurementStart(origin)
                           IN IF late < 0 THEN 0 ELSE late
                      ELSE completedAt
    /\ UNCHANGED <<now, pacer, origin, next, due, polling, sequence, phaseCounts,
                   emitted, alive, summary>>

\* The first poll that waits starts the pacer; every poll then waits for it.
PollBegin ==
    /\ alive /\ ~polling /\ sequence < Total
    /\ polling' = TRUE
    /\ IF pacer = "none" THEN pacer' = "running" /\ origin' = now
       ELSE UNCHANGED <<pacer, origin>>
    /\ UNCHANGED <<now, next, due, sequence, phaseCounts, completedAt, emitted, alive, summary>>

\* start_pacer fails after the thread runs: burst-source-timing.json could not be
\* written.  This poll errs, the next one finds the pacer.
PollTimingFails ==
    /\ alive /\ ~polling /\ sequence < Total /\ pacer = "none" /\ HasBurst
    /\ pacer' = "running"
    /\ origin' = now
    /\ UNCHANGED <<now, next, due, sourceVars>>

Emit(n) ==
    /\ sequence' = n + 1
    /\ phaseCounts' = IF BurstPhase(n) = "none" THEN phaseCounts
                      ELSE [phaseCounts EXCEPT ![BurstPhase(n)] = @ + 1]
    /\ emitted' = Append(emitted, StampsOf(n, origin, now))

PollReady ==
    /\ polling /\ due # <<>>
    /\ polling' = FALSE
    /\ due' = Tail(due)
    /\ Emit(Head(due))
    /\ UNCHANGED <<now, pacer, origin, next, completedAt, alive, summary>>

\* Fault: a dropped poll() takes the number it waited for with it.
PollCancelledLoses ==
    /\ polling
    /\ polling' = FALSE
    /\ due' = IF due = <<>> THEN due ELSE Tail(due)
    /\ UNCHANGED <<now, pacer, origin, next, sequence, phaseCounts, completedAt,
                   emitted, alive, summary>>

\* The runner drops a poll() that waits: the receiver keeps what it holds.
PollCancelled ==
    /\ polling
    /\ polling' = FALSE
    /\ UNCHANGED <<now, pacer, origin, next, due, sequence, phaseCounts, completedAt,
                   emitted, alive, summary>>

\* close() writes the summary, then the node and with it the receiver is dropped.
Close ==
    /\ alive /\ ~polling
    /\ alive' = FALSE
    /\ summary' \in IF HasBurst THEN {"written", "failed"} ELSE {"none"}
    /\ UNCHANGED <<now, pacer, origin, next, due, polling, sequence, phaseCounts,
                   completedAt, emitted>>

\* The pacer thread: awake at the due time, with room in the channel.
DueAt(n) == origin + ScheduleOffset(n)

PacerSend ==
    /\ pacer = "running" /\ next < Total /\ now >= DueAt(next)
    /\ alive /\ Len(due) < PacerAhead
    /\ due' = Append(due, next)
    /\ next' = next + 1
    /\ pacer' = IF next + 1 = Total THEN "ended" ELSE "running"
    /\ UNCHANGED <<now, origin, sourceVars>>

\* Its receiver is gone: blocking_send fails and the thread returns.
PacerStop ==
    /\ pacer = "running" /\ next < Total /\ now >= DueAt(next) /\ ~alive
    /\ pacer' = "ended"
    /\ UNCHANGED <<now, origin, next, due, sourceVars>>

Tick ==
    /\ now < IF pacer = "none" THEN MaxStart ELSE DueAt(Total - 1) + Slack
    /\ now' = now + 1
    /\ UNCHANGED <<pacer, origin, next, due, sourceVars>>

Next == PollEnd \/ PollBegin \/ PollTimingFails \/ PollReady \/ PollCancelled \/ Close
        \/ PacerSend \/ PacerStop \/ Tick

(***************************************************************************)
(* The thread runs and the clock advances.  The runner polls again until   *)
(* the source ends or is dropped; a waiting poll with a message returns it.*)
(***************************************************************************)
Spec == Init /\ [][Next]_vars /\ WF_vars(PacerSend) /\ WF_vars(PacerStop) /\ WF_vars(Tick)
             /\ WF_vars(PollBegin) /\ SF_vars(PollReady)

-----------------------------------------------------------------------------
(***************************************************************************)
(* Properties.                                                             *)
(***************************************************************************)
\* Every message carries the due time the schedule gave it when the pacer
\* started, however long the source was blocked, cancelled or late (no
\* coordinated omission), and none leaves before it is due.
OpenLoop ==
    \A i \in 1 .. Len(emitted) :
        /\ emitted[i].intended = origin + ScheduleOffset(emitted[i].sequence)
        /\ emitted[i].emit >= emitted[i].intended
        /\ \A j \in 1 .. i - 1 : emitted[j].intended <= emitted[i].intended

\* Numbers leave in order with none lost or repeated across cancelled polls, so
\* the gap accounting of the sink blames the pipeline and never the source.
NoneLost ==
    /\ \A i \in 1 .. Len(emitted) : emitted[i].sequence = i - 1
    /\ sequence = Len(emitted)
    /\ \A i \in 1 .. Len(due) : due[i] = sequence + i - 1

\* A message of a burst experiment is stamped "burst" exactly when its due time
\* lies in the burst window, and the per-phase counts in the summary are those
\* of the messages that left.
PhasesFollowClock ==
    /\ \A i \in 1 .. Len(emitted) :
          LET m == emitted[i]
              at == m.intended - m.origin
          IN m.phase # "none" =>
               /\ (m.phase = "before") = (at < BurstStart * Sec)
               /\ (m.phase = "after") = (at >= BurstEnd * Sec)
    /\ \A p \in Phases :
          phaseCounts[p] = Cardinality({i \in 1 .. Len(emitted) : emitted[i].phase = p})

=============================================================================
