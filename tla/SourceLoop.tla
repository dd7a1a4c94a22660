----------------------------- MODULE SourceLoop -----------------------------
(***************************************************************************)
(* run_source_loop around one source adapter.  The adapter's module says   *)
(* what a poll() gives; this one what the loop makes of it.                *)
(***************************************************************************)
EXTENDS Integers, Sequences, SequencesExt

CONSTANT MaxPollErrors      \* MAX_CONSECUTIVE_POLL_ERRORS

\* What an instance has to give.
LoopAssumption == MaxPollErrors \in Nat \ {0}

VARIABLES
    phase,      \* "run", "send", "backoff", "close", "done"
    cancelled,
    pollErrors, \* consecutive_errors
    emitted,    \* what was sent downstream, in order
    result      \* outcome

loopVars == <<phase, cancelled, pollErrors, emitted, result>>

LoopInit ==
    /\ phase = "run"
    /\ cancelled = FALSE
    /\ pollErrors = 0
    /\ emitted = <<>>
    /\ result = "ok"

\* The select is biased: a poll's answer is taken only if the token is not set.
Polls == phase = "run" /\ ~cancelled

PollSome(m) ==
    /\ Polls
    /\ pollErrors' = 0
    /\ emitted' = Append(emitted, m)
    /\ phase' = "send"
    /\ UNCHANGED <<cancelled, result>>

PollNone ==
    /\ Polls
    /\ phase' = "close"
    /\ UNCHANGED <<cancelled, pollErrors, emitted, result>>

PollError ==
    /\ Polls
    /\ pollErrors' = pollErrors + 1
    /\ IF pollErrors + 1 >= MaxPollErrors
       THEN phase' = "close" /\ result' = "failed"
       ELSE phase' = "backoff" /\ UNCHANGED result
    /\ UNCHANGED <<cancelled, emitted>>

\* send_downstream returns: how long it waits is up to the queues below.
Sent ==
    /\ phase = "send"
    /\ phase' = "run"
    /\ UNCHANGED <<cancelled, pollErrors, emitted, result>>

\* Fault: continue where the loop should break.
LeaveContinues ==
    /\ phase \in {"run", "backoff"}
    /\ cancelled
    /\ UNCHANGED loopVars

Leave ==
    /\ phase \in {"run", "backoff"}
    /\ cancelled
    /\ phase' = "close"
    /\ UNCHANGED <<cancelled, pollErrors, emitted, result>>

BackoffEnds ==
    /\ phase = "backoff"
    /\ ~cancelled
    /\ phase' = "run"
    /\ UNCHANGED <<cancelled, pollErrors, emitted, result>>

Cancel ==
    /\ ~cancelled
    /\ cancelled' = TRUE
    /\ UNCHANGED <<phase, pollErrors, emitted, result>>

\* The loop's own steps, apart from polling and closing.
LoopStep == Sent \/ Leave \/ BackoffEnds

Closed ==
    /\ phase = "close"
    /\ phase' = "done"
    /\ UNCHANGED <<cancelled, pollErrors, emitted, result>>

LoopTypeOK ==
    /\ phase \in {"run", "send", "backoff", "close", "done"}
    /\ {cancelled} \subseteq BOOLEAN
    /\ pollErrors \in 0..MaxPollErrors
    /\ result \in {"ok", "failed"}

\* Messages go downstream in the order the adapter met them, none twice.
EmittedInOrder ==
    \A i, j \in 1..Len(emitted) : i < j => emitted[i] < emitted[j]

=============================================================================
