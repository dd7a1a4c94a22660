---------------------------- MODULE Replacement ----------------------------
(***************************************************************************)
(* What a node promises those who ask it for another plugin or another     *)
(* configuration while it runs.  A request is admitted one at a time,      *)
(* offered, and from then on decided once: it is withdrawn, it fails, or   *)
(* it is adopted, and an adopted plugin may be undone by going back to     *)
(* exactly what it replaced.  What the caller is told is so when it is     *)
(* told.  There is no signal, no lifecycle call, no message and no clock   *)
(* here: only who may decide what.                                         *)
(***************************************************************************)
CONSTANTS
    Req,        \* the requests
    Initial,    \* the plugin and the configuration the node starts with
    None

VARIABLES
    stage,      \* how far each request has come
    kind,       \* "replace" asks for a plugin, "reconfigure" for a configuration
    expected,   \* the plugin a reconfigure is meant for, None if any
    busy,       \* the request that is admitted and not yet answered
    told,       \* the answer a request was given, None before
    running,    \* the plugin and the configuration in use
    fallback,   \* what was in use before, as long as it may be gone back to
    alive       \* the node has not ended

vars == <<stage, kind, expected, busy, told, running, fallback, alive>>

Init ==
    /\ stage = [r \in Req |-> "new"]
    /\ kind = [r \in Req |-> "replace"]
    /\ expected = [r \in Req |-> None]
    /\ busy = None
    /\ told = [r \in Req |-> None]
    /\ running = [plugin |-> Initial, config |-> Initial]
    /\ fallback = None
    /\ alive = TRUE

-----------------------------------------------------------------------------
(* The callers. *)

Admit(r, k, p) ==
    /\ busy = None /\ stage[r] = "new" /\ told[r] = None
    /\ busy' = r
    /\ kind' = [kind EXCEPT ![r] = k]
    /\ expected' = [expected EXCEPT ![r] = p]
    /\ UNCHANGED <<stage, told, running, fallback, alive>>

Moves(r, from, to) == stage[r] = from /\ stage' = [stage EXCEPT ![r] = to]

Offer(r) ==
    /\ busy = r /\ alive
    /\ Moves(r, "new", "offered")
    /\ UNCHANGED <<kind, expected, busy, told, running, fallback, alive>>

Withdraw(r) ==
    /\ busy = r
    /\ Moves(r, "offered", "withdrawn")
    /\ UNCHANGED <<kind, expected, busy, told, running, fallback, alive>>

\* What makes an answer to an admitted request true.
Holds(r, answer) ==
    CASE answer = "prepare_failed" -> stage[r] = "new" /\ kind[r] = "replace"
      [] answer = "409_hash" -> /\ stage[r] = "new" /\ kind[r] = "reconfigure"
                                /\ expected[r] \notin {None, running.plugin}
      [] answer = "404" -> stage[r] = "new" /\ ~alive
      [] answer = "504" -> stage[r] = "withdrawn"
      [] answer = "409_init" -> stage[r] = "failed"
      [] answer = "202_unknown" -> stage[r] = "taken"
      [] answer = "rolled_back" -> stage[r] = "undone"
      [] answer \in {"200", "202_adopted"} -> stage[r] \in {"adopted", "undone"}

Answers == {"prepare_failed", "409_hash", "404", "504", "409_init", "202_unknown",
            "rolled_back", "200", "202_adopted"}

Answer(r, answer) ==
    /\ busy = r /\ told[r] = None
    /\ Holds(r, answer)
    /\ told' = [told EXCEPT ![r] = answer]
    /\ busy' = None
    /\ UNCHANGED <<stage, kind, expected, running, fallback, alive>>

\* Another request is admitted: nothing comes of this one.
TurnAway(r) ==
    /\ busy \notin {r, None} /\ stage[r] = "new" /\ told[r] = None
    /\ told' = [told EXCEPT ![r] = "409_busy"]
    /\ UNCHANGED <<stage, kind, expected, busy, running, fallback, alive>>

\* The caller leaves; an offer it has made stands.
Abandon(r) ==
    /\ busy = r /\ busy' = None
    /\ UNCHANGED <<stage, kind, expected, told, running, fallback, alive>>

-----------------------------------------------------------------------------
(* The node. *)

\* One request at a time, and from here on it is not the caller's.
Take(r) ==
    /\ alive /\ \A q \in Req : stage[q] # "taken"
    /\ Moves(r, "offered", "taken")
    /\ fallback' \in {fallback, None}
    /\ UNCHANGED <<kind, expected, busy, told, running, alive>>

\* A plugin comes with the configuration there is, and may be undone; a
\* configuration goes to the plugin there is, and may not.
Adopt(r) ==
    /\ alive
    /\ Moves(r, "taken", "adopted")
    /\ IF kind[r] = "replace"
       THEN running' = [running EXCEPT !.plugin = r] /\ fallback' \in {running, None}
       ELSE running' = [running EXCEPT !.config = r] /\ fallback' = None
    /\ UNCHANGED <<kind, expected, busy, told, alive>>

Fail(r) ==
    /\ alive
    /\ Moves(r, "taken", "failed")
    /\ UNCHANGED <<kind, expected, busy, told, running, fallback, alive>>

\* The plugin in use is given up for what it replaced.
Undo ==
    /\ alive /\ fallback # None
    /\ running.plugin \in Req
    /\ Moves(running.plugin, "adopted", "undone")
    /\ running' = fallback /\ fallback' = None
    /\ UNCHANGED <<kind, expected, busy, told, alive>>

Settle ==
    /\ fallback' = None
    /\ UNCHANGED <<stage, kind, expected, busy, told, running, alive>>

\* The node ends, with no request undecided in its hands.
Stop ==
    /\ alive /\ \A q \in Req : stage[q] # "taken"
    /\ alive' = FALSE
    /\ UNCHANGED <<stage, kind, expected, busy, told, running, fallback>>

-----------------------------------------------------------------------------
Caller(r) ==
    \/ \E k \in {"replace", "reconfigure"}, p \in Req \cup {Initial, None} : Admit(r, k, p)
    \/ Offer(r) \/ Withdraw(r) \/ TurnAway(r) \/ Abandon(r)
    \/ \E answer \in Answers : Answer(r, answer)

Node == Undo \/ Settle \/ Stop \/ \E r \in Req : Take(r) \/ Adopt(r) \/ Fail(r)

Next == Node \/ \E r \in Req : Caller(r)

Spec == Init /\ [][Next]_vars
=============================================================================
