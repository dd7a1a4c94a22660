------------------------------ MODULE HotSwap ------------------------------
(***************************************************************************)
(* The control API's hot_swap and reconfigure handlers, composed with the  *)
(* runner of the node they replace (NodeRunner).  Handlers run in their    *)
(* own tasks: they take the node's mutation guard, prepare a payload,      *)
(* publish it in the watch slot and wait, first 5 s for the outcome, then, *)
(* if the runner has claimed the payload, up to 30 s for the adoption.     *)
(* The web server drops a handler whose client disconnects.                *)
(***************************************************************************)
EXTENDS NodeRunner

VARIABLES
    guard,      \* swap_in_progress: the request that holds the SwapGuard
    hpc,        \* where each request's handler is
    kind,       \* "replace" (hot_swap) or "reconfigure"
    expected,   \* expected_plugin_hash of a reconfigure, None if absent
    resp        \* the answer, None until it is given

apiVars == <<guard, hpc, kind, expected, resp>>
allVars == <<vars, apiVars>>

Active == {"preparing", "ready", "waiting", "unfinished", "retract", "settling"}
Answers == {"200", "rolled_back", "202_adopted", "202_unknown", "404", "409_busy",
            "409_hash", "409_init", "prepare_failed", "504"}

\* No outcome, no answer and no instance is Option::None.
ASSUME ApiAssumption ==
    None \notin Answers \cup {"ok", "init_failed", "rolled_back"} \cup Instance

ApiTypeOK ==
    /\ TypeOK
    /\ guard \in Req \cup {None}
    /\ hpc \in [Req -> Active \cup {"idle", "answered", "gone"}]
    /\ kind \in [Req -> {"replace", "reconfigure"}]
    /\ expected \in [Req -> Plugin \cup {None}]
    /\ resp \in [Req -> Answers \cup {None}]

ApiInit ==
    /\ Init
    /\ guard = None
    /\ hpc = [r \in Req |-> "idle"]
    /\ kind = [r \in Req |-> "replace"]
    /\ expected = [r \in Req |-> None]
    /\ resp = [r \in Req |-> None]

-----------------------------------------------------------------------------
\* The answer is sent and the SwapGuard, if this handler has it, dropped.
Answer(r, a) ==
    /\ resp' = [resp EXCEPT ![r] = a]
    /\ hpc' = [hpc EXCEPT ![r] = "answered"]
    /\ guard' = IF guard = r THEN None ELSE guard
    /\ UNCHANGED <<kind, expected>>

Goto(r, place) ==
    /\ hpc' = [hpc EXCEPT ![r] = place]
    /\ UNCHANGED <<guard, kind, expected, resp>>

\* Fault: the flag is not tested before it is set.
GuardIgnored == TRUE

GuardFree == guard = None

\* try_begin_swap: one request per node at a time.
Begin(r, k, h) ==
    /\ hpc[r] = "idle"
    /\ k = "replace" => h = None
    /\ IF GuardFree
       THEN /\ guard' = r
            /\ hpc' = [hpc EXCEPT ![r] = "preparing"]
            /\ kind' = [kind EXCEPT ![r] = k]
            /\ expected' = [expected EXCEPT ![r] = h]
            /\ UNCHANGED resp
       ELSE Answer(r, "409_busy")
    /\ UNCHANGED vars

\* prepare_*_swap_timed: the plugin is compiled and instantiated, aside from
\* the running node, or is not.
Prepared(r) == Goto(r, "ready") \/ Answer(r, "prepare_failed")

\* hot_swap grants the capabilities, reads the file, prepares and hashes it.
Prepare(r) ==
    /\ hpc[r] = "preparing"
    /\ kind[r] = "replace"
    /\ Prepared(r)
    /\ UNCHANGED vars

\* reconfigure compares the registry with the hash its caller expects.
verify_plugin_hash(r) ==
    /\ hpc[r] = "preparing"
    /\ kind[r] = "reconfigure"
    /\ IF expected[r] \in {None, hash} THEN Goto(r, "ready") ELSE Answer(r, "409_hash")
    /\ UNCHANGED vars

\* send_swap fails only when the runner has dropped its receiver.
send_swap(r) ==
    /\ hpc[r] = "ready"
    /\ IF pc = "done"
       THEN Answer(r, "404") /\ UNCHANGED vars
       ELSE Goto(r, "waiting") /\ Publish(r, kind[r])

\* The outcome the runner reported reaches the waiting handler.
AnswerOf(outcome) ==
    CASE outcome = "ok" -> "200"
      [] outcome = "rolled_back" -> "rolled_back"
      [] outcome = "init_failed" -> "409_init"

Completed(r) ==
    /\ hpc[r] = "waiting"
    /\ result[r] # None
    /\ Answer(r, AnswerOf(result[r]))
    /\ UNCHANGED vars

\* REPLACEMENT_OUTCOME_WAIT passes without an outcome.
OutcomeTimeout(r) ==
    /\ hpc[r] = "waiting"
    /\ result[r] = None
    /\ Goto(r, "unfinished")
    /\ UNCHANGED vars

\* Fault: the caller is told of a timeout without withdrawing the payload.
WithdrawForgotten(r) ==
    /\ hpc[r] = "unfinished"
    /\ Answer(r, "504")
    /\ UNCHANGED vars

\* unfinished_replacement: the claim decides who owns the payload.
try_withdraw(r) ==
    /\ hpc[r] = "unfinished"
    /\ IF claim[r] = "pending"
       THEN Withdraw(r) /\ Goto(r, "retract")
       ELSE Goto(r, "settling") /\ UNCHANGED vars

retract_swap(r) ==
    /\ hpc[r] = "retract"
    /\ IF slot # None /\ slot.req = r THEN Retract(r) ELSE UNCHANGED vars
    /\ Answer(r, "504")

\* The second wait, biased towards the adoption.
Settle(r) ==
    /\ hpc[r] = "settling"
    /\ IF adopted[r]
       THEN Answer(r, "202_adopted")
       ELSE result[r] # None /\ Answer(r, AnswerOf(result[r]))
    /\ UNCHANGED vars

\* Fault: a claimed payload is waited for without a limit.
InitAwaited(r) == FALSE

\* CLAIMED_REPLACEMENT_INIT_WAIT passes while validate/init still runs.
InitTimeout(r) ==
    /\ hpc[r] = "settling"
    /\ ~adopted[r] /\ result[r] = None
    /\ Answer(r, "202_unknown")
    /\ UNCHANGED vars

\* The client goes away while the handler awaits: its future is dropped,
\* with the guard; a published payload stays in the slot.
Disconnect(r) ==
    /\ \/ hpc[r] \in {"waiting", "settling"}
       \/ hpc[r] = "preparing" /\ kind[r] = "replace"
    /\ hpc' = [hpc EXCEPT ![r] = "gone"]
    /\ guard' = IF guard = r THEN None ELSE guard
    /\ UNCHANGED <<vars, kind, expected, resp>>

-----------------------------------------------------------------------------
HandlerStep(r) ==
    \/ Prepare(r) \/ verify_plugin_hash(r) \/ send_swap(r) \/ Completed(r)
    \/ OutcomeTimeout(r) \/ try_withdraw(r) \/ retract_swap(r) \/ Settle(r)
    \/ InitTimeout(r)

Client(r) ==
    \/ Disconnect(r)
    \/ \E k \in {"replace", "reconfigure"}, h \in Plugin \cup {None} : Begin(r, k, h)

NodeStep ==
    /\ Runner \/ Input \/ Time \/ Cancel \/ Finished
    /\ UNCHANGED apiVars

ApiNext == NodeStep \/ \E r \in Req : HandlerStep(r) \/ Client(r)

\* Handlers are scheduled and their timers fire; nothing is assumed of the
\* node, which may keep a guest in init() for ever.
ApiSpec ==
    ApiInit /\ [][ApiNext]_allVars /\ \A r \in Req : WF_allVars(HandlerStep(r))

-----------------------------------------------------------------------------
\* At most one request per node is between its guard and its answer, and the
\* guard is free as soon as that request is answered or abandoned.
GuardProtects == \A r \in Req : guard = r <=> hpc[r] \in Active

\* What the caller is told stays true: a withdrawn request (504) and one that
\* failed to init (409) are never adopted, whatever the runner does later; a
\* 200 was adopted and has processed a message; a rolled back one no longer
\* runs; a 202 that claims adoption was adopted, and one that does not was
\* still in the runner's hands.
AnswersHold ==
    \A r \in Req :
        /\ resp[r] = "504" => claim[r] = "withdrawn" /\ ~adopted[r]
        /\ resp[r] = "409_init" => ~adopted[r]
        /\ resp[r] = "200" => adopted[r] /\ localOutcome[r]
        /\ resp[r] = "202_adopted" => adopted[r]
        /\ resp[r] = "202_unknown" => claim[r] = "runner"
        /\ resp[r] = "rolled_back" => adopted[r] /\ (Settled => inst.plugin # r)
        /\ resp[r] \in {"404", "409_busy", "409_hash", "prepare_failed"} => claim[r] = "unsent"

\* Every request is answered unless its client left, and frees the guard.
RequestsAnswered ==
    \A r \in Req : hpc[r] \in Active ~> hpc[r] \in {"answered", "gone"}

\* What NodeRunner's Fairness assumes, of the node's steps in this composition.
NodeFairness ==
    /\ WF_allVars(Runner /\ UNCHANGED apiVars)
    /\ \A m \in Msg : WF_allVars(BackoffExpires(m) /\ UNCHANGED apiVars)

\* Cancellation ends the node's task, also with a request that is published,
\* claimed, in its canary or being rolled back, and whatever its handler does:
\* ready retries and swaps are served first, but they run out.
CancelEndsNode == NodeFairness => (cancelled ~> pc = "done")

-----------------------------------------------------------------------------
(***************************************************************************)
(* The replacement service (Replacement) that node and handlers implement. *)
(***************************************************************************)

\* How far a request has come.  The replaced hash is taken when, and only
\* when, an adopted plugin is rolled back.
Stage(r) ==
    CASE claim[r] = "unsent" -> "new"
      [] claim[r] = "pending" -> "offered"
      [] claim[r] = "withdrawn" -> "withdrawn"
      [] OTHER -> IF ~adopted[r] THEN IF result[r] = "init_failed" THEN "failed" ELSE "taken"
                  ELSE IF kind[r] = "replace" /\ replaced[r] = None THEN "undone" ELSE "adopted"

Stages == [r \in Req |-> Stage(r)]

\* The live guest where it may be called, otherwise what it is rebuilt from.
Live == IF Settled THEN inst ELSE Reinstantiated

Snapshot ==
    IF canary = None THEN None ELSE [plugin |-> canary.pre, config |-> canary.was.config]

Alive == pc # "done"

Service == INSTANCE Replacement WITH
    stage <- Stages, busy <- guard, told <- resp,
    running <- Live, fallback <- Snapshot, alive <- Alive

\* Behind the watch slot, the claim, the canary, the timeouts and the
\* disconnects there is one decision per request and one thing in use: each
\* step of the node and of its handlers is one of the service's, or none.
ImplementsReplacement == Service!Spec

-----------------------------------------------------------------------------
(***************************************************************************)
(* Statements of the repository that the code does not keep.               *)
(***************************************************************************)

\* ADR-0012: "Hot-swap and reconfigure share one per-node mutation guard, so
\* a second request does not overwrite a pending watch value".
PendingNotOverwritten ==
    [][slot # None /\ slot' # slot => claim'[slot.req] # "pending"]_allVars

\* learn/stateless-hot-swap.md: before the first local outcome consumes the
\* sender, "a process-time rollback completes the pending caller with
\* rolled_back": a caller still unanswered is not told of an adoption.
RollbackReachesCaller ==
    [][\A r \in Req : resp[r] = None /\ result[r] = "rolled_back"
         => resp'[r] \in {None, "rolled_back"}]_allVars

\* interfaces/http-api.md: "500: preparation failed, or the runner exited
\* before reporting adoption"; 504 is for a runner that is slow.
ExitedRunnerIs500 ==
    [][\A r \in Req : resp'[r] = "504" /\ resp[r] # "504" => pc # "done"]_allVars

\* PipelineHandle.plugin_hashes lets reconfigure "reject callers whose mental
\* model has diverged from the actually-running binary": a new configuration
\* is adopted only by the plugin its caller named.
ReconfiguresExpected ==
    [][\A r \in Req : kind[r] = "reconfigure" /\ ~adopted[r] /\ adopted'[r]
         => expected[r] \in {None, inst.plugin}]_allVars
=============================================================================
