----------------------------- MODULE NodeRunner -----------------------------
(***************************************************************************)
(* The task of one Wasm processing node: run_transform_loop_with_config,   *)
(* run_filter_loop and run_router_loop of wafer-core, with the error       *)
(* policy executor they own (retry buffer, DLQ dispatch), the watch slot   *)
(* through which a replacement is signalled, the replacement's progress    *)
(* handle and, for a transform, the canary that rolls a replacement back.  *)
(*                                                                         *)
(* A message is an identity.  Instead of the node's counters the model     *)
(* keeps, per message, the counter that recorded it (fate): the counters   *)
(* are the cardinalities of these classes.  Guests are arbitrary: every    *)
(* call may end in every way the host distinguishes.  Time is a set of     *)
(* environment steps (a backoff expires, the canary window elapses).       *)
(***************************************************************************)
EXTENDS Naturals, FiniteSets

CONSTANTS
    Msg,            \* messages that may reach the node's input queue
    Req,            \* hot-swap and reconfigure requests
    Initial,        \* the plugin and the config the launcher loaded
    None,           \* Rust's Option::None
    Role,           \* "transform", "filter" or "router"
    Policy,         \* ResolvedErrorPolicy, see PolicyType
    HasDlq,         \* a [dlq] sink is configured
    CanarySuccess   \* hot_swap.canary_success_count

Actions == {"skip", "dlq", "teardown"}
Retryable == {"dependency_failed", "processing_failed"}

PolicyType ==
    [bad_input : Actions, timed_out : Actions, retry_buffer_capacity : Nat,
     retries : [Retryable -> Nat], exhausted : [Retryable -> Actions]]

ASSUME RunnerAssumption ==
    /\ Role \in {"transform", "filter", "router"}
    /\ Policy \in PolicyType
    /\ HasDlq \in BOOLEAN
    /\ CanarySuccess \in Nat
    /\ None \notin Msg \cup Req \cup {Initial}
    /\ Initial \notin Req

VARIABLES
    pc,             \* where the runner task is
    current,        \* the envelope in hand (and its DLQ safety clone)
    held,           \* dequeued, waiting for a replacement to be adopted
    rollbackRetry,  \* trapped on the replacement, to be replayed on v1
    retryBuffer,    \* RetryBuffer.entries
    due,            \* the entries whose backoff has expired
    retryCount,     \* envelope.retry_count
    fate,           \* "unread", "pending" or the counter that recorded it
    eof,            \* TrackedReceiver.eof
    cancelled,      \* the pipeline's CancellationToken
    inst,           \* the live guest: the plugin and the config it runs
    pre,            \* cached_pre: the plugin recovery instantiates
    config,         \* config_json: the config recovery initialises with
    nodeState,      \* NodeStateTracker.state
    canary,         \* Option<TransformCanaryState>
    pendingReq,     \* pending_swap_progress
    payload,        \* the payload the runner has claimed
    slot,           \* the value in the watch channel
    version,        \* the watch channel's version
    seen,           \* the last version this receiver has seen
    claim,          \* HotSwapProgress.claim, "unsent" before the signal
    adopted,        \* HotSwapProgress.replacement_adopted is set
    localOutcome,   \* HotSwapProgress.first_post_replacement_local_outcome
    result,         \* what the oneshot sender sent, None while unsent
    replaced,       \* PluginHashUpdate.replaced
    hash,           \* the node's entry in the plugin hash registry
    dequeuedAt      \* history: the watch version when a message was dequeued

msgVars == <<current, held, rollbackRetry, retryBuffer, due, retryCount, fate>>
inputVars == <<eof, cancelled, dequeuedAt>>
guestVars == <<inst, pre, config, nodeState>>
swapVars == <<slot, version, seen, claim>>
progressVars == <<adopted, localOutcome, result, replaced, hash>>
runVars == <<canary, pendingReq, payload>>
vars == <<pc, msgVars, inputVars, guestVars, swapVars, progressVars, runVars>>

Plugin == Req \cup {Initial}
Instance == [plugin : Plugin, config : Plugin]

\* The counters of NodeMetrics that end a message's stay at the node.
Fates == {"processed", "filtered_out", "skipped", "exhausted_skip", "dlq_sent",
          "dlq_lost", "dropped_on_recovery", "dropped_on_teardown"}

Payload == [req : Req, kind : {"replace", "reconfigure"}]

Canary == [pre : Plugin, req : Req, successes : Nat, elapsed : BOOLEAN,
           failedAt : Nat, was : Instance]

PC == {"start", "top", "init", "recv", "select", "got", "process", "send",
       "rollback", "recover", "exit", "done"}

TypeOK ==
    /\ pc \in PC
    /\ current \in Msg \cup {None}
    /\ held \in Msg \cup {None}
    /\ rollbackRetry \in Msg \cup {None}
    /\ retryBuffer \subseteq Msg
    /\ due \subseteq retryBuffer
    /\ retryCount \in [Msg -> Nat]
    /\ fate \in [Msg -> Fates \cup {"unread", "pending"}]
    /\ eof \in BOOLEAN /\ cancelled \in BOOLEAN
    /\ inst \in Instance
    /\ pre \in Plugin /\ config \in Plugin /\ hash \in Plugin
    /\ nodeState \in {"starting", "running", "error", "recovering"}
    /\ canary \in Canary \cup {None}
    /\ pendingReq \in Req \cup {None}
    /\ payload \in Payload \cup {None}
    /\ slot \in Payload \cup {None}
    /\ version \in Nat /\ seen \in Nat /\ seen <= version
    /\ claim \in [Req -> {"unsent", "pending", "runner", "withdrawn"}]
    /\ adopted \in [Req -> BOOLEAN]
    /\ localOutcome \in [Req -> BOOLEAN]
    /\ result \in [Req -> {None, "ok", "init_failed", "rolled_back"}]
    /\ replaced \in [Req -> Plugin \cup {None}]
    /\ dequeuedAt \in [Msg -> Nat]

Init ==
    /\ pc = "start"
    /\ current = None /\ held = None /\ rollbackRetry = None
    /\ retryBuffer = {} /\ due = {}
    /\ retryCount = [m \in Msg |-> 0]
    /\ fate = [m \in Msg |-> "unread"]
    /\ eof = FALSE /\ cancelled = FALSE
    /\ inst = [plugin |-> Initial, config |-> Initial]
    /\ pre = Initial /\ config = Initial /\ hash = Initial
    /\ nodeState = "starting"
    /\ canary = None /\ pendingReq = None /\ payload = None
    /\ slot = None /\ version = 0 /\ seen = 0
    /\ claim = [r \in Req |-> "unsent"]
    /\ adopted = [r \in Req |-> FALSE]
    /\ localOutcome = [r \in Req |-> FALSE]
    /\ result = [r \in Req |-> None]
    /\ replaced = [r \in Req |-> None]
    /\ dequeuedAt = [m \in Msg |-> 0]

-----------------------------------------------------------------------------
(***************************************************************************)
(* The error policy: where a failed message goes.                          *)
(***************************************************************************)

\* What a send to the dead-letter queue is counted as.  Its channel may be
\* full or closed at any time; without a DLQ every record is lost.
DlqFates == {"dlq_lost"} \cup (IF HasDlq THEN {"dlq_sent"} ELSE {})

\* Every entry of the retry buffer is sent to the DLQ, one by one.
FlushFates(sent) ==
    [m \in Msg |-> IF m \in sent THEN "dlq_sent"
                   ELSE IF m \in retryBuffer THEN "dlq_lost" ELSE fate[m]]

Flushable == {sent \in SUBSET retryBuffer : HasDlq \/ sent = {}}

\* Fault: the entries are read instead of drained.
FlushWithoutDrain ==
    /\ \E sent \in Flushable : fate' = FlushFates(sent)
    /\ UNCHANGED <<retryBuffer, due>>
flush_to_dlq ==
    /\ \E sent \in Flushable : fate' = FlushFates(sent)
    /\ retryBuffer' = {} /\ due' = {}

\* A message whose instance is being replaced.
record_condemned ==
    /\ fate' \in {[fate EXCEPT ![current] = f] :
                    f \in IF HasDlq THEN DlqFates ELSE {"dropped_on_recovery"}}
    /\ current' = None

\* The simple actions of the policy, applied to the message in hand.
SimpleFates(action, skipped) ==
    CASE action = "skip" -> {skipped}
      [] action = "dlq" -> DlqFates
      [] action = "teardown" -> {"dropped_on_teardown"}

RetriesLeft(m, category) == retryCount[m] < Policy.retries[category]
RetryBufferFull == Cardinality(retryBuffer) >= Policy.retry_buffer_capacity

CanRetry(m, error) ==
    /\ error \in Retryable
    /\ RetriesLeft(m, error)
    /\ ~RetryBufferFull

\* Fault: the retry count is not kept on the envelope.
RetryUncounted(m) ==
    /\ retryBuffer' = retryBuffer \cup {m}
    /\ UNCHANGED <<retryCount, due, fate>>

\* try_retry, when the message is put back with one retry more.
Retry(m) ==
    /\ retryBuffer' = retryBuffer \cup {m}
    /\ retryCount' = [retryCount EXCEPT ![m] = @ + 1]
    /\ UNCHANGED <<due, fate>>

\* What handle() leaves a message with that is not retried.
PolicyFates(m, error) ==
    CASE error = "bad_input" -> SimpleFates(Policy.bad_input, "skipped")
      [] error \in {"timed_out", "budget"} -> SimpleFates(Policy.timed_out, "skipped")
      [] error \in Retryable ->
           IF RetriesLeft(m, error)
           THEN DlqFates
           ELSE SimpleFates(Policy.exhausted[error], "exhausted_skip")

\* handle() and continue_after_policy_action(): the message leaves the
\* runner's hands; a teardown ends the loop, anything else goes to `next`.
HandleError(error, next) ==
    /\ current' = None
    /\ UNCHANGED <<held, rollbackRetry>>
    /\ IF CanRetry(current, error)
       THEN Retry(current) /\ pc' = next
       ELSE \E f \in PolicyFates(current, error) :
              /\ fate' = [fate EXCEPT ![current] = f]
              /\ pc' = IF f = "dropped_on_teardown" THEN "exit" ELSE next
              /\ UNCHANGED <<retryBuffer, due, retryCount>>

-----------------------------------------------------------------------------
(***************************************************************************)
(* The progress handle a request shares with the runner.                   *)
(***************************************************************************)

\* The oneshot sender is taken by the first report; later ones are dropped.
Report(r, outcome) == [result EXCEPT ![r] = IF @ = None THEN outcome ELSE @]

\* The report a rollback makes for the request it took from pending.
report_rolled_back ==
    /\ result' = IF pendingReq = None THEN result ELSE Report(pendingReq, "rolled_back")
    /\ pendingReq' = None

\* The first call that succeeds after an adoption completes the request,
\* once both the adoption and the local outcome are on record.
mark_first_post_replacement_local_outcome ==
    IF pendingReq = None
    THEN UNCHANGED <<localOutcome, result, pendingReq>>
    ELSE /\ localOutcome' = [localOutcome EXCEPT ![pendingReq] = TRUE]
         /\ result' = IF adopted[pendingReq] THEN Report(pendingReq, "ok") ELSE result
         /\ pendingReq' = None

\* Adoption moves the registry to the replacement's hash and remembers the
\* one it replaced.  A reconfigure tracks no hash.
mark_replacement_adopted(p) ==
    /\ adopted' = [adopted EXCEPT ![p.req] = TRUE]
    /\ result' = IF localOutcome[p.req] THEN Report(p.req, "ok") ELSE result
    /\ IF p.kind = "replace"
       THEN /\ replaced' = [replaced EXCEPT ![p.req] = hash]
            /\ hash' = p.req
       ELSE UNCHANGED <<replaced, hash>>
    /\ UNCHANGED localOutcome

\* Faults: the registry entry is removed; the registry is not touched.
RestoreRemoves(r) == hash' = None /\ UNCHANGED replaced
RestoreForgotten(r) == UNCHANGED <<hash, replaced>>

\* The replaced hash is taken, so it is put back at most once.
restore_replaced_plugin_hash(r) ==
    /\ hash' = IF replaced[r] = None THEN hash ELSE replaced[r]
    /\ replaced' = [replaced EXCEPT ![r] = None]

-----------------------------------------------------------------------------
(***************************************************************************)
(* The canary of a transform.                                              *)
(***************************************************************************)

NewCanary(r) == [pre |-> pre, req |-> r, successes |-> 0, elapsed |-> FALSE,
                 failedAt |-> 0, was |-> inst]

\* Fault: a reconfigure leaves an earlier canary armed.
CanaryKept(p) ==
    IF p.kind = "replace" /\ Role = "transform" THEN NewCanary(p.req) ELSE canary

\* Only a transform's replacement arms a canary, over any earlier one; a
\* reconfigure drops it.
CanaryAfterAdopt(p) ==
    IF p.kind = "replace" /\ Role = "transform" THEN NewCanary(p.req) ELSE None

window_expired(c) == c.successes >= CanarySuccess \/ c.elapsed

\* Step 0 of the loop: an expired canary gives up its snapshot.
OpenCanary == IF canary # None /\ window_expired(canary) THEN None ELSE canary

record_success ==
    IF canary = None THEN None
    ELSE [canary EXCEPT !.successes = @ + 1]

\* An error that does not roll back leaves the counters alone.  failedAt is
\* history: the successes there were at the last failed call.
CanaryAfterError ==
    IF canary = None THEN None ELSE [canary EXCEPT !.failedAt = canary.successes]

-----------------------------------------------------------------------------
(***************************************************************************)
(* NodeStateTracker: each transition is a compare-and-swap.                *)
(***************************************************************************)

transition_to_running(s) == IF s = "starting" THEN "running" ELSE s
transition_to_error(s) == "error"

\* Fault: the transition expects the state the node failed in.
RecoveringFromRunning(s) == IF s = "running" THEN "recovering" ELSE s

transition_to_recovering(s) == IF s = "error" THEN "recovering" ELSE s
transition_recovering_to_running_timed(s) == IF s = "recovering" THEN "running" ELSE s

BeginRecovery == nodeState' = transition_to_recovering(transition_to_error(nodeState))

-----------------------------------------------------------------------------
(***************************************************************************)
(* The loop: swap check, input, guest call, dispatch.                      *)
(***************************************************************************)

Start ==
    /\ pc = "start"
    /\ pc' = "top"
    /\ nodeState' = transition_to_running(nodeState)
    /\ UNCHANGED <<msgVars, inputVars, inst, pre, config, swapVars, progressVars, runVars>>

swap_pending == seen # version

Claimable == slot # None /\ claim[slot.req] = "pending"

\* Loop top with a replayable message: it goes to v1 before any swap.
ReplayAfterRollback ==
    /\ pc = "top"
    /\ rollbackRetry # None
    /\ canary' = OpenCanary
    /\ current' = rollbackRetry
    /\ rollbackRetry' = None
    /\ pc' = "process"
    /\ UNCHANGED <<held, retryBuffer, due, retryCount, fate, inputVars, guestVars,
                   swapVars, progressVars, pendingReq, payload>>

\* Fault: the payload is taken whoever owns the claim.
TakeUnclaimed ==
    /\ pc = "top"
    /\ rollbackRetry = None
    /\ canary' = OpenCanary
    /\ swap_pending
    /\ slot # None
    /\ seen' = version
    /\ payload' = slot
    /\ pc' = "init"
    /\ UNCHANGED <<msgVars, inputVars, guestVars, slot, version, claim, progressVars, pendingReq>>

\* Loop top with an unseen payload the API has not withdrawn.
take_pending_swap ==
    /\ pc = "top"
    /\ rollbackRetry = None
    /\ canary' = OpenCanary
    /\ swap_pending
    /\ Claimable
    /\ seen' = version
    /\ claim' = [claim EXCEPT ![slot.req] = "runner"]
    /\ payload' = slot
    /\ pc' = "init"
    /\ UNCHANGED <<msgVars, inputVars, guestVars, slot, version, progressVars, pendingReq>>

\* Loop top otherwise: an unseen but empty or withdrawn slot is marked seen,
\* then next_input hands out the held envelope or goes on to wait for one.
NextInput ==
    /\ pc = "top"
    /\ rollbackRetry = None
    /\ canary' = OpenCanary
    /\ ~(swap_pending /\ Claimable)
    /\ seen' = version
    /\ current' = held
    /\ held' = None
    /\ pc' = IF held = None THEN "recv" ELSE "process"
    /\ UNCHANGED <<rollbackRetry, retryBuffer, due, retryCount, fate, inputVars,
                   guestVars, slot, version, claim, progressVars, pendingReq, payload>>

\* The new instance is initialised with the node's config; it and its pre
\* become the node's.
try_hot_swap(r) ==
    /\ pre' = r
    /\ inst' = [plugin |-> r, config |-> config]
    /\ UNCHANGED config

\* A fresh instance of the cached pre is initialised with the new config.
try_reconfigure(r) ==
    /\ config' = r
    /\ inst' = [plugin |-> pre, config |-> r]
    /\ UNCHANGED pre

\* validate() and init() of the replacement, or of the new config, succeed.
Adopt ==
    /\ pc = "init"
    /\ IF payload.kind = "replace" THEN try_hot_swap(payload.req) ELSE try_reconfigure(payload.req)
    /\ canary' = CanaryAfterAdopt(payload)
    /\ flush_to_dlq
    /\ mark_replacement_adopted(payload)
    /\ pendingReq' = payload.req
    /\ payload' = None
    /\ pc' = "top"
    /\ UNCHANGED <<current, held, rollbackRetry, retryCount, inputVars, nodeState, swapVars>>

\* They fail: store, bindings, cached pre and config are put back.
KeepOld ==
    /\ pc = "init"
    /\ result' = Report(payload.req, "init_failed")
    /\ payload' = None
    /\ pc' = "top"
    /\ UNCHANGED <<msgVars, inputVars, guestVars, swapVars, adopted, localOutcome,
                   replaced, hash, canary, pendingReq>>

\* recv_next_or_retry, top of its loop: a pending swap comes before retries,
\* retries before input; after EOF only pending retries keep the runner.
RecvSwap ==
    /\ pc = "recv"
    /\ swap_pending
    /\ pc' = "top"
    /\ UNCHANGED <<msgVars, inputVars, guestVars, swapVars, progressVars, runVars>>

RecvRetry(m) ==
    /\ pc = "recv"
    /\ ~swap_pending
    /\ m \in due
    /\ due' = due \ {m}
    /\ retryBuffer' = retryBuffer \ {m}
    /\ current' = m
    /\ pc' = "got"
    /\ UNCHANGED <<held, rollbackRetry, retryCount, fate, inputVars, guestVars,
                   swapVars, progressVars, runVars>>

RecvWait ==
    /\ pc = "recv"
    /\ ~swap_pending
    /\ due = {}
    /\ pc' = IF eof /\ retryBuffer = {} THEN "exit" ELSE "select"
    /\ UNCHANGED <<msgVars, inputVars, guestVars, swapVars, progressVars, runVars>>

\* Faults: only the wait of the EOF branch watches for cancellation; only
\* the wait with a retry deadline watches for a swap.
CancelWakesAtEof == cancelled /\ eof
SwapWakesWithRetries == swap_pending /\ retryBuffer # {}

CancelWakes == cancelled
SwapWakes == swap_pending

\* Its select!, biased: cancellation, then input, then swap, then deadline.
SelectCancelled ==
    /\ pc = "select"
    /\ CancelWakes
    /\ pc' = "exit"
    /\ UNCHANGED <<msgVars, inputVars, guestVars, swapVars, progressVars, runVars>>

SelectMessage(m) ==
    /\ pc = "select"
    /\ ~cancelled /\ ~eof
    /\ fate[m] = "unread"
    /\ fate' = [fate EXCEPT ![m] = "pending"]
    /\ dequeuedAt' = [dequeuedAt EXCEPT ![m] = version]
    /\ current' = m
    /\ pc' = "got"
    /\ UNCHANGED <<held, rollbackRetry, retryBuffer, due, retryCount, eof, cancelled,
                   guestVars, swapVars, progressVars, runVars>>

SelectEof ==
    /\ pc = "select"
    /\ ~cancelled /\ ~eof
    /\ eof' = TRUE
    /\ pc' = "recv"
    /\ UNCHANGED <<msgVars, cancelled, dequeuedAt, guestVars, swapVars, progressVars, runVars>>

SelectSwap ==
    /\ pc = "select"
    /\ ~cancelled
    /\ SwapWakes
    /\ pc' = "top"
    /\ UNCHANGED <<msgVars, inputVars, guestVars, swapVars, progressVars, runVars>>

SelectDeadline ==
    /\ pc = "select"
    /\ ~cancelled
    /\ due # {}
    /\ pc' = "recv"
    /\ UNCHANGED <<msgVars, inputVars, guestVars, swapVars, progressVars, runVars>>

\* Fault: the slot is looked at only before the message is dequeued.
NeverHold == FALSE

HoldForSwap == swap_pending

\* next_input looks at the slot again: an envelope that came with a pending
\* swap is held for the replacement.
Dequeued ==
    /\ pc = "got"
    /\ IF HoldForSwap
       THEN held' = current /\ current' = None /\ pc' = "top"
       ELSE pc' = "process" /\ UNCHANGED <<held, current>>
    /\ UNCHANGED <<rollbackRetry, retryBuffer, due, retryCount, fate, inputVars,
                   guestVars, swapVars, progressVars, runVars>>

\* The guest returns a message (filter: forward, router: ports to fan out
\* to); it is counted, then sent downstream.
CallOk ==
    /\ pc = "process"
    /\ fate' = [fate EXCEPT ![current] = "processed"]
    /\ current' = None
    /\ pc' = "send"
    /\ UNCHANGED <<held, rollbackRetry, retryBuffer, due, retryCount, inputVars,
                   guestVars, swapVars, progressVars, runVars>>

SendDone ==
    /\ pc = "send"
    /\ mark_first_post_replacement_local_outcome
    /\ canary' = record_success
    /\ pc' = "top"
    /\ UNCHANGED <<msgVars, inputVars, guestVars, swapVars, adopted, replaced, hash, payload>>

\* A message that goes nowhere: counted, and a local outcome all the same.
DropMessage(counter) ==
    /\ pc = "process"
    /\ fate' = [fate EXCEPT ![current] = counter]
    /\ current' = None
    /\ mark_first_post_replacement_local_outcome
    /\ pc' = "top"
    /\ UNCHANGED <<held, rollbackRetry, retryBuffer, due, retryCount, inputVars,
                   guestVars, swapVars, adopted, replaced, hash, canary, payload>>

\* The filter drops the message; the router names no port.
CallDrops ==
    /\ Role # "transform"
    /\ DropMessage(IF Role = "filter" THEN "filtered_out" ELSE "processed")

\* The guest returns an error of its own; its instance is intact.
CallFailed(error) ==
    /\ pc = "process"
    /\ HandleError(error, "top")
    /\ canary' = CanaryAfterError
    /\ UNCHANGED <<inputVars, guestVars, swapVars, progressVars, pendingReq, payload>>

\* Out of fuel or past the epoch deadline, with no canary: the policy's
\* timed_out action, then a rebuild of the instance.
CallOverBudget ==
    /\ pc = "process"
    /\ canary = None
    /\ HandleError("budget", "recover")
    /\ IF pc' = "recover" THEN BeginRecovery ELSE UNCHANGED nodeState
    /\ UNCHANGED <<inputVars, inst, pre, config, swapVars, progressVars, runVars>>

\* Any other trap, or unrecoverable, with no canary.
CallCondemned ==
    /\ pc = "process"
    /\ canary = None
    /\ record_condemned
    /\ BeginRecovery
    /\ pc' = "recover"
    /\ UNCHANGED <<held, rollbackRetry, retryBuffer, due, retryCount, inputVars,
                   inst, pre, config, swapVars, progressVars, runVars>>

\* A trap of any kind, or unrecoverable, under a canary: v1's pre and its
\* hash are put back before v1 is instantiated again.
CallTrappedInCanary ==
    /\ pc = "process"
    /\ canary # None
    /\ pre' = canary.pre
    /\ restore_replaced_plugin_hash(canary.req)
    /\ canary' = None
    /\ nodeState' = transition_to_error(nodeState)
    /\ pc' = "rollback"
    /\ UNCHANGED <<msgVars, inputVars, inst, config, swapVars, adopted, localOutcome,
                   result, pendingReq, payload>>

\* recover_from_cached_pre: the guest it leaves when it succeeds.
Reinstantiated == [plugin |-> pre, config |-> config]

\* Fault: no copy of the message is kept across the guest call.
NoSafetyClone == None

\* The clone taken before the call, replayed on v1.
SafetyClone == current

RollbackOk ==
    /\ pc = "rollback"
    /\ inst' = Reinstantiated
    /\ nodeState' =
         transition_recovering_to_running_timed(transition_to_recovering(nodeState))
    /\ report_rolled_back
    /\ rollbackRetry' = SafetyClone
    /\ current' = None
    /\ pc' = "top"
    /\ UNCHANGED <<held, retryBuffer, due, retryCount, fate, inputVars, pre, config,
                   swapVars, adopted, localOutcome, replaced, hash, canary, payload>>

\* Rollback itself fails: the request learns it, the message is condemned
\* and recovery is tried once more from v1's pre.
RollbackFailed ==
    /\ pc = "rollback"
    /\ inst' \in {inst, Reinstantiated}
    /\ report_rolled_back
    /\ record_condemned
    /\ BeginRecovery
    /\ pc' = "recover"
    /\ UNCHANGED <<held, rollbackRetry, retryBuffer, due, retryCount, inputVars, pre,
                   config, swapVars, adopted, localOutcome, replaced, hash, canary, payload>>

RecoverOk ==
    /\ pc = "recover"
    /\ inst' = Reinstantiated
    /\ nodeState' = transition_recovering_to_running_timed(nodeState)
    /\ pc' = "top"
    /\ UNCHANGED <<msgVars, inputVars, pre, config, swapVars, progressVars, runVars>>

RecoverFailed ==
    /\ pc = "recover"
    /\ inst' \in {inst, Reinstantiated}
    /\ nodeState' = transition_to_error(nodeState)
    /\ flush_to_dlq
    /\ pc' = "exit"
    /\ UNCHANGED <<current, held, rollbackRetry, retryCount, inputVars, pre, config,
                   swapVars, progressVars, runVars>>

\* After the loop the retries left are flushed.
Exit ==
    /\ pc = "exit"
    /\ flush_to_dlq
    /\ pc' = "done"
    /\ UNCHANGED <<current, held, rollbackRetry, retryCount, inputVars, guestVars,
                   swapVars, progressVars, runVars>>

-----------------------------------------------------------------------------
(***************************************************************************)
(* The rest of the system, as far as the runner can tell.                  *)
(***************************************************************************)

\* send_swap: the API publishes a request; it may overwrite one that the
\* runner has not taken.
Publish(r, kind) ==
    /\ pc # "done"
    /\ claim[r] = "unsent"
    /\ claim' = [claim EXCEPT ![r] = "pending"]
    /\ slot' = [req |-> r, kind |-> kind]
    /\ version' = version + 1
    /\ UNCHANGED <<pc, msgVars, inputVars, guestVars, seen, progressVars, runVars>>

\* try_withdraw: the API stops waiting before the runner took the payload.
Withdraw(r) ==
    /\ claim[r] = "pending"
    /\ claim' = [claim EXCEPT ![r] = "withdrawn"]
    /\ UNCHANGED <<pc, msgVars, inputVars, guestVars, slot, version, seen, progressVars, runVars>>

\* retract_swap: a withdrawn payload still in the slot is removed, without
\* waking the runner.
Retract(r) ==
    /\ claim[r] = "withdrawn"
    /\ slot # None
    /\ slot.req = r
    /\ slot' = None
    /\ UNCHANGED <<pc, msgVars, inputVars, guestVars, version, seen, claim, progressVars, runVars>>

Cancel ==
    /\ ~cancelled
    /\ cancelled' = TRUE
    /\ UNCHANGED <<pc, msgVars, eof, dequeuedAt, guestVars, swapVars, progressVars, runVars>>

BackoffExpires(m) ==
    /\ m \in retryBuffer \ due
    /\ due' = due \cup {m}
    /\ UNCHANGED <<pc, current, held, rollbackRetry, retryBuffer, retryCount, fate,
                   inputVars, guestVars, swapVars, progressVars, runVars>>

\* canary_window_ms have passed since the adoption.
WindowElapses ==
    /\ canary # None
    /\ ~canary.elapsed
    /\ canary' = [canary EXCEPT !.elapsed = TRUE]
    /\ UNCHANGED <<pc, msgVars, inputVars, guestVars, swapVars, progressVars,
                   pendingReq, payload>>

-----------------------------------------------------------------------------
Runner ==
    \/ Start \/ ReplayAfterRollback \/ take_pending_swap \/ NextInput
    \/ Adopt \/ KeepOld
    \/ RecvSwap \/ RecvWait \/ \E m \in Msg : RecvRetry(m)
    \/ SelectCancelled \/ SelectSwap \/ SelectDeadline
    \/ Dequeued
    \/ CallOk \/ SendDone \/ CallDrops
    \/ \E error \in Retryable \cup {"bad_input", "timed_out"} : CallFailed(error)
    \/ CallOverBudget \/ CallCondemned \/ CallTrappedInCanary
    \/ RollbackOk \/ RollbackFailed \/ RecoverOk \/ RecoverFailed
    \/ Exit

Input == SelectEof \/ \E m \in Msg : SelectMessage(m)

Api ==
    \/ \E r \in Req, kind \in {"replace", "reconfigure"} : Publish(r, kind)
    \/ \E r \in Req : Withdraw(r) \/ Retract(r)
    \/ Cancel

Time == WindowElapses \/ \E m \in Msg : BackoffExpires(m)

\* A finished task stays finished; every other state must have a successor.
Finished == pc = "done" /\ UNCHANGED vars

Next == Runner \/ Input \/ Api \/ Time \/ Finished

\* The runner's task is scheduled, a guest call ends (its epoch deadline
\* interrupts it), a blocked downstream send ends and a backoff expires.
\* Nothing is assumed of upstream, of the API or of the canary clock.
Fairness == WF_vars(Runner) /\ \A m \in Msg : WF_vars(BackoffExpires(m))

Spec == Init /\ [][Next]_vars /\ Fairness

-----------------------------------------------------------------------------
(***************************************************************************)
(* What makes the runner correct.                                          *)
(***************************************************************************)

InPlace(m) == m \in {current, held, rollbackRetry} \cup retryBuffer

\* The conservation law export_per_node_metrics documents, message by
\* message: a dequeued message no counter has recorded yet is in exactly one
\* of the runner's hands, its hold, its replay slot and the retry buffer; a
\* recorded one is in none of them; and when the task ends every dequeued
\* message has been recorded.
Accounted ==
    /\ \A m \in Msg : fate[m] = "pending" <=> InPlace(m)
    /\ current # None => current \notin {held, rollbackRetry} \cup retryBuffer
    /\ held # None => held \notin {rollbackRetry} \cup retryBuffer
    /\ rollbackRetry \notin retryBuffer
    /\ pc = "done" => \A m \in Msg : fate[m] # "pending"

\* No message is counted twice: once a counter has recorded it no later step
\* (a flush, a replay, an exit) records it again.
FateIsFinal ==
    [][\A m \in Msg : fate[m] \in Fates => fate'[m] = fate[m]]_vars

\* Places of the loop at which no lifecycle call is rebuilding the guest.
Settled == pc \in {"top", "recv", "select", "got", "process", "send"}

\* Outside a lifecycle call the plugin hash registry, the cached pre that
\* recovery would use and the live guest agree on the plugin, and the live
\* guest runs the config that recovery would give it - through chained
\* swaps, failed inits, reconfigurations, rollbacks and recoveries.
PluginConsistent ==
    Settled => /\ hash = inst.plugin
               /\ pre = inst.plugin
               /\ config = inst.config

\* next_input: "the old instance never sees a message dequeued after the
\* signal".  A guest call starts only once the runner has seen every signal
\* that was in the slot when the message was dequeued.
SignalBarrier ==
    pc = "process" => dequeuedAt[current] <= seen

\* A request that was withdrawn, failed to init or was reported rolled back
\* is not the plugin or the config in use, nor one a rollback would restore.
DisownedNeverRuns ==
    \A r \in Req :
        claim[r] = "withdrawn" \/ result[r] \in {"init_failed", "rolled_back"} =>
            /\ Settled => r \notin {inst.plugin, inst.config}
            /\ canary # None => canary.pre # r /\ r \notin {canary.was.plugin, canary.was.config}

\* A rollback reinstates exactly what the swap replaced: the same plugin
\* under the same config, and its hash.
RollbackRestores ==
    /\ canary # None /\ Settled =>
          /\ canary.req = inst.plugin
          /\ canary.pre = canary.was.plugin
          /\ replaced[canary.req] = canary.pre
          /\ config = canary.was.config

\* The node's state tells whether its guest can be called: "running" while
\* the loop runs, "recovering" during recovery, "error" during a rollback.
StateHonest ==
    /\ Settled \/ pc = "init" => nodeState = "running"
    /\ pc = "recover" => nodeState = "recovering"
    /\ pc = "rollback" => nodeState = "error"

\* EOF ends the task, after the retries still in backoff had their attempts.
EofTerminates == eof ~> pc = "done"

\* A published request is taken, withdrawn or overwritten unless the task
\* ends first: an idle node needs no message to adopt a replacement.
SwapSettles ==
    \A r \in Req :
        (slot # None /\ slot.req = r /\ claim[r] = "pending" /\ pc # "done")
            ~> (claim[r] # "pending" \/ slot.req # r \/ pc = "done")

-----------------------------------------------------------------------------
(***************************************************************************)
(* Statements of the repository that the code does not keep.               *)
(***************************************************************************)

\* HotSwapConfig: canary_success_count is the "Number of consecutive
\* successful process() calls on v2 required before the rollback snapshot is
\* dropped".
CanaryNeedsConsecutive ==
    [][pc = "top" /\ canary # None /\ canary' = None
         => canary.elapsed \/ canary.successes - canary.failedAt >= CanarySuccess]_vars

\* ADR-0012: on swap the retry buffer is flushed "so stale v1 payloads are
\* never replayed against v2 logic": no envelope with a retry to its name is
\* waiting when a replacement is adopted.
RetriesDoNotCrossSwap ==
    [][pc = "init" /\ hash' # hash => held = None \/ retryCount[held] = 0]_vars

\* HotSwapConfig: canary_window_ms is the "Maximum wall-clock milliseconds the
\* rollback snapshot is retained after swap ACK": a replacement that traps
\* later than that is recovered, not rolled back.
RollbackInsideWindow ==
    [][pc = "process" /\ pc' = "rollback" => ~canary.elapsed]_vars
=============================================================================
