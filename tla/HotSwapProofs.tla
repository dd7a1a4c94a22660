--------------------------- MODULE HotSwapProofs ---------------------------
(***************************************************************************)
(* Theorems about a node's runner (NodeRunner), for every set of messages  *)
(* and requests, every role, error policy and canary length; then about    *)
(* the replacement protocol around it: the runner and any number of        *)
(* concurrent hot_swap and reconfigure handlers (HotSwap).                 *)
(***************************************************************************)
EXTENDS HotSwap, TLAPS

-----------------------------------------------------------------------------
(***************************************************************************)
(* The runner: types, and what it holds.                                   *)
(***************************************************************************)

\* What the task holds at each place of its loop: a message while it is being
\* handled, a claimed payload during init, an envelope held for a replacement
\* or kept for a replay only between two iterations, and no retry at the end.
Hands ==
    /\ payload # None <=> pc = "init"
    /\ current # None <=> pc \in {"got", "process", "rollback"}
    /\ held # None => pc \in {"top", "init"}
    /\ rollbackRetry # None => pc = "top" /\ held = None
    /\ pc = "done" => retryBuffer = {}

TypeInv == TypeOK /\ Hands

USE DEF msgVars, inputVars, guestVars, swapVars, progressVars, runVars, vars

\* The runner starts well typed, with empty hands.
LEMMA TypeInvInit == Init => TypeInv
<1> SUFFICES ASSUME Init PROVE TypeInv
  OBVIOUS
<1> USE RunnerAssumption DEF Init
<1>1. inst \in Instance /\ pre \in Plugin /\ config \in Plugin /\ hash \in Plugin
  BY DEF Instance, Plugin
<1>2. fate \in [Msg -> Fates \cup {"unread", "pending"}]
  OBVIOUS
<1>3. result \in [Req -> {None, "ok", "init_failed", "rolled_back"}]
  OBVIOUS
<1>4. /\ claim \in [Req -> {"unsent", "pending", "runner", "withdrawn"}]
      /\ adopted \in [Req -> BOOLEAN]
      /\ localOutcome \in [Req -> BOOLEAN]
      /\ replaced \in [Req -> Plugin \cup {None}]
  OBVIOUS
<1>5. /\ retryCount \in [Msg -> Nat]
      /\ dequeuedAt \in [Msg -> Nat]
      /\ version \in Nat /\ seen \in Nat /\ seen <= version
  OBVIOUS
<1> QED
  BY <1>1, <1>2, <1>3, <1>4, <1>5 DEF TypeInv, TypeOK, Hands, PC

\* The canary's bookkeeping keeps its type.
LEMMA CanaryTyped ==
    ASSUME TypeOK
    PROVE  /\ OpenCanary \in Canary \cup {None}
           /\ record_success \in Canary \cup {None}
           /\ CanaryAfterError \in Canary \cup {None}
           /\ canary # None => [canary EXCEPT !.elapsed = TRUE] \in Canary
<1>1. ASSUME NEW c \in Canary
      PROVE  /\ [c EXCEPT !.successes = c.successes + 1] \in Canary
             /\ [c EXCEPT !.failedAt = c.successes] \in Canary
  BY DEF Canary
<1>3. ASSUME NEW c \in Canary
      PROVE  [c EXCEPT !.elapsed = TRUE] \in Canary
  BY DEF Canary
<1>2. canary \in Canary \cup {None}
  BY DEF TypeOK
<1> QED
  BY <1>1, <1>2, <1>3, Zenon DEF OpenCanary, record_success, CanaryAfterError

\* The policy ends a message's stay with a counter of the node.
LEMMA PolicyFatesTyped ==
    ASSUME NEW m, NEW error \in Retryable \cup {"bad_input", "timed_out", "budget"}
    PROVE  PolicyFates(m, error) \subseteq Fates
<1>1. ASSUME NEW a \in Actions, NEW s \in {"skipped", "exhausted_skip"}
      PROVE  SimpleFates(a, s) \subseteq Fates
  BY DEF SimpleFates, Actions, Fates, DlqFates
<1>2. DlqFates \subseteq Fates
  BY DEF DlqFates, Fates
<1>3. /\ Policy.bad_input \in Actions
      /\ Policy.timed_out \in Actions
      /\ \A c \in Retryable : Policy.exhausted[c] \in Actions
  BY RunnerAssumption DEF PolicyType
<1> QED
  BY <1>1, <1>2, <1>3 DEF PolicyFates, Retryable

\* handle() leaves every message slot, count and fate of the right type.
LEMMA HandleErrorTyped ==
    ASSUME TypeOK,
           NEW error \in Retryable \cup {"bad_input", "timed_out", "budget"},
           NEW next \in PC,
           HandleError(error, next),
           current # None
    PROVE  /\ current' = None /\ held' = held /\ rollbackRetry' = rollbackRetry
           /\ retryBuffer' \subseteq Msg /\ due' \subseteq retryBuffer'
           /\ retryCount' \in [Msg -> Nat]
           /\ fate' \in [Msg -> Fates \cup {"unread", "pending"}]
           /\ pc' \in {next, "exit"}
<1> USE DEF TypeOK
<1>1. current \in Msg /\ fate[current] \in Fates \cup {"unread", "pending"}
  OBVIOUS
<1>2. CASE CanRetry(current, error)
  BY <1>1, <1>2 DEF HandleError, Retry
<1>3. CASE ~CanRetry(current, error)
  <2>1. PICK f \in PolicyFates(current, error) :
          /\ fate' = [fate EXCEPT ![current] = f]
          /\ pc' = IF f = "dropped_on_teardown" THEN "exit" ELSE next
          /\ UNCHANGED <<retryBuffer, due, retryCount>>
    BY <1>3 DEF HandleError
  <2>2. f \in Fates
    BY PolicyFatesTyped
  <2> QED
    BY <1>1, <2>1, <2>2 DEF HandleError
<1> QED
  BY <1>2, <1>3

\* Every step keeps the types and the hands.
LEMMA TypeInvStep == TypeInv /\ [Next]_vars => TypeInv'
<1> SUFFICES ASSUME TypeInv, [Next]_vars PROVE TypeInv'
  OBVIOUS
<1> USE RunnerAssumption DEF TypeInv, TypeOK, Hands, PC
<1>1. CASE Start
  BY <1>1 DEF Start, transition_to_running
<1>2. CASE ReplayAfterRollback
  BY <1>2 DEF ReplayAfterRollback, OpenCanary
<1>3. CASE take_pending_swap
  BY <1>3 DEF take_pending_swap, OpenCanary, Claimable, Payload
<1>4. CASE NextInput
  BY <1>4 DEF NextInput, OpenCanary
<1>5. CASE Adopt
  <2>1. payload.req \in Req /\ payload.kind \in {"replace", "reconfigure"}
    BY <1>5 DEF Adopt, Payload
  <2>2. inst' \in Instance /\ pre' \in Plugin /\ config' \in Plugin
    BY <1>5, <2>1 DEF Adopt, try_hot_swap, try_reconfigure, Instance, Plugin
  <2>3. canary' \in Canary \cup {None}
    BY <1>5, <2>1 DEF Adopt, CanaryAfterAdopt, NewCanary, Canary
  <2>4. /\ hash' \in Plugin
        /\ replaced' \in [Req -> Plugin \cup {None}]
        /\ result' \in [Req -> {None, "ok", "init_failed", "rolled_back"}]
        /\ adopted' \in [Req -> BOOLEAN] /\ localOutcome' \in [Req -> BOOLEAN]
    BY <1>5, <2>1 DEF Adopt, mark_replacement_adopted, Report, Plugin
  <2>5. fate' \in [Msg -> Fates \cup {"unread", "pending"}]
    BY <1>5 DEF Adopt, flush_to_dlq, FlushFates, Flushable, Fates
  <2> QED
    BY <1>5, <2>1, <2>2, <2>3, <2>4, <2>5 DEF Adopt, flush_to_dlq
<1>6. CASE KeepOld
  BY <1>6 DEF KeepOld, Report, Payload
<1>7. CASE RecvSwap
  BY <1>7 DEF RecvSwap
<1>8. CASE RecvWait
  BY <1>8 DEF RecvWait
<1>9. ASSUME NEW m \in Msg, RecvRetry(m) PROVE TypeInv'
  BY <1>9 DEF RecvRetry
<1>10. CASE SelectCancelled
  BY <1>10 DEF SelectCancelled
<1>11. CASE SelectSwap
  BY <1>11 DEF SelectSwap
<1>12. CASE SelectDeadline
  BY <1>12 DEF SelectDeadline
<1>13. CASE Dequeued
  BY <1>13 DEF Dequeued
<1>14. CASE CallOk
  BY <1>14 DEF CallOk, Fates
<1>15. CASE SendDone
  <2>1. canary' \in Canary \cup {None}
    BY <1>15, CanaryTyped DEF SendDone
  <2> QED
    BY <1>15, <2>1 DEF SendDone, mark_first_post_replacement_local_outcome, Report
<1>16. CASE CallDrops
  <2>1. ASSUME NEW counter \in Fates, DropMessage(counter) PROVE TypeInv'
    BY <2>1 DEF DropMessage, mark_first_post_replacement_local_outcome, Report
  <2> QED
    BY <1>16, <2>1 DEF CallDrops, Fates
<1>17. ASSUME NEW error \in Retryable \cup {"bad_input", "timed_out"}, CallFailed(error)
       PROVE  TypeInv'
  <2>1. canary' \in Canary \cup {None}
    BY <1>17, CanaryTyped DEF CallFailed
  <2>2. error \in Retryable \cup {"bad_input", "timed_out", "budget"}
    BY <1>17
  <2> QED
    BY <1>17, <2>1, <2>2, HandleErrorTyped DEF CallFailed
<1>18. CASE CallOverBudget
  BY <1>18, HandleErrorTyped
     DEF CallOverBudget, BeginRecovery, transition_to_recovering, transition_to_error
<1>19. CASE CallCondemned
  BY <1>19 DEF CallCondemned, record_condemned, DlqFates, Fates, BeginRecovery,
               transition_to_recovering, transition_to_error
<1>20. CASE CallTrappedInCanary
  BY <1>20 DEF CallTrappedInCanary, restore_replaced_plugin_hash, transition_to_error, Canary
<1>21. CASE RollbackOk
  BY <1>21 DEF RollbackOk, Reinstantiated, SafetyClone, report_rolled_back, Report, Instance,
               transition_to_recovering, transition_recovering_to_running_timed
<1>22. CASE RollbackFailed
  BY <1>22 DEF RollbackFailed, Reinstantiated, report_rolled_back, Report, Instance,
               record_condemned, DlqFates, Fates, BeginRecovery,
               transition_to_recovering, transition_to_error
<1>23. CASE RecoverOk
  BY <1>23 DEF RecoverOk, Reinstantiated, Instance, transition_recovering_to_running_timed
<1>24. CASE RecoverFailed
  BY <1>24 DEF RecoverFailed, Reinstantiated, Instance, transition_to_error,
               flush_to_dlq, FlushFates, Flushable, Fates
<1>25. CASE Exit
  BY <1>25 DEF Exit, flush_to_dlq, FlushFates, Flushable, Fates
<1>26. CASE SelectEof
  BY <1>26 DEF SelectEof
<1>27. ASSUME NEW m \in Msg, SelectMessage(m) PROVE TypeInv'
  BY <1>27 DEF SelectMessage
<1>28. ASSUME NEW r \in Req, NEW how \in {"replace", "reconfigure"}, Publish(r, how)
       PROVE  TypeInv'
  BY <1>28 DEF Publish, Payload
<1>29. ASSUME NEW r \in Req, Withdraw(r) PROVE TypeInv'
  BY <1>29 DEF Withdraw
<1>30. ASSUME NEW r \in Req, Retract(r) PROVE TypeInv'
  BY <1>30 DEF Retract
<1>31. CASE Cancel
  BY <1>31 DEF Cancel
<1>32. ASSUME NEW m \in Msg, BackoffExpires(m) PROVE TypeInv'
  BY <1>32 DEF BackoffExpires
<1>33. CASE WindowElapses
  <2>1. canary' \in Canary \cup {None}
    BY <1>33, CanaryTyped DEF WindowElapses
  <2> QED
    BY <1>33, <2>1 DEF WindowElapses
<1>34. CASE UNCHANGED vars
  BY <1>34
<1> HIDE RunnerAssumption DEF TypeInv, TypeOK, Hands, PC
<1>35. CASE Runner
  BY <1>1, <1>2, <1>3, <1>4, <1>5, <1>6, <1>7, <1>8, <1>9, <1>10, <1>11, <1>12, <1>13,
     <1>14, <1>15, <1>16, <1>17, <1>18, <1>19, <1>20, <1>21, <1>22, <1>23, <1>24, <1>25,
     <1>35, Zenon DEF Runner
<1>36. CASE Input \/ Time \/ Finished
  BY <1>26, <1>27, <1>32, <1>33, <1>34, <1>36, Zenon DEF Input, Time, Finished
<1>37. CASE Api
  BY <1>28, <1>29, <1>30, <1>31, <1>37, Zenon DEF Api
<1> QED
  BY <1>34, <1>35, <1>36, <1>37, Zenon DEF Next

\* Every variable keeps its type, in every instance of the runner: the message
\* slots hold messages, the registry and the cached pre always name a plugin.
THEOREM TypeCorrect == Spec => []TypeOK
<1>1. Init => TypeInv
  BY TypeInvInit
<1>2. TypeInv /\ [Next]_vars => TypeInv'
  BY TypeInvStep
<1>3. TypeInv => TypeOK
  BY DEF TypeInv
<1> QED
  BY <1>1, <1>2, <1>3, PTL DEF Spec

-----------------------------------------------------------------------------
(***************************************************************************)
(* Conservation of messages.  Accounted is inductive once the places a     *)
(* message can be in are tied to the control state by Hands.               *)
(***************************************************************************)

Inv == TypeInv /\ Accounted

\* A step that records no counter a second time.
Final == \A m \in Msg : fate[m] \in Fates => fate'[m] = fate[m]

\* A step moves messages between places or records them, never both.
LEMMA AccountedStep ==
    ASSUME Inv, [Next]_vars
    PROVE  Accounted' /\ Final
<1>0. TypeInv'
  BY TypeInvStep DEF Inv
<1> USE RunnerAssumption, <1>0 DEF Inv, TypeInv, TypeOK, Hands, Accounted, InPlace, Final
<1>1. CASE UNCHANGED msgVars
  BY <1>1
<1>2. CASE ReplayAfterRollback
  BY <1>2 DEF ReplayAfterRollback
<1>3. CASE NextInput
  BY <1>3 DEF NextInput
<1>4. CASE Adopt
  BY <1>4 DEF Adopt, flush_to_dlq, FlushFates, Flushable, Fates
<1>5. ASSUME NEW m \in Msg, RecvRetry(m) PROVE Accounted' /\ Final
  BY <1>5 DEF RecvRetry
<1>6. CASE Dequeued
  BY <1>6 DEF Dequeued
<1>7. CASE CallOk
  BY <1>7 DEF CallOk, Fates
<1>8. CASE CallDrops
  BY <1>8 DEF CallDrops, DropMessage, Fates
<1>9. ASSUME NEW error \in Retryable \cup {"bad_input", "timed_out", "budget"},
             NEW next \in {"top", "recover"}, HandleError(error, next), pc = "process"
      PROVE  Accounted' /\ Final
  <2>1. CASE CanRetry(current, error)
    BY <1>9, <2>1 DEF HandleError, Retry
  <2>2. CASE ~CanRetry(current, error)
    <3>1. PICK f \in PolicyFates(current, error) :
            /\ fate' = [fate EXCEPT ![current] = f]
            /\ UNCHANGED <<retryBuffer, due, retryCount>>
      BY <1>9, <2>2 DEF HandleError
    <3>2. f \in Fates
      BY PolicyFatesTyped, <1>9
    <3> QED
      BY <1>9, <3>1, <3>2 DEF HandleError, Fates
  <2> QED
    BY <2>1, <2>2
<1>10. ASSUME NEW error \in Retryable \cup {"bad_input", "timed_out"}, CallFailed(error)
       PROVE  Accounted' /\ Final
  BY <1>9, <1>10 DEF CallFailed
<1>11. CASE CallOverBudget
  BY <1>9, <1>11 DEF CallOverBudget
<1>12. CASE CallCondemned
  BY <1>12 DEF CallCondemned, record_condemned, DlqFates, Fates
<1>13. CASE RollbackOk
  BY <1>13 DEF RollbackOk, SafetyClone
<1>14. CASE RollbackFailed
  BY <1>14 DEF RollbackFailed, record_condemned, DlqFates, Fates
<1>15. CASE RecoverFailed
  BY <1>15 DEF RecoverFailed, flush_to_dlq, FlushFates, Flushable, Fates
<1>16. CASE Exit
  BY <1>16 DEF Exit, flush_to_dlq, FlushFates, Flushable, Fates
<1>17. ASSUME NEW m \in Msg, SelectMessage(m) PROVE Accounted' /\ Final
  BY <1>17 DEF SelectMessage, Fates
<1>18. ASSUME NEW m \in Msg, BackoffExpires(m) PROVE Accounted' /\ Final
  BY <1>18 DEF BackoffExpires
<1>19. \/ UNCHANGED msgVars \/ ReplayAfterRollback \/ NextInput \/ Adopt
       \/ \E m \in Msg : RecvRetry(m) \/ SelectMessage(m) \/ BackoffExpires(m)
       \/ Dequeued \/ CallOk \/ CallDrops
       \/ \E error \in Retryable \cup {"bad_input", "timed_out"} : CallFailed(error)
       \/ CallOverBudget \/ CallCondemned \/ RollbackOk \/ RollbackFailed
       \/ RecoverFailed \/ Exit
  <2>1. \/ Start \/ take_pending_swap \/ KeepOld \/ RecvSwap \/ RecvWait
        \/ SelectCancelled \/ SelectSwap \/ SelectDeadline \/ SendDone
        \/ CallTrappedInCanary \/ RecoverOk
        => UNCHANGED msgVars
    BY DEF Start, take_pending_swap, KeepOld, RecvSwap, RecvWait, SelectCancelled,
       SelectSwap, SelectDeadline, SendDone, CallTrappedInCanary, RecoverOk
  <2>2. SelectEof \/ Api \/ WindowElapses \/ Finished \/ UNCHANGED vars => UNCHANGED msgVars
    BY DEF SelectEof, Api, Publish, Withdraw, Retract, Cancel, WindowElapses, Finished
  <2> HIDE RunnerAssumption, <1>0
           DEF Inv, TypeInv, TypeOK, Hands, Accounted, InPlace, Final
  <2> QED BY <2>1, <2>2, Zenon DEF Next, Runner, Input, Time
<1> HIDE RunnerAssumption, <1>0
         DEF Inv, TypeInv, TypeOK, Hands, Accounted, InPlace, Final
<1> QED
  BY <1>1, <1>2, <1>3, <1>4, <1>5, <1>6, <1>7, <1>8, <1>10, <1>11, <1>12, <1>13, <1>14,
     <1>15, <1>16, <1>17, <1>18, <1>19, Zenon

\* Nothing has been dequeued when the runner starts.
LEMMA InvInit == Init => Inv
  BY TypeInvInit, RunnerAssumption DEF Inv, Init, Accounted, InPlace

\* Accounting is inductive together with the types.
LEMMA InvStep == Inv /\ [Next]_vars => Inv'
  BY TypeInvStep, AccountedStep DEF Inv

\* The conservation law of export_per_node_metrics: every message the runner
\* dequeued is in exactly one of its places or recorded by exactly one counter,
\* and recorded when the task ends.
THEOREM MessagesAccounted == Spec => []Accounted
<1>1. Inv => Accounted
  BY DEF Inv
<1> QED
  BY InvInit, InvStep, <1>1, PTL DEF Spec

\* No counter records a message that one has recorded already.
THEOREM FatesAreFinal == Spec => FateIsFinal
<1>1. Inv /\ [Next]_vars => [Final]_vars
  BY AccountedStep
<1>2. Spec => [][Final]_vars
  BY InvInit, InvStep, <1>1, PTL DEF Spec
<1> QED
  BY <1>2, PTL DEF FateIsFinal, Final

-----------------------------------------------------------------------------
(***************************************************************************)
(* The guest, its registry entry, the canary and the node's state.         *)
(***************************************************************************)

\* Where a lifecycle call is not under way, or has changed nothing yet.
Quiet == Settled \/ pc \in {"start", "init"}

\* PluginConsistent is not inductive: while the guest is rebuilt only the
\* registry and the cached pre agree, and a rollback relies on the snapshot
\* and on the replaced hash kept since the swap.
GuestInv ==
    /\ Quiet => hash = inst.plugin /\ pre = inst.plugin /\ config = inst.config
    /\ pc \in {"rollback", "recover"} => hash = pre
    /\ canary # None /\ Quiet =>
          /\ canary.req = inst.plugin
          /\ canary.pre = canary.was.plugin
          /\ replaced[canary.req] = canary.pre
          /\ config = canary.was.config
    /\ pc \in {"rollback", "recover"} => canary = None
    /\ pc = "start" => nodeState = "starting"
    /\ Settled \/ pc = "init" => nodeState = "running"
    /\ pc = "recover" => nodeState = "recovering"
    /\ pc = "rollback" => nodeState = "error"

\* The launcher's plugin is live, cached and registered.
LEMMA GuestInvInit == Init => GuestInv
  BY DEF Init, GuestInv, Quiet, Settled

\* The ways a step may change an armed canary without replacing it.
CanaryTick ==
    \/ canary' = canary
    \/ /\ canary # None
       /\ canary' \in {OpenCanary, record_success, CanaryAfterError,
                       [canary EXCEPT !.elapsed = TRUE]}

\* The fields of an armed canary other than its counters stay as they are.
LEMMA CanaryKeeps ==
    ASSUME TypeOK, canary # None, CanaryTick, canary' # None
    PROVE  /\ canary'.req = canary.req
           /\ canary'.pre = canary.pre
           /\ canary'.was = canary.was
<1>1. ASSUME NEW c \in Canary, NEW d, 
             \/ d = c
             \/ d = [c EXCEPT !.successes = c.successes + 1]
             \/ d = [c EXCEPT !.failedAt = c.successes]
             \/ d = [c EXCEPT !.elapsed = TRUE]
      PROVE  d.req = c.req /\ d.pre = c.pre /\ d.was = c.was
  BY <1>1 DEF Canary
<1>2. canary \in Canary
  BY DEF TypeOK
<1> QED
  BY <1>1, <1>2, Zenon DEF CanaryTick, OpenCanary, record_success, CanaryAfterError

\* Every lifecycle call keeps guest, cache, config, registry and canary in step.
LEMMA GuestInvStep ==
    ASSUME TypeInv, GuestInv, [Next]_vars
    PROVE  GuestInv'
<1> USE RunnerAssumption DEF TypeInv, TypeOK, Hands, GuestInv, Quiet, Settled, PC
\* Steps within the loop, or out of it, that leave the guest alone.
<1>1. ASSUME UNCHANGED <<inst, pre, config, nodeState, hash, replaced>>,
             \/ pc' = pc
             \/ (Settled \/ pc = "init") /\ (Settled \/ pc = "init")'
             \/ pc' \in {"exit", "done"},
             CanaryTick
      PROVE  GuestInv'
  <2>1. CASE canary' = canary
    BY <1>1, <2>1
  <2>2. CASE canary' # canary /\ canary' # None
    BY <1>1, <2>2, CanaryKeeps DEF CanaryTick
  <2>3. CASE canary' = None
    BY <1>1, <2>3
  <2> QED
    BY <2>1, <2>2, <2>3
<1>2. CASE Start
  BY <1>2 DEF Start, transition_to_running
<1>3. CASE Adopt
  BY <1>3 DEF Adopt, try_hot_swap, try_reconfigure, CanaryAfterAdopt, NewCanary, mark_replacement_adopted, Payload, Instance
<1>4. CASE CallTrappedInCanary
  BY <1>4 DEF CallTrappedInCanary, restore_replaced_plugin_hash, transition_to_error,
              Canary, Plugin
<1>5. CASE CallOverBudget
  BY <1>5 DEF CallOverBudget, HandleError, BeginRecovery, transition_to_recovering,
              transition_to_error
<1>6. CASE CallCondemned
  BY <1>6 DEF CallCondemned, BeginRecovery, transition_to_recovering, transition_to_error
<1>7. CASE RollbackOk
  BY <1>7 DEF RollbackOk, Reinstantiated, transition_to_recovering,
              transition_recovering_to_running_timed
<1>8. CASE RollbackFailed
  BY <1>8 DEF RollbackFailed, BeginRecovery, transition_to_recovering, transition_to_error
<1>9. CASE RecoverOk
  BY <1>9 DEF RecoverOk, Reinstantiated, transition_recovering_to_running_timed
<1>10. CASE RecoverFailed
  BY <1>10 DEF RecoverFailed
<1>11. CASE Exit
  BY <1>11 DEF Exit
<1>12. CASE SendDone
  BY <1>1, <1>12 DEF SendDone, CanaryTick, record_success
<1>13. CASE ReplayAfterRollback \/ take_pending_swap \/ NextInput
  BY <1>1, <1>13 DEF ReplayAfterRollback, take_pending_swap, NextInput, CanaryTick, OpenCanary
<1>14. ASSUME NEW error \in Retryable \cup {"bad_input", "timed_out"}, CallFailed(error)
       PROVE  GuestInv'
  BY <1>1, <1>14 DEF CallFailed, HandleError, CanaryTick, CanaryAfterError
<1>15. CASE WindowElapses
  BY <1>1, <1>15 DEF WindowElapses, CanaryTick
<1>16. CASE \/ KeepOld \/ RecvSwap \/ RecvWait \/ SelectCancelled \/ SelectSwap
            \/ SelectDeadline \/ SelectEof \/ Dequeued \/ CallOk \/ CallDrops
  BY <1>1, <1>16 DEF KeepOld, RecvSwap, RecvWait, SelectCancelled, SelectSwap,
     SelectDeadline, SelectEof, Dequeued, CallOk, CallDrops, DropMessage,
     CanaryTick
<1>17. ASSUME NEW m \in Msg, RecvRetry(m) \/ SelectMessage(m) \/ BackoffExpires(m)
       PROVE  GuestInv'
  BY <1>1, <1>17 DEF RecvRetry, SelectMessage, BackoffExpires, CanaryTick
<1>18. CASE Api \/ UNCHANGED vars
  BY <1>1, <1>18 DEF Api, Publish, Withdraw, Retract, Cancel, CanaryTick
<1> HIDE RunnerAssumption DEF TypeInv, TypeOK, Hands, GuestInv, Quiet, Settled, PC
<1>19. CASE Runner
  BY <1>2, <1>3, <1>4, <1>5, <1>6, <1>7, <1>8, <1>9, <1>10, <1>11, <1>12, <1>13, <1>14,
     <1>16, <1>17, <1>19, Zenon DEF Runner
<1>20. CASE Input \/ Time \/ Finished
  BY <1>15, <1>16, <1>17, <1>18, <1>20, Zenon DEF Input, Time, Finished
<1> QED
  BY <1>18, <1>19, <1>20, Zenon DEF Next

GuestFacts == GuestInv /\ TypeInv

\* The guest invariant and the types hold always.
LEMMA GuestFactsAlways == Spec => []GuestFacts
<1>1. Init => GuestFacts
  BY GuestInvInit, TypeInvInit DEF GuestFacts
<1>2. GuestFacts /\ [Next]_vars => GuestFacts'
  BY GuestInvStep, TypeInvStep DEF GuestFacts
<1> QED
  BY <1>1, <1>2, PTL DEF Spec

\* The registry, the cached pre and the live guest name the same plugin at
\* every step of the loop, whatever swaps, failed inits, reconfigurations,
\* rollbacks and recoveries came before.
THEOREM RegistryTracksGuest == Spec => []PluginConsistent
<1>1. GuestFacts => PluginConsistent
  BY DEF GuestFacts, GuestInv, PluginConsistent, Quiet
<1> QED
  BY GuestFactsAlways, <1>1, PTL

\* A trap inside the canary window finds exactly what the swap replaced.
THEOREM RollbackIsExact == Spec => []RollbackRestores
<1>1. GuestFacts => RollbackRestores
  BY DEF GuestFacts, GuestInv, RollbackRestores, Quiet
<1> QED
  BY GuestFactsAlways, <1>1, PTL

\* What /nodes reports of a node is what its runner is doing.
THEOREM StateIsHonest == Spec => []StateHonest
<1>1. GuestFacts => StateHonest
  BY DEF GuestFacts, GuestInv, StateHonest, Quiet
<1> QED
  BY GuestFactsAlways, <1>1, PTL

-----------------------------------------------------------------------------
(***************************************************************************)
(* The signal barrier.                                                     *)
(***************************************************************************)

\* A message is dequeued at a version the channel has reached; one that a
\* guest call has started on was dequeued no later than what is seen, and
\* stays so while it waits for its replay.
BarrierInv ==
    /\ \A m \in Msg : dequeuedAt[m] <= version
    /\ pc \in {"process", "rollback"} => dequeuedAt[current] <= seen
    /\ rollbackRetry # None => dequeuedAt[rollbackRetry] <= seen

\* No step puts a message in hand that is newer than what the runner has seen.
LEMMA BarrierInvStep ==
    ASSUME TypeInv, BarrierInv, [Next]_vars
    PROVE  BarrierInv'
<1> USE RunnerAssumption DEF TypeInv, TypeOK, Hands, BarrierInv, PC
<1>1. ASSUME UNCHANGED <<dequeuedAt, rollbackRetry, version, seen>>,
             pc' \notin {"process", "rollback"} \/ UNCHANGED <<pc, current>>
      PROVE  BarrierInv'
  BY <1>1
<1>2. CASE ReplayAfterRollback
  BY <1>2 DEF ReplayAfterRollback
<1>3. CASE take_pending_swap \/ NextInput
  BY <1>3 DEF take_pending_swap, NextInput
<1>4. CASE Dequeued
  BY <1>4 DEF Dequeued, HoldForSwap, swap_pending
<1>5. ASSUME NEW m \in Msg, SelectMessage(m) PROVE BarrierInv'
  BY <1>5 DEF SelectMessage
<1>6. CASE CallTrappedInCanary
  BY <1>6 DEF CallTrappedInCanary
<1>7. CASE RollbackOk
  BY <1>7 DEF RollbackOk, SafetyClone
<1>8. ASSUME NEW r \in Req, NEW how \in {"replace", "reconfigure"}, Publish(r, how)
      PROVE  BarrierInv'
  BY <1>8 DEF Publish
<1>9. ASSUME NEW error \in Retryable \cup {"bad_input", "timed_out"}, CallFailed(error)
      PROVE  BarrierInv'
  BY <1>1, <1>9 DEF CallFailed, HandleError
<1>10. CASE Start \/ Adopt \/ KeepOld \/ RecvSwap \/ RecvWait \/ SelectCancelled
            \/ SelectSwap \/ SelectDeadline \/ SelectEof
  BY <1>1, <1>10 DEF Start, Adopt, KeepOld, RecvSwap, RecvWait, SelectCancelled,
     SelectSwap, SelectDeadline, SelectEof
<1>11. CASE CallOk \/ SendDone \/ CallDrops \/ CallOverBudget \/ CallCondemned
            \/ RollbackFailed \/ RecoverOk \/ RecoverFailed \/ Exit
  BY <1>1, <1>11 DEF CallOk, SendDone, CallDrops, DropMessage, CallOverBudget, HandleError,
     CallCondemned, RollbackFailed, RecoverOk, RecoverFailed, Exit
<1>12. ASSUME NEW r \in Req, Withdraw(r) \/ Retract(r) PROVE BarrierInv'
  BY <1>1, <1>12 DEF Withdraw, Retract
<1>13. ASSUME NEW m \in Msg, RecvRetry(m) \/ BackoffExpires(m) PROVE BarrierInv'
  BY <1>1, <1>13 DEF RecvRetry, BackoffExpires
<1>14. CASE Cancel \/ WindowElapses \/ UNCHANGED vars
  BY <1>1, <1>14 DEF Cancel, WindowElapses
<1> HIDE RunnerAssumption DEF TypeInv, TypeOK, Hands, BarrierInv, PC
<1>15. CASE Runner
  BY <1>2, <1>3, <1>4, <1>6, <1>7, <1>9, <1>10, <1>11, <1>13, <1>15, Zenon DEF Runner
<1>16. CASE Input \/ Time \/ Finished
  BY <1>5, <1>10, <1>13, <1>14, <1>16, Zenon DEF Input, Time, Finished
<1>17. CASE Api
  BY <1>8, <1>12, <1>14, <1>17, Zenon DEF Api
<1> QED
  BY <1>14, <1>15, <1>16, <1>17, Zenon DEF Next

\* No guest call starts on a message that was dequeued after a signal the
\* runner has not looked at: the old instance never sees one.
THEOREM OldInstanceBarrier == Spec => []SignalBarrier
<1> DEFINE Both == TypeInv /\ BarrierInv
<1>1. Init => Both
  BY TypeInvInit DEF Init, BarrierInv
<1>2. Both /\ [Next]_vars => Both'
  BY TypeInvStep, BarrierInvStep
<1>3. Both => SignalBarrier
  BY DEF BarrierInv, SignalBarrier
<1> HIDE DEF Both
<1> QED
  BY <1>1, <1>2, <1>3, PTL DEF Spec

-----------------------------------------------------------------------------
(***************************************************************************)
(* Who owns a payload.                                                     *)
(***************************************************************************)

\* What runs, and what a rollback would bring back.
InUse ==
    {pre, config} \cup (IF canary = None THEN {}
                        ELSE {canary.pre, canary.was.plugin, canary.was.config})

\* The progress handle of one request: nothing is on record before the runner
\* has claimed the payload, and what was reported is what happened.
HonestProgress ==
    \A r \in Req :
        /\ adopted[r] \/ result[r] # None => claim[r] = "runner"
        /\ localOutcome[r] \/ result[r] \in {"ok", "rolled_back"} => adopted[r]
        /\ result[r] = "init_failed" => ~adopted[r]
        /\ result[r] = "ok" => localOutcome[r]

\* What is in use was adopted and was not reported rolled back.
OnlyAdopted == \A r \in Req : r \in InUse => adopted[r] /\ result[r] # "rolled_back"

\* The claimed payload is new; a rollback takes out the request it reports.
Tracked ==
    /\ payload # None => /\ claim[payload.req] = "runner"
                         /\ ~adopted[payload.req] /\ result[payload.req] = None
    /\ pendingReq # None => adopted[pendingReq]
    /\ canary # None =>
          /\ adopted[canary.req]
          /\ canary.req \notin {canary.pre, canary.was.plugin, canary.was.config}
          /\ pendingReq \in {None, canary.req}
    /\ pc = "rollback" => pendingReq \notin InUse

OwnerInv == HonestProgress /\ OnlyAdopted /\ Tracked

\* Nothing was requested at the start.
LEMMA OwnerInvInit == Init => OwnerInv
  BY RunnerAssumption, ApiAssumption DEF Init, OwnerInv, HonestProgress, OnlyAdopted, Tracked, InUse

\* A canary that counts, expires or is dropped brings nothing into use.
LEMMA TickInUse ==
    ASSUME TypeOK, CanaryTick, UNCHANGED <<pre, config>>
    PROVE  /\ InUse' \subseteq InUse
           /\ canary' # None => /\ canary # None
                                /\ canary'.req = canary.req
                                /\ canary'.pre = canary.pre
                                /\ canary'.was = canary.was
<1>1. canary' # None => /\ canary # None
                        /\ canary'.req = canary.req
                        /\ canary'.pre = canary.pre
                        /\ canary'.was = canary.was
  <2>1. CASE canary' = canary
    BY <2>1
  <2>2. CASE canary' # canary
    BY <2>2, CanaryKeeps DEF CanaryTick
  <2> QED
    BY <2>1, <2>2
<1> QED
  BY <1>1, Zenon DEF InUse

\* Every step of the runner, of its input and of the API keeps to it.
LEMMA OwnerInvStep ==
    ASSUME TypeInv, GuestInv, OwnerInv, [Next]_vars
    PROVE  OwnerInv'
<1> USE DEF OwnerInv
<1> TypeOK
  BY DEF TypeInv
\* Steps that report nothing and leave the guest alone.
<1>1. ASSUME UNCHANGED <<pre, config, adopted, localOutcome, result, payload, pendingReq>>,
             \A r \in Req : claim[r] = "runner" => claim'[r] = "runner",
             pc' # "rollback" \/ pc' = pc,
             CanaryTick
      PROVE  OwnerInv'
  <2>1. HonestProgress'
    BY <1>1, Zenon DEF HonestProgress
  <2>2. OnlyAdopted'
    BY <1>1, TickInUse, Zenon DEF OnlyAdopted
  <2>3. Tracked'
    <3>1. payload # None => payload.req \in Req
      BY DEF TypeOK, Payload
    <3> QED
      BY <1>1, TickInUse, <3>1, Zenon DEF Tracked
  <2> QED
    BY <2>1, <2>2, <2>3
\* The API has not withdrawn the payload, so nothing is on record for it.
<1>2. CASE take_pending_swap
  <2> DEFINE r == slot.req
  <2>1. /\ r \in Req /\ payload' = slot /\ pc' = "init"
        /\ claim[r] = "pending" /\ claim' = [claim EXCEPT ![r] = "runner"]
        /\ UNCHANGED <<pre, config, adopted, localOutcome, result, pendingReq>>
        /\ CanaryTick
    BY <1>2 DEF take_pending_swap, Claimable, TypeOK, Payload, CanaryTick, OpenCanary
  <2>2. /\ claim'[r] = "runner" /\ claim[r] # "runner"
        /\ \A q \in Req : claim[q] = "runner" => claim'[q] = "runner"
    BY <2>1 DEF TypeOK
  <2>3. HonestProgress'
    BY <2>1, <2>2, Zenon DEF HonestProgress
  <2>4. OnlyAdopted'
    BY <2>1, TickInUse, Zenon DEF OnlyAdopted
  <2>5. ~adopted[r] /\ result[r] = None /\ pc' # "rollback"
    BY <2>1, <2>2 DEF HonestProgress
  <2>6. Tracked'
    BY <2>1, <2>2, <2>5, TickInUse, Zenon DEF Tracked
  <2> QED
    BY <2>3, <2>4, <2>6
\* The payload comes into use; what its canary keeps was in use before.
<1>3. CASE Adopt
  <2> DEFINE r == payload.req
  <2>1. payload # None /\ r \in Req /\ pc = "init"
    BY <1>3 DEF Adopt, TypeInv, TypeOK, Hands, Payload
  <2>2. /\ claim[r] = "runner" /\ ~adopted[r] /\ result[r] = None
        /\ ~localOutcome[r] /\ r \notin InUse
    BY <2>1, Zenon DEF Tracked, HonestProgress, OnlyAdopted
  <2>3. /\ adopted' = [adopted EXCEPT ![r] = TRUE]
        /\ UNCHANGED <<result, localOutcome, claim>>
        /\ pendingReq' = r /\ payload' = None /\ pc' = "top"
    BY <1>3, <2>2 DEF Adopt, mark_replacement_adopted
  <2>4. inst.plugin = pre /\ inst.config = config
    BY <2>1 DEF GuestInv, Quiet
  <2>5. {pre', config'} \subseteq {pre, config, r}
    BY <1>3 DEF Adopt, try_hot_swap, try_reconfigure
  <2>6. canary' # None => canary'.req = r /\ canary'.pre = pre /\ canary'.was = inst
    BY <1>3 DEF Adopt, CanaryAfterAdopt, NewCanary
  <2>7. InUse' \subseteq InUse \cup {r}
    BY <2>4, <2>5, <2>6 DEF InUse
  <2>8. /\ adopted'[r]
        /\ \A q \in Req : q # r => adopted'[q] = adopted[q]
        /\ \A q \in Req : adopted[q] => adopted'[q]
    BY <2>1, <2>3 DEF TypeOK
  <2>9. HonestProgress'
    <3> SUFFICES ASSUME NEW q \in Req
                 PROVE  /\ adopted'[q] \/ result'[q] # None => claim'[q] = "runner"
                        /\ localOutcome'[q] \/ result'[q] \in {"ok", "rolled_back"} => adopted'[q]
                        /\ result'[q] = "init_failed" => ~adopted'[q]
                        /\ result'[q] = "ok" => localOutcome'[q]
      BY Zenon DEF HonestProgress
    <3>1. CASE q = r
      BY <3>1, <2>2, <2>3, <2>8, ApiAssumption
    <3>2. CASE q # r
      BY <3>2, <2>3, <2>8, Zenon DEF HonestProgress
    <3> QED
      BY <3>1, <3>2
  <2>10. OnlyAdopted'
    <3>1. result'[r] # "rolled_back"
      BY <2>2, <2>3, ApiAssumption
    <3> QED
      BY <2>3, <2>7, <2>8, <3>1, Zenon DEF OnlyAdopted
  <2>11. Tracked'
    <3>1. canary' # None => r \notin {canary'.pre, canary'.was.plugin, canary'.was.config}
      BY <2>2, <2>4, <2>6 DEF InUse
    <3> QED
      BY <2>3, <2>6, <2>8, <3>1 DEF Tracked
  <2> QED
    BY <2>9, <2>10, <2>11
\* The runner reports that the payload it has claimed does not initialise.
<1>4. CASE KeepOld
  <2> DEFINE r == payload.req
  <2>1. payload # None /\ r \in Req
    BY <1>4 DEF KeepOld, TypeInv, TypeOK, Hands, Payload
  <2>2. claim[r] = "runner" /\ ~adopted[r] /\ result[r] = None /\ r \notin InUse
    BY <2>1, Zenon DEF Tracked, OnlyAdopted
  <2>3. /\ UNCHANGED <<pre, config, canary, adopted, localOutcome, claim, pendingReq>>
        /\ payload' = None /\ pc' = "top" /\ InUse' = InUse
        /\ result'[r] = "init_failed"
        /\ \A q \in Req : q # r => result'[q] = result[q]
    BY <1>4, <2>1, <2>2 DEF KeepOld, Report, TypeOK, InUse
  <2>4. HonestProgress'
    <3> SUFFICES ASSUME NEW q \in Req
                 PROVE  /\ adopted'[q] \/ result'[q] # None => claim'[q] = "runner"
                        /\ localOutcome'[q] \/ result'[q] \in {"ok", "rolled_back"} => adopted'[q]
                        /\ result'[q] = "init_failed" => ~adopted'[q]
                        /\ result'[q] = "ok" => localOutcome'[q]
      BY Zenon DEF HonestProgress
    <3>1. CASE q = r
      <4>1. ~localOutcome[r]
        BY <2>1, <2>2, Zenon DEF HonestProgress
      <4> QED
        BY <3>1, <2>2, <2>3, <4>1
    <3>2. CASE q # r
      BY <3>2, <2>3, Zenon DEF HonestProgress
    <3> QED
      BY <3>1, <3>2
  <2>5. OnlyAdopted'
    BY <2>2, <2>3, Zenon DEF OnlyAdopted
  <2>6. Tracked'
    <3>1. pc' # "rollback"
      BY <2>3
    <3> QED
      BY <2>3, <3>1, Zenon DEF Tracked
  <2> QED
    BY <2>4, <2>5, <2>6
\* The first local outcome is put on record, and reported.
<1>5. ASSUME mark_first_post_replacement_local_outcome, CanaryTick,
             pc # "init" /\ pc' = "top",
             UNCHANGED <<pre, config, adopted, claim, payload>>
      PROVE  OwnerInv'
  <2>1. CASE pendingReq = None
    <3>1. UNCHANGED <<localOutcome, result, pendingReq>> /\ pc' # "rollback"
      BY <1>5, <2>1 DEF mark_first_post_replacement_local_outcome
    <3> QED
      BY <1>1, <1>5, <3>1, Zenon
  <2>2. CASE pendingReq # None
    <3> DEFINE p == pendingReq
    <3>1. p \in Req /\ adopted[p]
      BY <2>2, Zenon DEF TypeOK, Tracked
    <3>2. /\ pendingReq' = None /\ pc' # "rollback"
          /\ localOutcome'[p] /\ result'[p] = IF result[p] = None THEN "ok" ELSE result[p]
          /\ \A q \in Req : q # p => localOutcome'[q] = localOutcome[q] /\ result'[q] = result[q]
      BY <1>5, <2>2, <3>1 DEF mark_first_post_replacement_local_outcome, Report, TypeOK
    <3>3. HonestProgress'
      <4> SUFFICES ASSUME NEW q \in Req
                   PROVE  /\ adopted'[q] \/ result'[q] # None => claim'[q] = "runner"
                          /\ localOutcome'[q] \/ result'[q] \in {"ok", "rolled_back"} => adopted'[q]
                          /\ result'[q] = "init_failed" => ~adopted'[q]
                          /\ result'[q] = "ok" => localOutcome'[q]
        BY Zenon DEF HonestProgress
      <4>1. CASE q = p
        <5>1. claim[p] = "runner" /\ result[p] # "init_failed"
          BY <3>1, Zenon DEF HonestProgress
        <5>2. result'[p] # "init_failed"
          BY <3>2, <5>1
        <5> QED
          BY <1>5, <3>1, <3>2, <4>1, <5>1, <5>2, Zenon
      <4>2. CASE q # p
        BY <1>5, <3>2, <4>2, Zenon DEF HonestProgress
      <4> QED
        BY <4>1, <4>2
    <3>4. \A q \in Req : result[q] # "rolled_back" => result'[q] # "rolled_back"
      BY <3>1, <3>2
    <3>5. OnlyAdopted'
      BY <1>5, <3>4, TickInUse, Zenon DEF OnlyAdopted
    <3>6. Tracked'
      <4>1. payload = None
        BY <1>5 DEF TypeInv, Hands
      <4> QED
        BY <1>5, <3>2, <4>1, TickInUse, Zenon DEF Tracked
    <3> QED
      BY <3>3, <3>5, <3>6
  <2> QED
    BY <2>1, <2>2
\* A trap under the canary takes the replacement out of use.
<1>6. CASE CallTrappedInCanary
  <2>1. /\ canary # None /\ canary' = None /\ pre' = canary.pre /\ pc = "process"
        /\ UNCHANGED <<config, adopted, localOutcome, result, claim, pendingReq, payload>>
    BY <1>6 DEF CallTrappedInCanary
  <2>2. config = canary.was.config
    BY <2>1 DEF GuestInv, Quiet, Settled
  <2>3. InUse' \subseteq InUse /\ InUse' = {canary.pre, canary.was.config}
    BY <2>1, <2>2, Zenon DEF InUse
  <2>4. HonestProgress'
    BY <2>1, Zenon DEF HonestProgress
  <2>5. OnlyAdopted'
    BY <2>1, <2>3, Zenon DEF OnlyAdopted
  <2>6. Tracked'
    <3>1. payload = None
      BY <2>1 DEF TypeInv, Hands
    <3>2. None \notin InUse'
      BY <2>1, <2>3, RunnerAssumption DEF TypeOK, Canary, Instance, Plugin
    <3> QED
      BY <2>1, <2>3, <3>1, <3>2, Zenon DEF Tracked
  <2> QED
    BY <2>4, <2>5, <2>6
\* The request a rollback reports is not what it has brought back.
<1>7. CASE RollbackOk \/ RollbackFailed
  <2>1. /\ pc = "rollback" /\ pc' # "rollback" /\ report_rolled_back
        /\ UNCHANGED <<pre, config, canary, adopted, localOutcome, claim, payload>>
    BY <1>7 DEF RollbackOk, RollbackFailed
  <2>2. InUse' = InUse /\ canary = None /\ payload = None
    BY <2>1 DEF InUse, GuestInv, TypeInv, Hands
  <2>3. CASE pendingReq = None
    <3>1. result' = result /\ pendingReq' = pendingReq
      BY <2>1, <2>3 DEF report_rolled_back
    <3> QED
      BY <1>1, <2>1, <3>1, Zenon DEF CanaryTick
  <2>4. CASE pendingReq # None
    <3> DEFINE p == pendingReq
    <3>1. p \in Req /\ adopted[p] /\ p \notin InUse
      BY <2>1, <2>4, Zenon DEF TypeOK, Tracked
    <3>2. /\ pendingReq' = None
          /\ result'[p] = IF result[p] = None THEN "rolled_back" ELSE result[p]
          /\ \A q \in Req : q # p => result'[q] = result[q]
      BY <2>1, <2>4, <3>1 DEF report_rolled_back, Report, TypeOK
    <3>3. HonestProgress'
      <4> SUFFICES ASSUME NEW q \in Req
                   PROVE  /\ adopted'[q] \/ result'[q] # None => claim'[q] = "runner"
                          /\ localOutcome'[q] \/ result'[q] \in {"ok", "rolled_back"} => adopted'[q]
                          /\ result'[q] = "init_failed" => ~adopted'[q]
                          /\ result'[q] = "ok" => localOutcome'[q]
        BY Zenon DEF HonestProgress
      <4>1. CASE q = p
        <5>1. /\ claim[p] = "runner" /\ result[p] # "init_failed"
              /\ result[p] = "ok" => localOutcome[p]
          BY <3>1, Zenon DEF HonestProgress
        <5>2. /\ result'[p] # "init_failed"
              /\ result'[p] = "ok" => result[p] = "ok"
          BY <3>2, <5>1
        <5> QED
          BY <2>1, <3>1, <3>2, <4>1, <5>1, <5>2, Zenon
      <4>2. CASE q # p
        BY <2>1, <3>2, <4>2, Zenon DEF HonestProgress
      <4> QED
        BY <4>1, <4>2
    <3>4. OnlyAdopted'
      BY <2>1, <2>2, <3>1, <3>2, Zenon DEF OnlyAdopted
    <3>5. Tracked'
      BY <2>1, <2>2, <3>2, Zenon DEF Tracked
    <3> QED
      BY <3>3, <3>4, <3>5
  <2> QED
    BY <2>3, <2>4
<1>8. CASE SendDone
  BY <1>5, <1>8 DEF SendDone, CanaryTick, record_success
<1>9. CASE CallDrops
  BY <1>5, <1>9 DEF CallDrops, DropMessage, CanaryTick
<1>10. CASE ReplayAfterRollback \/ NextInput \/ WindowElapses
  BY <1>1, <1>10 DEF ReplayAfterRollback, NextInput, WindowElapses, CanaryTick, OpenCanary
<1>11. ASSUME NEW error \in Retryable \cup {"bad_input", "timed_out"}, CallFailed(error)
       PROVE  OwnerInv'
  BY <1>1, <1>11 DEF CallFailed, HandleError, CanaryTick, CanaryAfterError
<1>12. CASE \/ Start \/ RecvSwap \/ RecvWait \/ SelectCancelled \/ SelectSwap
            \/ SelectDeadline \/ SelectEof \/ Dequeued \/ CallOk
            \/ RecoverOk \/ RecoverFailed \/ Exit \/ UNCHANGED vars
  BY <1>1, <1>12 DEF Start, RecvSwap, RecvWait, SelectCancelled, SelectSwap,
     SelectDeadline, SelectEof, Dequeued, CallOk, RecoverOk, RecoverFailed, Exit, CanaryTick
<1>13. CASE CallOverBudget \/ CallCondemned
  BY <1>1, <1>13 DEF CallOverBudget, CallCondemned, HandleError, CanaryTick
<1>14. ASSUME NEW m \in Msg, RecvRetry(m) \/ SelectMessage(m) \/ BackoffExpires(m)
       PROVE  OwnerInv'
  BY <1>1, <1>14 DEF RecvRetry, SelectMessage, BackoffExpires, CanaryTick
<1>15. CASE Api
  BY <1>1, <1>15 DEF Api, Publish, Withdraw, Retract, Cancel, CanaryTick, TypeOK
<1>16. CASE Runner
  BY <1>2, <1>3, <1>4, <1>6, <1>7, <1>8, <1>9, <1>10, <1>11, <1>12, <1>13, <1>14, <1>16,
     Zenon DEF Runner
<1>17. CASE Input \/ Time \/ Finished
  BY <1>10, <1>12, <1>14, <1>17, Zenon DEF Input, Time, Finished
<1> QED
  BY <1>12, <1>15, <1>16, <1>17, Zenon DEF Next

OwnerFacts == GuestFacts /\ OwnerInv

\* Ownership, with what it rests on, is kept by every step of a node.
LEMMA OwnerFactsStep == OwnerFacts /\ [Next]_vars => OwnerFacts'
  BY GuestInvStep, TypeInvStep, OwnerInvStep DEF OwnerFacts, GuestFacts

\* It holds when a node starts.
LEMMA OwnerFactsInit == Init => OwnerFacts
  BY GuestInvInit, TypeInvInit, OwnerInvInit DEF OwnerFacts, GuestFacts

\* A payload that its requester has withdrawn, that failed to initialise or
\* that was reported rolled back neither runs nor is kept for a rollback.
LEMMA OwnersRun == OwnerFacts => DisownedNeverRuns
<1> SUFFICES ASSUME OwnerFacts, NEW r \in Req,
                    claim[r] = "withdrawn" \/ result[r] \in {"init_failed", "rolled_back"}
             PROVE  /\ Settled => r \notin {inst.plugin, inst.config}
                    /\ canary # None => /\ canary.pre # r
                                        /\ r \notin {canary.was.plugin, canary.was.config}
  BY Zenon DEF DisownedNeverRuns
<1>1. r \notin InUse
  <2>1. CASE claim[r] = "withdrawn"
    <3>1. claim[r] # "runner"
      BY <2>1
    <3> QED
      BY <3>1, Zenon DEF OwnerFacts, OwnerInv, HonestProgress, OnlyAdopted
  <2>2. CASE result[r] \in {"init_failed", "rolled_back"}
    BY <2>2, Zenon DEF OwnerFacts, OwnerInv, HonestProgress, OnlyAdopted
  <2> QED
    BY <2>1, <2>2
<1>2. Settled => inst.plugin = pre /\ inst.config = config
  BY DEF OwnerFacts, GuestFacts, GuestInv, Quiet
<1> QED
  BY <1>1, <1>2, Zenon DEF InUse

\* Whatever order requests, timeouts, failures and rollbacks come in, the
\* runner never runs a payload it has disowned: take_pending_swap claims it
\* first, and a rollback restores an instance adopted earlier.
THEOREM DisownedNeverRun == Spec => []DisownedNeverRuns
<1>1. Spec => []OwnerFacts
  BY OwnerFactsInit, OwnerFactsStep, PTL DEF Spec
<1> QED
  BY <1>1, OwnersRun, PTL

-----------------------------------------------------------------------------
(***************************************************************************)
(* The handlers: the guard, and what callers are told.                     *)
(***************************************************************************)

\* AnswersHold speaks of answered requests; this says what each handler knows
\* of its payload while it is still on its way.
Told(r) ==
    /\ resp[r] = None <=> hpc[r] # "answered"
    /\ hpc[r] \in {"idle", "preparing", "ready"} => claim[r] = "unsent"
    /\ hpc[r] \in {"waiting", "unfinished"} => claim[r] \in {"pending", "runner"}
    /\ hpc[r] = "retract" => claim[r] = "withdrawn"
    /\ hpc[r] = "settling" => claim[r] = "runner"
    /\ resp[r] \in {"404", "409_busy", "409_hash", "prepare_failed"} => claim[r] = "unsent"
    /\ resp[r] = "504" => claim[r] = "withdrawn"
    /\ resp[r] = "202_unknown" => claim[r] = "runner"
    /\ resp[r] = "202_adopted" => adopted[r]
    /\ resp[r] = "200" => result[r] = "ok"
    /\ resp[r] = "rolled_back" => result[r] = "rolled_back"
    /\ resp[r] = "409_init" => result[r] = "init_failed"

ApiInv == ApiTypeOK /\ GuardProtects /\ \A r \in Req : Told(r)

\* What no step of others takes back from a request.
Kept(r) ==
    /\ claim'[r] = claim[r] \/ (claim[r] = "pending" /\ claim'[r] = "runner")
    /\ result[r] # None => result'[r] = result[r]
    /\ adopted[r] => adopted'[r]

\* A handler that does not move stays right.
LEMMA ToldKept ==
    ASSUME NEW r \in Req, Told(r), Kept(r), hpc'[r] = hpc[r], resp'[r] = resp[r]
    PROVE  Told(r)'
<1>1. claim[r] \in {"unsent", "withdrawn", "runner"} => claim'[r] = claim[r]
  BY DEF Kept
<1>2. claim[r] \in {"pending", "runner"} => claim'[r] \in {"pending", "runner"}
  BY DEF Kept
<1>3. \A o \in {"ok", "rolled_back", "init_failed"} : result[r] = o => result'[r] = o
  BY ApiAssumption DEF Kept
<1> QED
  BY <1>1, <1>2, <1>3, Zenon DEF Told, Kept

\* The oneshot is used once, an adoption stays on record and only a pending
\* payload changes hands, whatever the node does.
LEMMA NodeKeeps ==
    ASSUME TypeInv, Runner \/ Input \/ Time \/ Cancel \/ Finished, NEW r \in Req
    PROVE  Kept(r)
<1> TypeOK
  BY DEF TypeInv
<1>1. CASE UNCHANGED <<claim, result, adopted>>
  BY <1>1, Zenon DEF Kept
<1>2. CASE take_pending_swap
  BY <1>2 DEF take_pending_swap, Claimable, TypeOK, Payload, Kept
<1>3. CASE Adopt
  <2>1. payload.req \in Req
    BY <1>3 DEF Adopt, TypeInv, TypeOK, Hands, Payload
  <2> QED
    BY <1>3, <2>1 DEF Adopt, mark_replacement_adopted, Report, TypeOK, Kept
<1>4. CASE KeepOld
  BY <1>4 DEF KeepOld, Report, TypeOK, Kept
<1>5. CASE SendDone \/ CallDrops
  <2>1. UNCHANGED <<claim, adopted>> /\ mark_first_post_replacement_local_outcome
    BY <1>5 DEF SendDone, CallDrops, DropMessage
  <2>2. result[r] # None => result'[r] = result[r]
    BY <2>1 DEF mark_first_post_replacement_local_outcome, Report, TypeOK
  <2> QED
    BY <2>1, <2>2, Zenon DEF Kept
<1>6. CASE RollbackOk \/ RollbackFailed
  <2>1. UNCHANGED <<claim, adopted>> /\ report_rolled_back
    BY <1>6 DEF RollbackOk, RollbackFailed
  <2>2. result[r] # None => result'[r] = result[r]
    BY <2>1 DEF report_rolled_back, Report, TypeOK
  <2> QED
    BY <2>1, <2>2, Zenon DEF Kept
<1>7. CASE \/ Start \/ ReplayAfterRollback \/ NextInput \/ RecvSwap \/ RecvWait
           \/ SelectCancelled \/ SelectSwap \/ SelectDeadline \/ SelectEof \/ Dequeued
           \/ CallOk \/ CallTrappedInCanary \/ RecoverOk \/ RecoverFailed \/ Exit
           \/ Cancel \/ WindowElapses \/ Finished
  BY <1>1, <1>7 DEF Start, ReplayAfterRollback, NextInput, RecvSwap, RecvWait, SelectCancelled,
     SelectSwap, SelectDeadline, SelectEof, Dequeued, CallOk, CallTrappedInCanary, RecoverOk,
     RecoverFailed, Exit, Cancel, WindowElapses, Finished
<1>8. CASE CallOverBudget \/ CallCondemned
  BY <1>1, <1>8 DEF CallOverBudget, CallCondemned
<1>9. ASSUME NEW error \in Retryable \cup {"bad_input", "timed_out"}, CallFailed(error)
      PROVE  Kept(r)
  BY <1>1, <1>9 DEF CallFailed
<1>10. ASSUME NEW m \in Msg, RecvRetry(m) \/ SelectMessage(m) \/ BackoffExpires(m)
       PROVE  Kept(r)
  BY <1>1, <1>10 DEF RecvRetry, SelectMessage, BackoffExpires
<1> QED
  BY <1>2, <1>3, <1>4, <1>5, <1>6, <1>7, <1>8, <1>9, <1>10, Zenon DEF Runner, Input, Time

\* A request that its handler answers or abandons gives the guard up, one that
\* goes on keeps it: in both cases guard and places agree afterwards.
LEMMA GuardKept ==
    ASSUME NEW r \in Req, hpc \in [Req -> Active \cup {"idle", "answered", "gone"}],
           guard \in Req \cup {None}, GuardProtects,
           NEW place \in Active \cup {"answered", "gone"},
           hpc' = [hpc EXCEPT ![r] = place],
           IF place \in Active THEN hpc[r] \in Active /\ guard' = guard
                               ELSE guard' = IF guard = r THEN None ELSE guard
    PROVE  GuardProtects'
<1> SUFFICES ASSUME NEW q \in Req PROVE (guard = q <=> hpc[q] \in Active)'
  BY DEF GuardProtects
<1>1. "answered" \notin Active /\ "gone" \notin Active
  BY DEF Active
<1>2. CASE q = r
  BY <1>1, <1>2, RunnerAssumption DEF GuardProtects
<1>3. CASE q # r
  BY <1>1, <1>3, RunnerAssumption DEF GuardProtects
<1> QED
  BY <1>2, <1>3

\* Answering from a place that has something to say, with the truth.
LEMMA AnswerStep ==
    ASSUME ApiInv, NEW r \in Req, NEW a \in Answers, Answer(r, a), TypeOK',
           \A q \in Req : q # r => Kept(q),
           /\ a \in {"404", "409_busy", "409_hash", "prepare_failed"} => claim'[r] = "unsent"
           /\ a = "504" => claim'[r] = "withdrawn"
           /\ a = "202_unknown" => claim'[r] = "runner"
           /\ a = "202_adopted" => adopted'[r]
           /\ a = "200" => result'[r] = "ok"
           /\ a = "rolled_back" => result'[r] = "rolled_back"
           /\ a = "409_init" => result'[r] = "init_failed"
    PROVE  ApiInv'
<1>1. ApiTypeOK'
  BY DEF ApiInv, ApiTypeOK, Answer
<1>2. GuardProtects'
  BY GuardKept DEF ApiInv, ApiTypeOK, Answer, Active
<1>3. hpc'[r] = "answered" /\ resp'[r] = a
  BY DEF ApiInv, ApiTypeOK, Answer
<1>4. Told(r)'
  BY <1>3, ApiAssumption DEF Told
<1>5. ASSUME NEW q \in Req, q # r
      PROVE  Told(q)'
  <2>1. hpc'[q] = hpc[q] /\ resp'[q] = resp[q]
    BY <1>5 DEF ApiInv, ApiTypeOK, Answer
  <2> QED
    BY <1>5, <2>1, ToldKept DEF ApiInv
<1> QED
  BY <1>1, <1>2, <1>4, <1>5, Zenon DEF ApiInv

\* Going on to the next place, with the payload in the state it expects.
LEMMA GotoStep ==
    ASSUME ApiInv, NEW r \in Req, NEW place \in Active, Goto(r, place), TypeOK',
           hpc[r] \in Active, \A q \in Req : q # r => Kept(q),
           /\ place \in {"idle", "preparing", "ready"} => claim'[r] = "unsent"
           /\ place \in {"waiting", "unfinished"} => claim'[r] \in {"pending", "runner"}
           /\ place = "retract" => claim'[r] = "withdrawn"
           /\ place = "settling" => claim'[r] = "runner"
    PROVE  ApiInv'
<1>1. ApiTypeOK'
  BY DEF ApiInv, ApiTypeOK, Goto
<1>2. GuardProtects'
  BY GuardKept DEF ApiInv, ApiTypeOK, Goto
<1>3. hpc'[r] = place /\ resp'[r] = None /\ place # "answered"
  <2>1. hpc[r] # "answered"
    BY DEF Active
  <2> QED
    BY <2>1 DEF ApiInv, ApiTypeOK, Goto, Told, Active
<1>4. Told(r)'
  BY <1>3, ApiAssumption DEF Told, Answers
<1>5. ASSUME NEW q \in Req, q # r
      PROVE  Told(q)'
  <2>1. hpc'[q] = hpc[q] /\ resp'[q] = resp[q]
    BY <1>5 DEF ApiInv, ApiTypeOK, Goto
  <2> QED
    BY <1>5, <2>1, ToldKept DEF ApiInv
<1> QED
  BY <1>1, <1>2, <1>4, <1>5, Zenon DEF ApiInv

\* A request that changes nothing of the node takes nothing back.
LEMMA StillKept == UNCHANGED vars => \A q \in Req : Kept(q)
  BY Zenon DEF Kept

\* Each step of the composition is a step of the node, or leaves it alone.
LEMMA ApiStepIsNodeStep == ApiTypeOK /\ [ApiNext]_allVars => [Next]_vars
<1> SUFFICES ASSUME ApiTypeOK, [ApiNext]_allVars
             PROVE  [Next]_vars
  OBVIOUS
<1> HIDE DEF vars
<1>1. CASE NodeStep
  BY <1>1, Zenon DEF NodeStep, Next, Api
<1>2. CASE UNCHANGED allVars
  BY <1>2 DEF allVars
<1>3. ASSUME NEW r \in Req, HandlerStep(r) \/ Client(r)
      PROVE  [Next]_vars
  <2>1. CASE send_swap(r)
    <3>1. kind[r] \in {"replace", "reconfigure"}
      BY DEF ApiTypeOK
    <3> QED
      BY <2>1, <3>1, Zenon DEF send_swap, Next, Api
  <2>2. CASE try_withdraw(r) \/ retract_swap(r)
    BY <2>2, Zenon DEF try_withdraw, retract_swap, Next, Api
  <2>3. CASE \/ Prepare(r) \/ verify_plugin_hash(r) \/ Completed(r) \/ OutcomeTimeout(r)
             \/ Settle(r) \/ InitTimeout(r) \/ Disconnect(r)
    BY <2>3 DEF Prepare, verify_plugin_hash, Completed, OutcomeTimeout, Settle, InitTimeout,
                Disconnect
  <2>4. CASE \E k \in {"replace", "reconfigure"}, h \in Plugin \cup {None} : Begin(r, k, h)
    BY <2>4 DEF Begin
  <2> QED
    BY <1>3, <2>1, <2>2, <2>3, <2>4, Zenon DEF HandlerStep, Client
<1> QED
  BY <1>1, <1>2, <1>3, Zenon DEF ApiNext

\* Every step of a handler, of a client and of the node keeps guard and answers.
LEMMA ApiInvStep ==
    ASSUME ApiInv, TypeInv, TypeInv', [ApiNext]_allVars
    PROVE  ApiInv'
<1> TypeOK /\ TypeOK'
  BY DEF TypeInv
<1> HIDE DEF vars
<1>1. CASE NodeStep
  <2>1. UNCHANGED <<guard, hpc, kind, expected, resp>>
        /\ (Runner \/ Input \/ Time \/ Cancel \/ Finished)
    BY <1>1 DEF NodeStep, apiVars
  <2>2. \A q \in Req : Told(q)'
    BY <2>1, NodeKeeps, ToldKept, Zenon DEF ApiInv
  <2>3. ApiTypeOK' /\ GuardProtects'
    BY <2>1, Zenon DEF ApiInv, ApiTypeOK, GuardProtects
  <2> QED
    BY <2>2, <2>3 DEF ApiInv
<1>2. CASE UNCHANGED allVars
  <2>1. UNCHANGED vars /\ UNCHANGED <<guard, hpc, kind, expected, resp>>
    BY <1>2 DEF allVars, apiVars
  <2>2. \A q \in Req : Told(q)'
    BY <2>1, StillKept, ToldKept, Zenon DEF ApiInv
  <2>3. ApiTypeOK' /\ GuardProtects'
    BY <2>1, Zenon DEF ApiInv, ApiTypeOK, GuardProtects
  <2> QED
    BY <2>2, <2>3 DEF ApiInv
<1>3. ASSUME NEW r \in Req, HandlerStep(r)
      PROVE  ApiInv'
  <2> Told(r)
    BY DEF ApiInv
  <2>1. CASE Prepare(r)
    <3>1. UNCHANGED vars /\ hpc[r] = "preparing" /\ Prepared(r)
      BY <2>1 DEF Prepare
    <3>2. claim'[r] = "unsent"
      BY <3>1 DEF Told, vars, swapVars
    <3>3. CASE Goto(r, "ready")
      BY <3>1, <3>2, <3>3, StillKept, GotoStep DEF Active
    <3>4. CASE Answer(r, "prepare_failed")
      BY <3>1, <3>2, <3>4, StillKept, AnswerStep DEF Answers
    <3> QED
      BY <3>1, <3>3, <3>4 DEF Prepared
  <2>2. CASE verify_plugin_hash(r)
    <3>1. UNCHANGED vars /\ hpc[r] = "preparing"
      BY <2>2 DEF verify_plugin_hash
    <3>2. claim'[r] = "unsent"
      BY <3>1 DEF Told, vars, swapVars
    <3>3. CASE Goto(r, "ready")
      BY <3>1, <3>2, <3>3, StillKept, GotoStep DEF Active
    <3>4. CASE Answer(r, "409_hash")
      BY <3>1, <3>2, <3>4, StillKept, AnswerStep DEF Answers
    <3> QED
      BY <2>2, <3>3, <3>4, Zenon DEF verify_plugin_hash
  <2>3. CASE send_swap(r)
    <3>1. hpc[r] = "ready" /\ claim[r] = "unsent"
      BY <2>3 DEF send_swap, Told
    <3>2. CASE Answer(r, "404") /\ UNCHANGED vars
      <4>1. claim'[r] = "unsent"
        BY <3>1, <3>2 DEF vars, swapVars
      <4> QED
        BY <3>2, <4>1, StillKept, AnswerStep DEF Answers
    <3>3. CASE Goto(r, "waiting") /\ Publish(r, kind[r])
      <4>1. claim'[r] = "pending" /\ \A q \in Req : q # r => Kept(q)
        BY <3>3 DEF Publish, TypeOK, Kept
      <4> QED
        BY <3>1, <3>3, <4>1, GotoStep DEF Active
    <3> QED
      BY <2>3, <3>2, <3>3, Zenon DEF send_swap
  <2>4. CASE Completed(r)
    <3>1. /\ UNCHANGED vars /\ result'[r] = result[r] /\ Answer(r, AnswerOf(result[r]))
          /\ result[r] \in {"ok", "rolled_back", "init_failed"}
      BY <2>4 DEF Completed, vars, progressVars, TypeOK
    <3> QED
      BY <3>1, StillKept, AnswerStep DEF AnswerOf, Answers
  <2>5. CASE OutcomeTimeout(r)
    <3>1. UNCHANGED vars /\ hpc[r] = "waiting" /\ Goto(r, "unfinished")
      BY <2>5 DEF OutcomeTimeout
    <3>2. claim'[r] \in {"pending", "runner"}
      BY <3>1 DEF Told, vars, swapVars
    <3> QED
      BY <3>1, <3>2, StillKept, GotoStep DEF Active
  <2>6. CASE try_withdraw(r)
    <3>1. hpc[r] = "unfinished" /\ claim[r] \in {"pending", "runner"}
      BY <2>6 DEF try_withdraw, Told
    <3>2. CASE Withdraw(r) /\ Goto(r, "retract")
      <4>1. claim'[r] = "withdrawn" /\ \A q \in Req : q # r => Kept(q)
        BY <3>2 DEF Withdraw, TypeOK, Kept
      <4> QED
        BY <3>1, <3>2, <4>1, GotoStep DEF Active
    <3>3. CASE claim[r] # "pending" /\ Goto(r, "settling") /\ UNCHANGED vars
      <4>1. claim'[r] = "runner"
        BY <3>1, <3>3 DEF vars, swapVars
      <4> QED
        BY <3>1, <3>3, <4>1, StillKept, GotoStep DEF Active
    <3> QED
      BY <2>6, <3>2, <3>3, Zenon DEF try_withdraw
  <2>7. CASE retract_swap(r)
    <3>1. hpc[r] = "retract" /\ claim[r] = "withdrawn" /\ Answer(r, "504")
      BY <2>7 DEF retract_swap, Told
    <3>2. UNCHANGED <<claim, result, adopted>>
      BY <2>7 DEF retract_swap, Retract, vars, swapVars, progressVars
    <3>3. \A q \in Req : Kept(q)
      BY <3>2, Zenon DEF Kept
    <3> QED
      BY <3>1, <3>2, <3>3, AnswerStep DEF Answers
  <2>8. CASE Settle(r)
    <3>1. UNCHANGED vars /\ UNCHANGED <<adopted, result>>
      BY <2>8 DEF Settle, vars, progressVars
    <3>2. CASE adopted[r] /\ Answer(r, "202_adopted")
      BY <3>1, <3>2, StillKept, AnswerStep DEF Answers
    <3>3. CASE result[r] # None /\ Answer(r, AnswerOf(result[r]))
      <4>1. result[r] \in {"ok", "rolled_back", "init_failed"}
        BY <3>3 DEF TypeOK
      <4> QED
        BY <3>1, <3>3, <4>1, StillKept, AnswerStep DEF AnswerOf, Answers
    <3> QED
      BY <2>8, <3>2, <3>3, Zenon DEF Settle
  <2>9. CASE InitTimeout(r)
    <3>1. UNCHANGED vars /\ hpc[r] = "settling" /\ Answer(r, "202_unknown")
      BY <2>9 DEF InitTimeout
    <3>2. claim'[r] = "runner"
      BY <3>1 DEF Told, vars, swapVars
    <3> QED
      BY <3>1, <3>2, StillKept, AnswerStep DEF Answers
  <2> QED
    BY <1>3, <2>1, <2>2, <2>3, <2>4, <2>5, <2>6, <2>7, <2>8, <2>9, Zenon DEF HandlerStep
<1>4. ASSUME NEW r \in Req, Client(r)
      PROVE  ApiInv'
  <2> Told(r)
    BY DEF ApiInv
  <2>1. CASE Disconnect(r)
    <3>1. /\ UNCHANGED vars /\ UNCHANGED <<kind, expected, resp>>
          /\ hpc' = [hpc EXCEPT ![r] = "gone"]
          /\ guard' = IF guard = r THEN None ELSE guard
          /\ hpc[r] \in {"waiting", "settling", "preparing"}
      BY <2>1 DEF Disconnect
    <3>2. ApiTypeOK'
      BY <3>1 DEF ApiInv, ApiTypeOK
    <3>3. GuardProtects'
      BY <3>1, GuardKept DEF ApiInv, ApiTypeOK, Active
    <3>4. hpc'[r] = "gone" /\ resp'[r] = None
      BY <3>1 DEF ApiInv, ApiTypeOK, Told
    <3>5. Told(r)'
      BY <3>4, ApiAssumption DEF Told, Answers
    <3>6. ASSUME NEW q \in Req, q # r
          PROVE  Told(q)'
      <4>1. hpc'[q] = hpc[q] /\ resp'[q] = resp[q]
        BY <3>1, <3>6 DEF ApiInv, ApiTypeOK
      <4> QED
        BY <3>1, <4>1, StillKept, ToldKept DEF ApiInv
    <3> QED
      BY <3>2, <3>3, <3>5, <3>6, Zenon DEF ApiInv
  <2>2. ASSUME NEW k \in {"replace", "reconfigure"}, NEW h \in Plugin \cup {None},
               Begin(r, k, h)
        PROVE  ApiInv'
    <3>1. UNCHANGED vars /\ hpc[r] = "idle"
      BY <2>2 DEF Begin
    <3>2. claim'[r] = "unsent" /\ resp[r] = None
      BY <3>1 DEF Told, vars, swapVars
    <3>3. CASE GuardFree
      <4>1. /\ guard = None /\ guard' = r /\ resp' = resp
            /\ hpc' = [hpc EXCEPT ![r] = "preparing"]
            /\ kind' = [kind EXCEPT ![r] = k]
            /\ expected' = [expected EXCEPT ![r] = h]
        BY <2>2, <3>3 DEF Begin, GuardFree
      <4>2. ApiTypeOK'
        BY <4>1 DEF ApiInv, ApiTypeOK, Active
      <4>3. hpc'[r] = "preparing" /\ resp'[r] = None
        BY <3>2, <4>1 DEF ApiInv, ApiTypeOK
      <4>4. \A q \in Req : q # r => hpc'[q] = hpc[q] /\ resp'[q] = resp[q]
        BY <4>1 DEF ApiInv, ApiTypeOK
      <4>5. \A q \in Req : q # None
        BY RunnerAssumption
      <4>6. GuardProtects'
        BY <4>1, <4>3, <4>4, <4>5 DEF ApiInv, GuardProtects, Active
      <4>7. Told(r)'
        BY <3>2, <4>3, ApiAssumption DEF Told, Answers
      <4>8. \A q \in Req : q # r => Told(q)'
        BY <3>1, <4>4, StillKept, ToldKept DEF ApiInv
      <4> QED
        BY <4>2, <4>6, <4>7, <4>8, Zenon DEF ApiInv
    <3>4. CASE ~GuardFree
      <4>1. Answer(r, "409_busy")
        BY <2>2, <3>4, Zenon DEF Begin
      <4> QED
        BY <3>1, <3>2, <4>1, StillKept, AnswerStep DEF Answers
    <3> QED
      BY <3>3, <3>4
  <2> QED
    BY <1>4, <2>1, <2>2, Zenon DEF Client
<1> QED
  BY <1>1, <1>2, <1>3, <1>4, Zenon DEF ApiNext

\* No request has been made when the node starts.
LEMMA ApiInvInit == ApiInit => ApiInv
<1> SUFFICES ASSUME ApiInit PROVE ApiInv
  OBVIOUS
<1>1. TypeOK
  BY TypeInvInit DEF ApiInit, TypeInv
<1>2. ApiTypeOK
  BY <1>1 DEF ApiInit, ApiTypeOK
<1>3. GuardProtects
  BY RunnerAssumption DEF ApiInit, GuardProtects, Active
<1>4. ASSUME NEW r \in Req PROVE Told(r)
  <2>1. hpc[r] = "idle" /\ resp[r] = None /\ claim[r] = "unsent"
    BY DEF ApiInit, Init
  <2> QED
    BY <2>1, ApiAssumption DEF Told, Answers
<1> QED
  BY <1>2, <1>3, <1>4, Zenon DEF ApiInv

ApiFacts == OwnerFacts /\ ApiInv

\* A node and its handlers keep ownership, guard and answers together.
LEMMA ApiFactsAlways == ApiSpec => []ApiFacts
<1>1. ApiInit => ApiFacts
  BY ApiInvInit, OwnerFactsInit DEF ApiFacts, ApiInit
<1>2. ApiFacts /\ [ApiNext]_allVars => ApiFacts'
  <2> SUFFICES ASSUME ApiFacts, [ApiNext]_allVars PROVE ApiFacts'
    OBVIOUS
  <2>1. [Next]_vars
    BY ApiStepIsNodeStep DEF ApiFacts, ApiInv
  <2>2. OwnerFacts'
    BY <2>1, OwnerFactsStep, Zenon DEF ApiFacts
  <2>3. TypeInv /\ TypeInv'
    BY <2>2, Zenon DEF ApiFacts, OwnerFacts, GuestFacts
  <2> QED
    BY <2>2, <2>3, ApiInvStep, Zenon DEF ApiFacts
<1> QED
  BY <1>1, <1>2, PTL DEF ApiSpec

\* The types hold with any number of concurrent handlers.
THEOREM ApiTypeCorrect == ApiSpec => []ApiTypeOK
<1>1. ApiFacts => ApiTypeOK
  BY DEF ApiFacts, ApiInv
<1> QED
  BY <1>1, ApiFactsAlways, PTL

\* try_begin_swap lets one request per node in, and SwapGuard's drop frees the
\* flag on every way out of a handler: an answer, an error, a disconnect.
THEOREM GuardAlwaysProtects == ApiSpec => []GuardProtects
<1>1. ApiFacts => GuardProtects
  BY DEF ApiFacts, ApiInv
<1> QED
  BY <1>1, ApiFactsAlways, PTL

\* With handlers, timeouts and disconnects interleaved in any way, the runner
\* still runs no payload that was withdrawn, failed or reported rolled back.
THEOREM ApiDisownedNeverRun == ApiSpec => []DisownedNeverRuns
<1>1. ApiFacts => DisownedNeverRuns
  BY OwnersRun DEF ApiFacts
<1> QED
  BY <1>1, ApiFactsAlways, PTL

\* What hot_swap and reconfigure answer stays true of the node afterwards: a
\* 504 or a failed init is never adopted later, a 200 has run, a rolled back
\* plugin is gone.
THEOREM AnswersAlwaysHold == ApiSpec => []AnswersHold
<1>1. ApiFacts => AnswersHold
  <2> SUFFICES ASSUME ApiFacts, NEW r \in Req
               PROVE  /\ resp[r] = "504" => claim[r] = "withdrawn" /\ ~adopted[r]
                      /\ resp[r] = "409_init" => ~adopted[r]
                      /\ resp[r] = "200" => adopted[r] /\ localOutcome[r]
                      /\ resp[r] = "202_adopted" => adopted[r]
                      /\ resp[r] = "202_unknown" => claim[r] = "runner"
                      /\ resp[r] = "rolled_back" => adopted[r] /\ (Settled => inst.plugin # r)
                      /\ resp[r] \in {"404", "409_busy", "409_hash", "prepare_failed"}
                            => claim[r] = "unsent"
    BY Zenon DEF AnswersHold
  <2>1. /\ adopted[r] \/ result[r] # None => claim[r] = "runner"
        /\ localOutcome[r] \/ result[r] \in {"ok", "rolled_back"} => adopted[r]
        /\ result[r] = "init_failed" => ~adopted[r]
        /\ result[r] = "ok" => localOutcome[r]
    BY Zenon DEF ApiFacts, OwnerFacts, OwnerInv, HonestProgress
  <2>2. Told(r)
    BY DEF ApiFacts, ApiInv
  <2>3. result[r] = "rolled_back" => (Settled => inst.plugin # r)
    BY OwnersRun, Zenon DEF ApiFacts, DisownedNeverRuns
  <2>4. claim[r] = "withdrawn" => ~adopted[r]
    BY <2>1
  <2> QED
    BY <2>1, <2>2, <2>3, <2>4 DEF Told
<1> QED
  BY <1>1, ApiFactsAlways, PTL

-----------------------------------------------------------------------------
(***************************************************************************)
(* Node and handlers implement the replacement service.                    *)
(***************************************************************************)

\* A request that was adopted and whose plugin was then rolled back.
Undone(r) == adopted[r] /\ kind[r] = "replace" /\ replaced[r] = None

\* A payload is what its request asked for.
Carried ==
    /\ slot # None => slot.kind = kind[slot.req] /\ claim[slot.req] # "unsent"
    /\ payload # None => payload.kind = kind[payload.req]

\* A claimed request that is not decided is the one in the runner's hands.
InHand ==
    \A r \in Req : claim[r] = "runner" /\ ~adopted[r] /\ result[r] # "init_failed"
                      => payload # None /\ payload.req = r

\* The canary's request can be undone, and what is reported rolled back was.
CanUndo ==
    /\ hash = pre
    /\ canary # None => kind[canary.req] = "replace" /\ replaced[canary.req] = canary.pre
    /\ pc = "rollback" /\ pendingReq # None => Undone(pendingReq)
    /\ \A r \in Req : result[r] = "rolled_back" => Undone(r)

ServiceInv == Carried /\ InHand /\ CanUndo

\* Nothing was asked for yet.
LEMMA ServiceInvInit == ApiInit => ServiceInv
  BY RunnerAssumption, ApiAssumption
     DEF ApiInit, Init, ServiceInv, Carried, InHand, CanUndo, Undone

\* A step that decides nothing and gives nothing back.
LEMMA ServiceInvQuiet ==
    ASSUME TypeOK, ServiceInv, CanaryTick,
           UNCHANGED <<slot, payload, claim, adopted, result, kind, replaced, hash, pre>>,
           pc' # "rollback", pendingReq' = pendingReq
    PROVE  ServiceInv'
<1>1. Carried' /\ InHand'
  BY Zenon DEF ServiceInv, Carried, InHand
<1>2. canary' # None => canary # None /\ canary'.req = canary.req /\ canary'.pre = canary.pre
  <2>1. CASE canary' = canary
    BY <2>1
  <2>2. CASE canary' # canary
    BY <2>2, CanaryKeeps DEF CanaryTick
  <2> QED
    BY <2>1, <2>2
<1>3. CanUndo'
  BY <1>2, Zenon DEF ServiceInv, CanUndo, Undone
<1> QED
  BY <1>1, <1>3 DEF ServiceInv

\* Every step of the node keeps it.
LEMMA ServiceInvNode ==
    ASSUME OwnerFacts, ServiceInv, UNCHANGED kind,
           Runner \/ Input \/ Time \/ Cancel \/ Finished
    PROVE  ServiceInv'
<1> TypeOK /\ TypeInv /\ GuestInv /\ OwnerInv
  BY DEF OwnerFacts, GuestFacts, TypeInv
<1>1. CASE take_pending_swap
  <2> DEFINE r == slot.req
  <2>1. /\ r \in Req /\ payload' = slot /\ slot # None /\ pc = "top" /\ pc' = "init"
        /\ claim' = [claim EXCEPT ![r] = "runner"]
        /\ UNCHANGED <<slot, pre, hash, replaced, adopted, result, pendingReq>>
        /\ CanaryTick
    BY <1>1 DEF take_pending_swap, Claimable, TypeOK, Payload, CanaryTick, OpenCanary
  <2>2. payload = None
    BY <2>1 DEF TypeInv, Hands
  <2>3. claim'[r] = "runner" /\ \A q \in Req : q # r => claim'[q] = claim[q]
    BY <2>1 DEF TypeOK
  <2>4. Carried'
    BY <2>1, <2>3 DEF ServiceInv, Carried
  <2>5. InHand'
    BY <2>1, <2>2, <2>3, Zenon DEF ServiceInv, InHand
  <2>6. canary' # None => canary # None /\ canary'.req = canary.req /\ canary'.pre = canary.pre
    <3>1. CASE canary' = canary
      BY <3>1
    <3>2. CASE canary' # canary
      BY <2>1, <3>2, CanaryKeeps DEF CanaryTick
    <3> QED
      BY <3>1, <3>2
  <2>7. pc' # "rollback"
    BY <2>1
  <2>8. CanUndo'
    BY <2>1, <2>6, <2>7, Zenon DEF ServiceInv, CanUndo, Undone
  <2> QED
    BY <2>4, <2>5, <2>8 DEF ServiceInv
<1>2. CASE Adopt
  <2> DEFINE r == payload.req
  <2>1. payload # None /\ r \in Req /\ pc = "init" /\ r # None
    BY <1>2, RunnerAssumption DEF Adopt, TypeInv, TypeOK, Hands, Payload
  <2>2. ~adopted[r] /\ result[r] = None /\ ~localOutcome[r] /\ claim[r] = "runner"
    BY <2>1, Zenon DEF OwnerInv, Tracked, HonestProgress
  <2>3. /\ adopted' = [adopted EXCEPT ![r] = TRUE]
        /\ UNCHANGED <<result, claim, slot>>
        /\ payload' = None /\ pc' = "top"
    BY <1>2, <2>2 DEF Adopt, mark_replacement_adopted
  <2>4. adopted'[r] /\ \A q \in Req : q # r => adopted'[q] = adopted[q]
    BY <2>1, <2>3 DEF TypeOK
  <2>5. Carried'
    BY <2>3, Zenon DEF ServiceInv, Carried
  <2>6. InHand'
    BY <2>1, <2>3, <2>4, Zenon DEF ServiceInv, InHand
  <2>7. payload.kind = kind[r] /\ hash = pre
    BY <2>1 DEF ServiceInv, Carried, CanUndo
  <2>8. hash' = pre' /\ \A q \in Req : q # r => replaced'[q] = replaced[q]
    BY <1>2, <2>1, <2>7 DEF Adopt, mark_replacement_adopted, try_hot_swap, try_reconfigure, TypeOK
  <2>9. canary' # None => /\ canary'.req = r /\ canary'.pre = pre
                          /\ kind[r] = "replace" /\ replaced'[r] = pre
    BY <1>2, <2>1, <2>7
       DEF Adopt, CanaryAfterAdopt, NewCanary, mark_replacement_adopted, TypeOK
  <2>10. result[r] # "rolled_back" /\ pc' # "rollback"
    BY <2>2, <2>3, ApiAssumption
  <2>11. CanUndo'
    BY <2>3, <2>4, <2>8, <2>9, <2>10, Zenon DEF ServiceInv, CanUndo, Undone
  <2> QED
    BY <2>5, <2>6, <2>11 DEF ServiceInv
<1>3. CASE KeepOld
  <2> DEFINE r == payload.req
  <2>1. payload # None /\ r \in Req
    BY <1>3 DEF KeepOld, TypeInv, TypeOK, Hands, Payload
  <2>2. result[r] = None
    BY <2>1, Zenon DEF OwnerInv, Tracked
  <2>3. /\ UNCHANGED <<slot, claim, adopted, replaced, hash, pre, canary, pendingReq>>
        /\ payload' = None /\ pc' # "rollback"
        /\ result'[r] = "init_failed"
        /\ \A q \in Req : q # r => result'[q] = result[q]
    BY <1>3, <2>1, <2>2 DEF KeepOld, Report, TypeOK
  <2>4. Carried' /\ InHand'
    BY <2>1, <2>3, Zenon DEF ServiceInv, Carried, InHand
  <2>5. result'[r] # "rolled_back"
    BY <2>3
  <2>6. CanUndo'
    BY <2>3, <2>5, Zenon DEF ServiceInv, CanUndo, Undone
  <2> QED
    BY <2>4, <2>6 DEF ServiceInv
<1>4. ASSUME mark_first_post_replacement_local_outcome, CanaryTick, pc' = "top",
             UNCHANGED <<slot, payload, claim, adopted, replaced, hash, pre>>
      PROVE  ServiceInv'
  <2>1. CASE pendingReq = None
    <3>1. UNCHANGED <<result, pendingReq>> /\ pc' # "rollback"
      BY <1>4, <2>1 DEF mark_first_post_replacement_local_outcome
    <3> QED
      BY <1>4, <3>1, ServiceInvQuiet
  <2>2. CASE pendingReq # None
    <3>1. \A q \in Req : result'[q] \in {result[q], "ok"}
      BY <1>4, <2>2 DEF mark_first_post_replacement_local_outcome, Report, TypeOK
    <3>2. \A q \in Req : ~adopted[q] => result'[q] = result[q]
      <4>1. pendingReq \in Req /\ adopted[pendingReq]
        BY <2>2, Zenon DEF TypeOK, OwnerInv, Tracked
      <4> QED
        BY <1>4, <2>2, <4>1 DEF mark_first_post_replacement_local_outcome, Report, TypeOK
    <3>3. Carried' /\ InHand'
      BY <1>4, <3>2, Zenon DEF ServiceInv, Carried, InHand
    <3>4. canary' # None => canary # None /\ canary'.req = canary.req /\ canary'.pre = canary.pre
      <4>1. CASE canary' = canary
        BY <4>1
      <4>2. CASE canary' # canary
        BY <1>4, <4>2, CanaryKeeps DEF CanaryTick
      <4> QED
        BY <4>1, <4>2
    <3>5. pc' # "rollback" /\ \A q \in Req : result'[q] = "rolled_back" => result[q] = "rolled_back"
      BY <1>4, <3>1
    <3>6. CanUndo'
      BY <1>4, <3>4, <3>5, Zenon DEF ServiceInv, CanUndo, Undone
    <3> QED
      BY <3>3, <3>6 DEF ServiceInv
  <2> QED
    BY <2>1, <2>2
<1>5. CASE SendDone
  BY <1>4, <1>5 DEF SendDone, CanaryTick, record_success
<1>6. CASE CallDrops
  BY <1>4, <1>6 DEF CallDrops, DropMessage, CanaryTick
\* The replaced hash goes back to the registry and is taken from the request.
<1>7. CASE CallTrappedInCanary
  <2> DEFINE r == canary.req
  <2>1. /\ canary # None /\ canary' = None /\ pre' = canary.pre
        /\ UNCHANGED <<slot, payload, claim, adopted, result, pendingReq>>
        /\ restore_replaced_plugin_hash(r)
    BY <1>7 DEF CallTrappedInCanary
  <2>2. r \in Req /\ canary.pre # None /\ replaced[r] = canary.pre /\ kind[r] = "replace"
    BY <2>1, RunnerAssumption DEF TypeOK, Canary, Plugin, ServiceInv, CanUndo
  <2>3. /\ hash' = pre' /\ replaced'[r] = None
        /\ \A q \in Req : replaced[q] = None => replaced'[q] = None
    BY <2>1, <2>2 DEF restore_replaced_plugin_hash, TypeOK
  <2>4. adopted[r] /\ pendingReq \in {None, r}
    BY <2>1, Zenon DEF OwnerInv, Tracked
  <2>5. Carried' /\ InHand'
    BY <2>1, Zenon DEF ServiceInv, Carried, InHand
  <2>6. CanUndo'
    BY <2>1, <2>2, <2>3, <2>4, Zenon DEF ServiceInv, CanUndo, Undone
  <2> QED
    BY <2>5, <2>6 DEF ServiceInv
<1>8. CASE RollbackOk \/ RollbackFailed
  <2>1. /\ pc = "rollback" /\ pc' # "rollback" /\ report_rolled_back
        /\ UNCHANGED <<slot, payload, claim, adopted, replaced, hash, pre, canary>>
    BY <1>8 DEF RollbackOk, RollbackFailed
  <2>2. /\ \A q \in Req : q # pendingReq => result'[q] = result[q]
        /\ pendingReq \in Req /\ adopted[pendingReq] => result'[pendingReq] \in {result[pendingReq], "rolled_back"}
    BY <2>1 DEF report_rolled_back, Report, TypeOK
  <2>3. pendingReq # None => pendingReq \in Req /\ adopted[pendingReq] /\ Undone(pendingReq)
    BY <2>1, Zenon DEF TypeOK, OwnerInv, Tracked, ServiceInv, CanUndo
  <2>4. \A q \in Req : ~adopted[q] => result'[q] = result[q]
    BY <2>2, <2>3, RunnerAssumption, Zenon
  <2>5. Carried' /\ InHand'
    BY <2>1, <2>4, Zenon DEF ServiceInv, Carried, InHand
  <2>6. CanUndo'
    <3>1. ASSUME NEW q \in Req, result'[q] = "rolled_back" PROVE Undone(q)
      <4>1. CASE q = pendingReq
        BY <2>3, <4>1, RunnerAssumption
      <4>2. CASE q # pendingReq
        BY <2>2, <3>1, <4>2, Zenon DEF ServiceInv, CanUndo
      <4> QED
        BY <4>1, <4>2
    <3> QED
      BY <2>1, <3>1, Zenon DEF ServiceInv, CanUndo, Undone
  <2> QED
    BY <2>5, <2>6 DEF ServiceInv
<1>9. CASE ReplayAfterRollback \/ NextInput
  BY <1>9, ServiceInvQuiet DEF ReplayAfterRollback, NextInput, CanaryTick, OpenCanary
<1>10. CASE WindowElapses
  <2>1. /\ UNCHANGED <<pc, slot, payload, claim, adopted, result, replaced, hash, pre, pendingReq>>
        /\ canary # None
        /\ canary' # None => canary'.req = canary.req /\ canary'.pre = canary.pre
    BY <1>10, CanaryKeeps DEF WindowElapses, CanaryTick
  <2>2. Carried' /\ InHand'
    BY <2>1, Zenon DEF ServiceInv, Carried, InHand
  <2>3. CanUndo'
    BY <2>1, Zenon DEF ServiceInv, CanUndo, Undone
  <2> QED
    BY <2>2, <2>3 DEF ServiceInv
<1>11. ASSUME NEW error \in Retryable \cup {"bad_input", "timed_out"}, CallFailed(error)
       PROVE  ServiceInv'
  BY <1>11, ServiceInvQuiet DEF CallFailed, HandleError, CanaryTick, CanaryAfterError
<1>12. CASE \/ Start \/ RecvSwap \/ RecvWait \/ SelectCancelled \/ SelectSwap
            \/ SelectDeadline \/ SelectEof \/ Dequeued \/ CallOk
            \/ RecoverOk \/ RecoverFailed \/ Exit
  BY <1>12, ServiceInvQuiet DEF Start, RecvSwap, RecvWait, SelectCancelled, SelectSwap,
     SelectDeadline, SelectEof, Dequeued, CallOk, RecoverOk, RecoverFailed, Exit, CanaryTick
<1>13. CASE CallOverBudget \/ CallCondemned
  BY <1>13, ServiceInvQuiet DEF CallOverBudget, CallCondemned, HandleError, CanaryTick
<1>14. ASSUME NEW m \in Msg, RecvRetry(m) \/ SelectMessage(m)
       PROVE  ServiceInv'
  BY <1>14, ServiceInvQuiet DEF RecvRetry, SelectMessage, CanaryTick
<1>15. ASSUME UNCHANGED <<pc, slot, payload, claim, adopted, result, replaced, hash, pre,
                          canary, pendingReq>>
       PROVE  ServiceInv'
  <2>1. Carried' /\ InHand'
    BY <1>15, Zenon DEF ServiceInv, Carried, InHand
  <2>2. CanUndo'
    BY <1>15, Zenon DEF ServiceInv, CanUndo, Undone
  <2> QED
    BY <2>1, <2>2 DEF ServiceInv
<1>16. CASE Cancel \/ Finished
  BY <1>15, <1>16 DEF Cancel, Finished
<1>17. ASSUME NEW m \in Msg, BackoffExpires(m) PROVE ServiceInv'
  BY <1>15, <1>17 DEF BackoffExpires
<1> QED
  BY <1>1, <1>2, <1>3, <1>5, <1>6, <1>7, <1>8, <1>9, <1>10, <1>11, <1>12, <1>13, <1>14,
     <1>16, <1>17, Zenon DEF Runner, Input, Time


\* Steps of the API: a request it has published keeps its kind, and only the
\* runner claims.
LEMMA ServiceInvApi ==
    ASSUME TypeOK, OwnerInv, ServiceInv,
           UNCHANGED <<pc, payload, adopted, result, replaced, hash, pre, canary, pendingReq>>,
           \A q \in Req : claim[q] # "unsent" => kind'[q] = kind[q] /\ claim'[q] # "unsent",
           \A q \in Req : claim'[q] = "runner" => claim[q] = "runner",
           \/ slot' \in {slot, None}
           \/ slot'.kind = kind'[slot'.req] /\ claim'[slot'.req] # "unsent"
    PROVE  ServiceInv'
<1>1. \A q \in Req : adopted[q] => claim[q] # "unsent"
  <2>1. \A q \in Req : adopted[q] => claim[q] = "runner"
    BY Zenon DEF OwnerInv, HonestProgress
  <2> QED
    BY <2>1
<1>2. Carried'
  <2>1. payload # None => payload.req \in Req /\ claim[payload.req] # "unsent"
    BY DEF TypeOK, Payload, OwnerInv, Tracked
  <2>2. slot # None => slot.req \in Req
    BY DEF TypeOK, Payload
  <2> QED
    BY <2>1, <2>2, Zenon DEF ServiceInv, Carried
<1>3. InHand'
  BY Zenon DEF ServiceInv, InHand
<1>4. CanUndo'
  <2>1. canary # None => canary.req \in Req /\ adopted[canary.req]
    BY DEF TypeOK, Canary, OwnerInv, Tracked
  <2>2. pendingReq # None => pendingReq \in Req
    BY DEF TypeOK
  <2>3. \A q \in Req : Undone(q) => Undone(q)'
    BY <1>1, Zenon DEF Undone
  <2> QED
    BY <1>1, <2>1, <2>2, <2>3, Zenon DEF ServiceInv, CanUndo
<1> QED
  BY <1>2, <1>3, <1>4 DEF ServiceInv

\* Every step of the composition keeps it.
LEMMA ServiceInvStep ==
    ASSUME ApiFacts, ServiceInv, [ApiNext]_allVars
    PROVE  ServiceInv'
<1> TypeOK /\ OwnerInv /\ ApiTypeOK /\ OwnerFacts
  BY DEF ApiFacts, ApiInv, ApiTypeOK, OwnerFacts
<1>1. CASE NodeStep
  BY <1>1, ServiceInvNode DEF NodeStep, apiVars
<1>2. ASSUME UNCHANGED vars, UNCHANGED kind PROVE ServiceInv'
  BY <1>2, ServiceInvApi
<1>3. CASE UNCHANGED allVars
  BY <1>2, <1>3 DEF allVars, apiVars
<1>4. ASSUME NEW r \in Req, HandlerStep(r) \/ Disconnect(r) PROVE ServiceInv'
  <2> HIDE DEF vars
  <2>1. UNCHANGED kind
    BY <1>4 DEF HandlerStep, Prepare, Prepared, verify_plugin_hash, send_swap, Completed,
       OutcomeTimeout, try_withdraw, retract_swap, Settle, InitTimeout, Disconnect, Answer, Goto
  <2>2. CASE UNCHANGED vars
    BY <1>2, <2>1, <2>2
  <2>3. CASE send_swap(r) /\ Publish(r, kind[r])
    <3>1. /\ UNCHANGED <<pc, payload, adopted, result, replaced, hash, pre, canary, pendingReq>>
          /\ claim' = [claim EXCEPT ![r] = "pending"] /\ slot' = [req |-> r, kind |-> kind[r]]
      BY <2>3 DEF Publish, vars
    <3>2. /\ \A q \in Req : claim[q] # "unsent" => claim'[q] # "unsent"
          /\ \A q \in Req : claim'[q] = "runner" => claim[q] = "runner"
          /\ slot'.kind = kind[slot'.req] /\ claim'[slot'.req] # "unsent"
      BY <3>1 DEF TypeOK
    <3> QED
      BY <2>1, <3>1, <3>2, ServiceInvApi
  <2>4. CASE Withdraw(r)
    <3>1. /\ UNCHANGED <<pc, payload, adopted, result, replaced, hash, pre, canary, pendingReq, slot>>
          /\ claim' = [claim EXCEPT ![r] = "withdrawn"]
      BY <2>4 DEF Withdraw, vars
    <3>2. /\ \A q \in Req : claim[q] # "unsent" => claim'[q] # "unsent"
          /\ \A q \in Req : claim'[q] = "runner" => claim[q] = "runner"
      BY <3>1 DEF TypeOK
    <3> QED
      BY <2>1, <3>1, <3>2, ServiceInvApi
  <2>5. CASE Retract(r)
    <3>1. /\ UNCHANGED <<pc, payload, adopted, result, replaced, hash, pre, canary, pendingReq, claim>>
          /\ slot' = None
      BY <2>5 DEF Retract, vars
    <3> QED
      BY <2>1, <3>1, ServiceInvApi
  <2>6. UNCHANGED vars \/ (send_swap(r) /\ Publish(r, kind[r])) \/ Withdraw(r) \/ Retract(r)
    BY <1>4, Zenon DEF HandlerStep, Prepare, verify_plugin_hash, send_swap, Completed,
       OutcomeTimeout, try_withdraw, retract_swap, Settle, InitTimeout, Disconnect
  <2> QED
    BY <2>2, <2>3, <2>4, <2>5, <2>6, Zenon
<1>5. ASSUME NEW r \in Req, NEW k \in {"replace", "reconfigure"}, NEW h \in Plugin \cup {None},
             Begin(r, k, h)
      PROVE  ServiceInv'
  <2>1. UNCHANGED vars /\ hpc[r] = "idle" /\ kind' \in {kind, [kind EXCEPT ![r] = k]}
    BY <1>5 DEF Begin, Answer
  <2>2. claim[r] = "unsent"
    BY <2>1 DEF ApiFacts, ApiInv, Told
  <2>3. \A q \in Req : claim[q] # "unsent" => kind'[q] = kind[q]
    BY <2>1, <2>2 DEF ApiTypeOK
  <2> QED
    BY <2>1, <2>3, ServiceInvApi
<1> QED
  BY <1>1, <1>3, <1>4, <1>5, Zenon DEF ApiNext, Client

ServiceFacts == ApiFacts /\ ServiceInv

\* The facts the refinement rests on hold in every state.
LEMMA ServiceFactsAlways == ApiSpec => []ServiceFacts
<1>1. ApiInit => ServiceInv
  BY ServiceInvInit
<1>2. ApiFacts /\ ServiceInv /\ [ApiNext]_allVars => ServiceInv'
  BY ServiceInvStep
<1> QED
  BY <1>1, <1>2, ApiFactsAlways, PTL DEF ApiSpec, ServiceFacts

-----------------------------------------------------------------------------
(* The refinement mapping. *)

\* The stage of a request that nothing happens to.
LEMMA StageKept ==
    ASSUME NEW r \in Req, claim'[r] = claim[r], adopted'[r] = adopted[r], kind'[r] = kind[r],
           result'[r] = "init_failed" <=> result[r] = "init_failed",
           replaced'[r] = None <=> replaced[r] = None
    PROVE  Stages'[r] = Stages[r]
  BY DEF Stages, Stage

\* One request moves, the others stay.
LEMMA MovesOne ==
    ASSUME NEW r \in Req, NEW a, NEW b, Stages[r] = a, Stages'[r] = b,
           \A q \in Req : q # r => Stages'[q] = Stages[q]
    PROVE  Service!Moves(r, a, b)
<1>1. Stages = [q \in Req |-> Stages[q]] /\ Stages' = [q \in Req |-> Stages'[q]]
  BY DEF Stages
<1> HIDE DEF Stages
<1> QED
  BY <1>1 DEF Service!Moves

\* If no request moves, the stages are the same.
LEMMA MovesNone == (\A q \in Req : Stages'[q] = Stages[q]) => Stages' = Stages
<1>1. Stages = [q \in Req |-> Stages[q]] /\ Stages' = [q \in Req |-> Stages'[q]]
  BY DEF Stages
<1> QED
  BY <1>1

\* The guest that may be called is what recovery would build.
LEMMA LiveIs ==
    ASSUME GuestInv, TypeOK, GuestInv', TypeOK'
    PROVE  /\ Live = [plugin |-> pre, config |-> config]
           /\ Live' = [plugin |-> pre', config |-> config']
<1>1. /\ inst = [plugin |-> inst.plugin, config |-> inst.config]
      /\ inst' = [plugin |-> inst'.plugin, config |-> inst'.config]
  BY DEF TypeOK, Instance
<1>2. Settled => inst.plugin = pre /\ inst.config = config
  BY DEF GuestInv, Quiet
<1>3. Settled' => inst'.plugin = pre' /\ inst'.config = config'
  BY DEF GuestInv, Quiet
<1> QED
  BY <1>1, <1>2, <1>3 DEF Live, Reinstantiated

\* A canary that counts or expires keeps its snapshot or gives it up.
LEMMA SnapshotTick == ASSUME TypeOK, CanaryTick PROVE Snapshot' \in {Snapshot, None}
<1>1. CASE canary' = canary
  BY <1>1 DEF Snapshot
<1>2. CASE canary' # canary
  <2>1. canary' # None => canary # None /\ canary'.pre = canary.pre /\ canary'.was = canary.was
    BY <1>2, CanaryKeeps DEF CanaryTick
  <2> QED
    BY <2>1, Zenon DEF Snapshot
<1> QED
  BY <1>1, <1>2


\* Steps in which nothing is decided: the service stands still, or gives up
\* the way back.
LEMMA ServiceQuiet ==
    ASSUME TypeOK, GuestInv, TypeOK', GuestInv', CanaryTick, Alive' = Alive,
           UNCHANGED <<pre, config, claim, adopted, replaced>>, UNCHANGED apiVars,
           \A q \in Req : result'[q] = "init_failed" <=> result[q] = "init_failed"
    PROVE  [Service!Next]_(Service!vars)
<1>1. UNCHANGED <<guard, hpc, kind, expected, resp>>
  BY DEF apiVars
<1>2. Stages' = Stages
  BY <1>1, StageKept, MovesNone
<1>3. Live' = Live
  BY LiveIs
<1>4. Snapshot' \in {Snapshot, None}
  BY SnapshotTick
<1> QED
  BY <1>1, <1>2, <1>3, <1>4 DEF Service!vars, Service!Next, Service!Node, Service!Settle

\* Every step of the node is one of the service's node, or none.
LEMMA NodeServes ==
    ASSUME ServiceFacts, OwnerFacts', NodeStep
    PROVE  [Service!Next]_(Service!vars)
<1> /\ TypeOK /\ TypeInv /\ GuestInv /\ OwnerInv /\ ServiceInv /\ TypeOK' /\ GuestInv'
  BY DEF ServiceFacts, ApiFacts, OwnerFacts, GuestFacts, TypeInv
<1> UNCHANGED apiVars /\ UNCHANGED <<guard, hpc, kind, expected, resp>>
  BY DEF NodeStep, apiVars
<1>1. /\ Live = [plugin |-> pre, config |-> config]
      /\ Live' = [plugin |-> pre', config |-> config']
  BY LiveIs
<1>2. CASE take_pending_swap
  <2> DEFINE r == slot.req
  <2>1. /\ r \in Req /\ pc = "top" /\ pc' = "init" /\ claim[r] = "pending"
        /\ claim' = [claim EXCEPT ![r] = "runner"]
        /\ UNCHANGED <<pre, config, replaced, adopted, result>>
        /\ CanaryTick
    BY <1>2 DEF take_pending_swap, Claimable, TypeOK, Payload, CanaryTick, OpenCanary
  <2>2. claim'[r] = "runner" /\ \A q \in Req : q # r => claim'[q] = claim[q]
    BY <2>1 DEF TypeOK
  <2>3. payload = None /\ Alive /\ Alive'
    BY <2>1 DEF TypeInv, Hands, Alive
  <2>4. \A q \in Req : Stages[q] # "taken"
    BY <2>3 DEF ServiceInv, InHand, Stages, Stage, TypeOK
  <2>5. Stages[r] = "offered"
    BY <2>1 DEF Stages, Stage
  <2>6. ~adopted[r] /\ result[r] = None
    <3>1. claim[r] # "runner"
      BY <2>1
    <3> QED
      BY <2>1, <3>1, Zenon DEF OwnerInv, HonestProgress
  <2>7. Stages'[r] = "taken"
    BY <2>1, <2>2, <2>6, ApiAssumption DEF Stages, Stage
  <2>8. \A q \in Req : q # r => Stages'[q] = Stages[q]
    BY <2>1, <2>2, StageKept
  <2>9. Service!Moves(r, "offered", "taken")
    BY <2>1, <2>5, <2>7, <2>8, MovesOne
  <2>10. Snapshot' \in {Snapshot, None} /\ Live' = Live
    BY <1>1, <2>1, SnapshotTick
  <2>11. Service!Take(r)
    BY <2>3, <2>4, <2>9, <2>10 DEF Service!Take
  <2> QED
    BY <2>1, <2>11 DEF Service!Next, Service!Node
<1>3. CASE Adopt
  <2> DEFINE r == payload.req
  <2>1. payload # None /\ r \in Req /\ pc = "init" /\ r # None
    BY <1>3, RunnerAssumption DEF Adopt, TypeInv, TypeOK, Hands, Payload
  <2>2. /\ ~adopted[r] /\ result[r] = None /\ ~localOutcome[r] /\ claim[r] = "runner"
        /\ payload.kind = kind[r]
    BY <2>1, Zenon DEF OwnerInv, Tracked, HonestProgress, ServiceInv, Carried
  <2>3. /\ adopted' = [adopted EXCEPT ![r] = TRUE]
        /\ UNCHANGED <<result, claim>> /\ pc' = "top"
    BY <1>3, <2>2 DEF Adopt, mark_replacement_adopted
  <2>4. adopted'[r] /\ \A q \in Req : q # r => adopted'[q] = adopted[q]
    BY <2>1, <2>3 DEF TypeOK
  <2>5. \A q \in Req : q # r => replaced'[q] = replaced[q]
    BY <1>3, <2>1 DEF Adopt, mark_replacement_adopted, TypeOK
  <2>6. kind[r] = "replace" => replaced'[r] # None
    <3>1. kind[r] = "replace" => replaced'[r] = hash
      BY <1>3, <2>1, <2>2 DEF Adopt, mark_replacement_adopted, TypeOK
    <3>2. hash # None
      BY RunnerAssumption DEF TypeOK, Plugin
    <3> QED
      BY <3>1, <3>2
  <2>7. Stages[r] = "taken"
    BY <2>1, <2>2, ApiAssumption DEF Stages, Stage
  <2>8. Stages'[r] = "adopted"
    BY <2>1, <2>2, <2>3, <2>4, <2>6 DEF Stages, Stage
  <2>9. \A q \in Req : q # r => Stages'[q] = Stages[q]
    BY <2>3, <2>4, <2>5, StageKept
  <2>10. Service!Moves(r, "taken", "adopted")
    BY <2>1, <2>7, <2>8, <2>9, MovesOne
  <2>11. ASSUME kind[r] = "replace"
         PROVE  Live' = [Live EXCEPT !.plugin = r] /\ Snapshot' \in {Live, None}
    <3>1. pre' = r /\ config' = config
      BY <1>3, <2>2, <2>11 DEF Adopt, try_hot_swap
    <3>2. inst.config = config
      BY <2>1 DEF GuestInv, Quiet
    <3>3. canary' \in {NewCanary(r), None}
      BY <1>3 DEF Adopt, CanaryAfterAdopt
    <3>4. Snapshot' \in {Live, None}
      BY <1>1, <3>2, <3>3 DEF Snapshot, NewCanary
    <3> QED
      BY <1>1, <3>1, <3>4
  <2>12. ASSUME kind[r] # "replace"
         PROVE  Live' = [Live EXCEPT !.config = r] /\ Snapshot' = None
    <3>1. pre' = pre /\ config' = r /\ canary' = None
      BY <1>3, <2>2, <2>12 DEF Adopt, try_reconfigure, CanaryAfterAdopt
    <3> QED
      BY <1>1, <3>1 DEF Snapshot
  <2>13. Service!Adopt(r)
    <3>1. Alive /\ Alive'
      BY <2>1, <2>3 DEF Alive
    <3>2. IF kind[r] = "replace"
          THEN Live' = [Live EXCEPT !.plugin = r] /\ Snapshot' \in {Live, None}
          ELSE Live' = [Live EXCEPT !.config = r] /\ Snapshot' = None
      BY <2>11, <2>12
    <3> QED
      BY <2>10, <3>1, <3>2, Zenon DEF Service!Adopt
  <2> QED
    BY <2>1, <2>13 DEF Service!Next, Service!Node
<1>4. CASE KeepOld
  <2> DEFINE r == payload.req
  <2>1. payload # None /\ r \in Req /\ pc = "init"
    BY <1>4 DEF KeepOld, TypeInv, TypeOK, Hands, Payload
  <2>2. ~adopted[r] /\ result[r] = None /\ claim[r] = "runner"
    BY <2>1, Zenon DEF OwnerInv, Tracked
  <2>3. /\ UNCHANGED <<claim, adopted, replaced, pre, config, canary>> /\ pc' = "top"
        /\ result'[r] = "init_failed"
        /\ \A q \in Req : q # r => result'[q] = result[q]
    BY <1>4, <2>1, <2>2 DEF KeepOld, Report, TypeOK
  <2>4. Stages[r] = "taken" /\ Stages'[r] = "failed"
    BY <2>1, <2>2, <2>3, ApiAssumption DEF Stages, Stage
  <2>5. \A q \in Req : q # r => Stages'[q] = Stages[q]
    BY <2>3, StageKept
  <2>6. Service!Moves(r, "taken", "failed")
    BY <2>1, <2>4, <2>5, MovesOne
  <2>7. Alive /\ Alive' /\ Live' = Live /\ Snapshot' = Snapshot
    BY <1>1, <2>1, <2>3 DEF Alive, Snapshot
  <2>8. Service!Fail(r)
    BY <2>6, <2>7 DEF Service!Fail
  <2> QED
    BY <2>1, <2>8 DEF Service!Next, Service!Node
<1>5. CASE CallTrappedInCanary
  <2> DEFINE r == canary.req
  <2>1. /\ pc = "process" /\ pc' = "rollback" /\ canary # None /\ canary' = None
        /\ pre' = canary.pre
        /\ UNCHANGED <<claim, adopted, result, config>>
        /\ restore_replaced_plugin_hash(r)
    BY <1>5 DEF CallTrappedInCanary
  <2>2. /\ r \in Req /\ canary.pre # None /\ replaced[r] = canary.pre /\ kind[r] = "replace"
        /\ replaced \in [Req -> Plugin \cup {None}]
    BY <2>1, RunnerAssumption DEF TypeOK, Canary, Plugin, ServiceInv, CanUndo
  <2>3. replaced'[r] = None /\ \A q \in Req : q # r => replaced'[q] = replaced[q]
    BY <2>1, <2>2 DEF restore_replaced_plugin_hash
  <2>4. adopted[r] /\ claim[r] = "runner"
    BY <2>1, <2>2, Zenon DEF OwnerInv, Tracked, HonestProgress
  <2>5. Stages[r] = "adopted" /\ Stages'[r] = "undone"
    BY <2>1, <2>2, <2>3, <2>4 DEF Stages, Stage
  <2>6. \A q \in Req : q # r => Stages'[q] = Stages[q]
    BY <2>1, <2>3, StageKept
  <2>7. Service!Moves(r, "adopted", "undone")
    BY <2>2, <2>5, <2>6, MovesOne
  <2>8. r = inst.plugin /\ inst.plugin = pre /\ config = canary.was.config
    BY <2>1 DEF GuestInv, Quiet, Settled
  <2>9. Live.plugin = r /\ Live' = Snapshot
    BY <1>1, <2>1, <2>8 DEF Snapshot
  <2>10. Snapshot' = None /\ Snapshot # None
    <3>1. Snapshot \in Instance /\ Snapshot' = None
      BY <2>1 DEF Snapshot, TypeOK, Canary, Instance
    <3> QED
      BY <3>1, ApiAssumption
  <2>11. Alive /\ Alive'
    BY <2>1 DEF Alive
  <2>12. Service!Undo
    BY <2>2, <2>7, <2>9, <2>10, <2>11 DEF Service!Undo
  <2> QED
    BY <2>12 DEF Service!Next, Service!Node
<1>6. CASE Exit
  <2>1. /\ pc = "exit" /\ pc' = "done"
        /\ UNCHANGED <<claim, adopted, result, replaced, pre, config, canary>>
    BY <1>6 DEF Exit
  <2>2. payload = None /\ Alive /\ ~Alive'
    BY <2>1 DEF TypeInv, Hands, Alive
  <2>3. \A q \in Req : Stages[q] # "taken"
    BY <2>2 DEF ServiceInv, InHand, Stages, Stage, TypeOK
  <2>4. Stages' = Stages /\ Live' = Live /\ Snapshot' = Snapshot
    BY <1>1, <2>1, StageKept, MovesNone DEF Snapshot
  <2>5. Service!Stop
    BY <2>2, <2>3, <2>4 DEF Service!Stop
  <2> QED
    BY <2>5 DEF Service!Next, Service!Node
\* All other steps decide nothing.
<1>7. ASSUME UNCHANGED <<pre, config, claim, adopted, replaced, result>>, CanaryTick,
             pc # "done" /\ pc' # "done"
      PROVE  [Service!Next]_(Service!vars)
  BY <1>7, ServiceQuiet DEF Alive
<1>8. ASSUME mark_first_post_replacement_local_outcome, CanaryTick, pc # "done" /\ pc' # "done",
             UNCHANGED <<pre, config, claim, adopted, replaced>>
      PROVE  [Service!Next]_(Service!vars)
  <2>1. \A q \in Req : result'[q] = "init_failed" <=> result[q] = "init_failed"
    <3>1. pendingReq # None => pendingReq \in Req
      BY DEF TypeOK
    <3> QED
      BY <1>8, <3>1, ApiAssumption DEF mark_first_post_replacement_local_outcome, Report, TypeOK
  <2> QED
    BY <1>8, <2>1, ServiceQuiet DEF Alive
<1>9. CASE SendDone
  BY <1>8, <1>9 DEF SendDone, CanaryTick, record_success
<1>10. CASE CallDrops
  BY <1>8, <1>10 DEF CallDrops, DropMessage, CanaryTick
<1>11. CASE RollbackOk \/ RollbackFailed
  <2>1. /\ pc # "done" /\ pc' # "done" /\ report_rolled_back
        /\ UNCHANGED <<pre, config, claim, adopted, replaced, canary>>
    BY <1>11 DEF RollbackOk, RollbackFailed
  <2>2. \A q \in Req : result'[q] = "init_failed" <=> result[q] = "init_failed"
    <3>1. pendingReq # None => pendingReq \in Req
      BY DEF TypeOK
    <3> QED
      BY <2>1, <3>1, ApiAssumption DEF report_rolled_back, Report, TypeOK
  <2> QED
    BY <2>1, <2>2, ServiceQuiet DEF Alive, CanaryTick
<1>12. CASE ReplayAfterRollback \/ NextInput
  BY <1>7, <1>12 DEF ReplayAfterRollback, NextInput, CanaryTick, OpenCanary
<1>13. CASE WindowElapses
  <2>1. CanaryTick /\ Alive' = Alive /\ UNCHANGED <<pre, config, claim, adopted, replaced, result>>
    BY <1>13 DEF WindowElapses, CanaryTick, Alive
  <2> QED
    BY <2>1, ServiceQuiet
<1>14. ASSUME NEW error \in Retryable \cup {"bad_input", "timed_out"}, CallFailed(error)
       PROVE  [Service!Next]_(Service!vars)
  BY <1>7, <1>14 DEF CallFailed, HandleError, CanaryTick, CanaryAfterError
<1>15. CASE \/ Start \/ RecvSwap \/ RecvWait \/ SelectCancelled \/ SelectSwap
            \/ SelectDeadline \/ SelectEof \/ Dequeued \/ CallOk
            \/ RecoverOk \/ RecoverFailed
  BY <1>7, <1>15 DEF Start, RecvSwap, RecvWait, SelectCancelled, SelectSwap,
     SelectDeadline, SelectEof, Dequeued, CallOk, RecoverOk, RecoverFailed, CanaryTick
<1>16. CASE CallOverBudget \/ CallCondemned
  BY <1>7, <1>16 DEF CallOverBudget, CallCondemned, HandleError, CanaryTick
<1>17. ASSUME NEW m \in Msg, RecvRetry(m) \/ SelectMessage(m)
       PROVE  [Service!Next]_(Service!vars)
  BY <1>7, <1>17 DEF RecvRetry, SelectMessage, CanaryTick
<1>18. ASSUME UNCHANGED <<pc, pre, config, claim, adopted, replaced, result, canary>>
       PROVE  [Service!Next]_(Service!vars)
  BY <1>18, ServiceQuiet DEF Alive, CanaryTick
<1>19. CASE Cancel \/ Finished
  BY <1>18, <1>19 DEF Cancel, Finished
<1>20. ASSUME NEW m \in Msg, BackoffExpires(m) PROVE [Service!Next]_(Service!vars)
  BY <1>18, <1>20 DEF BackoffExpires
<1> QED
  BY <1>2, <1>3, <1>4, <1>5, <1>6, <1>9, <1>10, <1>11, <1>12, <1>13, <1>14, <1>15, <1>16,
     <1>17, <1>19, <1>20, Zenon DEF NodeStep, Runner, Input, Time


\* The node and what is asked of it stay; an admitted request is answered.
LEMMA AnswerServes ==
    ASSUME ServiceFacts, NEW r \in Req, NEW a \in Service!Answers, Answer(r, a),
           hpc[r] \in Active, Service!Holds(r, a),
           UNCHANGED <<Stages, Live, Snapshot, Alive>>
    PROVE  Service!Next
<1>1. guard = r /\ resp[r] = None
  <2>1. hpc[r] # "answered"
    BY DEF Active
  <2> QED
    BY <2>1 DEF ServiceFacts, ApiFacts, ApiInv, GuardProtects, Told
<1>2. Service!Answer(r, a)
  BY <1>1 DEF Answer, Service!Answer
<1> QED
  BY <1>2 DEF Service!Next, Service!Caller

\* Nothing of the node changes, so neither does what it runs or decided.
LEMMA NodeStands ==
    ASSUME UNCHANGED vars, UNCHANGED kind
    PROVE  UNCHANGED <<Stages, Live, Snapshot, Alive>>
<1>1. Stages' = Stages
  BY StageKept, MovesNone
<1> QED
  BY <1>1 DEF Live, Snapshot, Alive, Reinstantiated, Settled

\* The stage of a request is what its handler can read off the progress handle.
LEMMA StageRead ==
    ASSUME ServiceFacts, NEW r \in Req
    PROVE  /\ claim[r] = "unsent" => Stages[r] = "new"
           /\ claim[r] = "pending" => Stages[r] = "offered"
           /\ claim[r] = "withdrawn" => Stages[r] = "withdrawn"
           /\ claim[r] = "runner" /\ ~adopted[r] /\ result[r] = None => Stages[r] = "taken"
           /\ result[r] = "init_failed" => Stages[r] = "failed"
           /\ result[r] = "rolled_back" => Stages[r] = "undone"
           /\ adopted[r] => Stages[r] \in {"adopted", "undone"}
<1>1. /\ adopted[r] \/ result[r] # None => claim[r] = "runner"
      /\ result[r] = "init_failed" => ~adopted[r]
  BY Zenon DEF ServiceFacts, ApiFacts, OwnerFacts, OwnerInv, HonestProgress
<1>2. result[r] = "rolled_back" => Undone(r)
  BY DEF ServiceFacts, ServiceInv, CanUndo
<1>3. result[r] = "rolled_back" => claim[r] = "runner" /\ adopted[r]
  BY <1>1, <1>2, ApiAssumption DEF Undone
<1> QED
  BY <1>1, <1>2, <1>3, ApiAssumption DEF Stages, Stage, Undone

\* An outcome the runner reported is answered by its name.
LEMMA OutcomeServes ==
    ASSUME ServiceFacts, NEW r \in Req, result[r] # None, Answer(r, AnswerOf(result[r])),
           hpc[r] \in Active, UNCHANGED vars, UNCHANGED kind
    PROVE  Service!Next
<1>1. result[r] \in {"ok", "init_failed", "rolled_back"}
  BY DEF ServiceFacts, ApiFacts, OwnerFacts, GuestFacts, TypeInv, TypeOK
<1>2. AnswerOf(result[r]) \in {"200", "409_init", "rolled_back"}
  BY <1>1 DEF AnswerOf
<1>3. AnswerOf(result[r]) \in Service!Answers
  BY <1>2 DEF Service!Answers
<1>4. result[r] = "ok" => adopted[r]
  BY Zenon DEF ServiceFacts, ApiFacts, OwnerFacts, OwnerInv, HonestProgress
<1>5. Service!Holds(r, AnswerOf(result[r]))
  BY <1>1, <1>4, StageRead DEF AnswerOf, Service!Holds
<1> QED
  BY <1>3, <1>5, NodeStands, AnswerServes

\* Every step of a handler is one of the service's callers', or none.
LEMMA HandlerServes ==
    ASSUME ServiceFacts, NEW r \in Req, HandlerStep(r)
    PROVE  [Service!Next]_(Service!vars)
<1> TypeOK /\ GuestInv /\ ApiTypeOK /\ Told(r) /\ ServiceInv
  BY DEF ServiceFacts, ApiFacts, ApiInv, ApiTypeOK, OwnerFacts, GuestFacts
<1> HIDE DEF vars
<1>1. ASSUME NEW place, Goto(r, place), UNCHANGED vars
      PROVE  [Service!Next]_(Service!vars)
  BY <1>1, NodeStands DEF Goto, Service!vars
<1>2. CASE Prepare(r)
  <2>1. CASE Answer(r, "prepare_failed")
    <3>1. UNCHANGED vars /\ UNCHANGED kind /\ hpc[r] \in Active /\ claim[r] = "unsent"
      BY <1>2, <2>1 DEF Prepare, Answer, Active, Told
    <3>2. Service!Holds(r, "prepare_failed")
      BY <1>2, <3>1, StageRead DEF Prepare, Service!Holds
    <3> QED
      BY <2>1, <3>1, <3>2, NodeStands, AnswerServes DEF Service!Answers
  <2> QED
    BY <1>1, <1>2, <2>1 DEF Prepare, Prepared
<1>3. CASE verify_plugin_hash(r)
  <2>1. CASE Answer(r, "409_hash") /\ expected[r] \notin {None, hash}
    <3>1. /\ UNCHANGED vars /\ UNCHANGED kind /\ hpc[r] \in Active
          /\ claim[r] = "unsent" /\ kind[r] = "reconfigure"
      BY <1>3, <2>1 DEF verify_plugin_hash, Answer, Active, Told
    <3>2. Live.plugin = hash
      <4>1. hash = pre
        BY DEF ServiceInv, CanUndo
      <4>2. Settled => inst.plugin = pre
        BY DEF GuestInv, Quiet
      <4> QED
        BY <4>1, <4>2 DEF Live, Reinstantiated
    <3>3. Service!Holds(r, "409_hash")
      BY <2>1, <3>1, <3>2, StageRead DEF Service!Holds
    <3> QED
      BY <2>1, <3>1, <3>3, NodeStands, AnswerServes DEF Service!Answers
  <2> QED
    BY <1>1, <1>3, <2>1, Zenon DEF verify_plugin_hash
<1>4. CASE send_swap(r)
  <2>1. hpc[r] = "ready" /\ claim[r] = "unsent" /\ hpc[r] \in Active
    BY <1>4 DEF send_swap, Told, Active
  <2>2. CASE pc = "done" /\ Answer(r, "404") /\ UNCHANGED vars
    <3>1. UNCHANGED kind
      BY <2>2 DEF Answer
    <3>2. Service!Holds(r, "404")
      BY <2>1, <2>2, StageRead DEF Service!Holds, Alive
    <3> QED
      BY <2>1, <2>2, <3>1, <3>2, NodeStands, AnswerServes DEF Service!Answers
  <2>3. CASE Goto(r, "waiting") /\ Publish(r, kind[r])
    <3>1. /\ pc # "done" /\ claim' = [claim EXCEPT ![r] = "pending"]
          /\ UNCHANGED <<pc, inst, pre, config, adopted, result, replaced, canary>>
          /\ UNCHANGED <<guard, kind, expected, resp>>
      BY <2>3 DEF Publish, Goto
    <3>2. claim'[r] = "pending" /\ \A q \in Req : q # r => claim'[q] = claim[q]
      BY <3>1 DEF TypeOK
    <3>3. Stages[r] = "new" /\ Stages'[r] = "offered"
      BY <2>1, <3>2 DEF Stages, Stage
    <3>4. \A q \in Req : q # r => Stages'[q] = Stages[q]
      BY <3>1, <3>2, StageKept
    <3>5. Service!Moves(r, "new", "offered")
      BY <3>3, <3>4, MovesOne
    <3>6. UNCHANGED <<Live, Snapshot, Alive>> /\ Alive
      BY <3>1 DEF Live, Snapshot, Alive, Reinstantiated, Settled
    <3>7. guard = r
      BY <2>1 DEF ServiceFacts, ApiFacts, ApiInv, GuardProtects
    <3>8. Service!Offer(r)
      BY <3>1, <3>5, <3>6, <3>7 DEF Service!Offer
    <3> QED
      BY <3>8 DEF Service!Next, Service!Caller
  <2> QED
    BY <1>4, <2>2, <2>3, Zenon DEF send_swap
<1>5. CASE Completed(r)
  BY <1>5, OutcomeServes DEF Completed, Answer, Active
<1>6. CASE OutcomeTimeout(r)
  BY <1>1, <1>6 DEF OutcomeTimeout
<1>7. CASE try_withdraw(r)
  <2>1. CASE claim[r] = "pending" /\ Withdraw(r) /\ Goto(r, "retract")
    <3>1. /\ claim' = [claim EXCEPT ![r] = "withdrawn"]
          /\ UNCHANGED <<pc, inst, pre, config, adopted, result, replaced, canary>>
          /\ UNCHANGED <<guard, kind, expected, resp>>
      BY <2>1 DEF Withdraw, Goto
    <3>2. claim'[r] = "withdrawn" /\ \A q \in Req : q # r => claim'[q] = claim[q]
      BY <3>1 DEF TypeOK
    <3>3. Stages[r] = "offered" /\ Stages'[r] = "withdrawn"
      BY <2>1, <3>2 DEF Stages, Stage
    <3>4. \A q \in Req : q # r => Stages'[q] = Stages[q]
      BY <3>1, <3>2, StageKept
    <3>5. Service!Moves(r, "offered", "withdrawn")
      BY <3>3, <3>4, MovesOne
    <3>6. UNCHANGED <<Live, Snapshot, Alive>>
      BY <3>1 DEF Live, Snapshot, Alive, Reinstantiated, Settled
    <3>7. guard = r
      BY <1>7 DEF try_withdraw, ServiceFacts, ApiFacts, ApiInv, GuardProtects, Active
    <3>8. Service!Withdraw(r)
      BY <3>1, <3>5, <3>6, <3>7 DEF Service!Withdraw
    <3> QED
      BY <3>8 DEF Service!Next, Service!Caller
  <2> QED
    BY <1>1, <1>7, <2>1, Zenon DEF try_withdraw
<1>8. CASE retract_swap(r)
  <2>1. Answer(r, "504") /\ hpc[r] \in Active /\ claim[r] = "withdrawn"
    BY <1>8 DEF retract_swap, Told, Active
  <2>2. UNCHANGED <<pc, inst, pre, config, claim, adopted, result, replaced, canary, kind>>
    BY <1>8 DEF retract_swap, Retract, vars, Answer
  <2>3. Stages' = Stages
    BY <2>2, StageKept, MovesNone
  <2>4. UNCHANGED <<Stages, Live, Snapshot, Alive>>
    BY <2>2, <2>3 DEF Live, Snapshot, Alive, Reinstantiated, Settled
  <2>5. Service!Holds(r, "504")
    BY <2>1, StageRead DEF Service!Holds
  <2> QED
    BY <2>1, <2>4, <2>5, AnswerServes DEF Service!Answers
<1>9. CASE Settle(r)
  <2>1. hpc[r] \in Active /\ UNCHANGED vars
    BY <1>9 DEF Settle, Active
  <2>2. CASE adopted[r] /\ Answer(r, "202_adopted")
    <3>1. UNCHANGED kind
      BY <2>2 DEF Answer
    <3>2. Service!Holds(r, "202_adopted")
      BY <2>2, StageRead DEF Service!Holds
    <3> QED
      BY <2>1, <2>2, <3>1, <3>2, NodeStands, AnswerServes DEF Service!Answers
  <2>3. CASE result[r] # None /\ Answer(r, AnswerOf(result[r]))
    <3>1. UNCHANGED kind
      BY <2>3 DEF Answer
    <3> QED
      BY <2>1, <2>3, <3>1, OutcomeServes
  <2> QED
    BY <1>9, <2>2, <2>3, Zenon DEF Settle
<1>10. CASE InitTimeout(r)
  <2>1. /\ hpc[r] \in Active /\ UNCHANGED vars /\ Answer(r, "202_unknown") /\ UNCHANGED kind
        /\ ~adopted[r] /\ result[r] = None /\ claim[r] = "runner"
    BY <1>10 DEF InitTimeout, Active, Answer, Told
  <2>2. Service!Holds(r, "202_unknown")
    BY <2>1, StageRead DEF Service!Holds
  <2> QED
    BY <2>1, <2>2, NodeStands, AnswerServes DEF Service!Answers
<1> QED
  BY <1>2, <1>3, <1>4, <1>5, <1>6, <1>7, <1>8, <1>9, <1>10, Zenon DEF HandlerStep

\* A client comes, is turned away, or leaves.
LEMMA ClientServes ==
    ASSUME ServiceFacts, NEW r \in Req, Client(r)
    PROVE  Service!Next
<1> ApiTypeOK /\ Told(r) /\ GuardProtects
  BY DEF ServiceFacts, ApiFacts, ApiInv
<1>1. CASE Disconnect(r)
  <2>1. /\ UNCHANGED vars /\ UNCHANGED <<kind, expected, resp>>
        /\ guard' = IF guard = r THEN None ELSE guard
        /\ hpc[r] \in Active
    BY <1>1 DEF Disconnect, Active
  <2>2. guard = r /\ guard' = None
    BY <2>1 DEF GuardProtects
  <2>3. UNCHANGED <<Stages, Live, Snapshot, Alive>>
    BY <2>1, NodeStands
  <2>4. Service!Abandon(r)
    BY <2>1, <2>2, <2>3 DEF Service!Abandon
  <2> QED
    BY <2>4 DEF Service!Next, Service!Caller
<1>2. ASSUME NEW k \in {"replace", "reconfigure"}, NEW h \in Plugin \cup {None}, Begin(r, k, h)
      PROVE  Service!Next
  <2>1. UNCHANGED vars /\ hpc[r] = "idle" /\ claim[r] = "unsent" /\ resp[r] = None
    BY <1>2 DEF Begin, Told
  <2>2. UNCHANGED <<Live, Snapshot, Alive>>
    BY <2>1 DEF Live, Snapshot, Alive, Reinstantiated, Settled
  <2>3. Stages[r] = "new"
    BY <2>1, StageRead
  <2>4. CASE GuardFree
    <3>1. /\ guard = None /\ guard' = r /\ resp' = resp
          /\ kind' = [kind EXCEPT ![r] = k] /\ expected' = [expected EXCEPT ![r] = h]
      BY <1>2, <2>4 DEF Begin, GuardFree
    <3>2. \A q \in Req : q # r => kind'[q] = kind[q]
      BY <3>1 DEF ApiTypeOK
    <3>3. \A q \in Req : Stages'[q] = Stages[q]
      <4>1. Stages'[r] = Stages[r]
        BY <2>1, <2>3 DEF Stages, Stage
      <4>2. ASSUME NEW q \in Req, q # r PROVE Stages'[q] = Stages[q]
        BY <2>1, <3>2, <4>2, StageKept
      <4> QED
        BY <4>1, <4>2
    <3>4. Stages' = Stages
      BY <3>3, MovesNone
    <3>5. Service!Admit(r, k, h)
      BY <2>1, <2>2, <2>3, <3>1, <3>4 DEF Service!Admit
    <3> QED
      BY <3>5 DEF Service!Next, Service!Caller, Plugin
  <2>5. CASE ~GuardFree
    <3>1. Answer(r, "409_busy") /\ guard # None /\ guard # r
      BY <1>2, <2>1, <2>5 DEF Begin, GuardFree, GuardProtects, Active
    <3>2. UNCHANGED <<guard, kind, expected>> /\ resp' = [resp EXCEPT ![r] = "409_busy"]
      BY <3>1 DEF Answer
    <3>3. Stages' = Stages
      BY <2>1, <3>2, NodeStands
    <3>4. Service!TurnAway(r)
      BY <2>1, <2>2, <2>3, <3>1, <3>2, <3>3 DEF Service!TurnAway
    <3> QED
      BY <3>4 DEF Service!Next, Service!Caller
  <2> QED
    BY <2>4, <2>5
<1> QED
  BY <1>1, <1>2, Zenon DEF Client

\* The service starts as the node does.
LEMMA ServiceStarts == ApiInit => Service!Init
<1> SUFFICES ASSUME ApiInit PROVE Service!Init
  OBVIOUS
<1>1. Stages = [r \in Req |-> "new"]
  BY DEF ApiInit, Init, Stages, Stage
<1>2. Live = [plugin |-> Initial, config |-> Initial] /\ Snapshot = None /\ Alive
  BY DEF ApiInit, Init, Live, Settled, Reinstantiated, Snapshot, Alive
<1> QED
  BY <1>1, <1>2 DEF ApiInit, Service!Init

\* Each step of the composition is a step of the service, or none.
LEMMA ServiceStep ==
    ASSUME ServiceFacts, ServiceFacts', [ApiNext]_allVars
    PROVE  [Service!Next]_(Service!vars)
<1>1. CASE NodeStep
  <2>1. OwnerFacts'
    BY DEF ServiceFacts, ApiFacts
  <2> QED
    BY <1>1, <2>1, NodeServes
<1>2. ASSUME NEW r \in Req, HandlerStep(r) \/ Client(r) PROVE [Service!Next]_(Service!vars)
  BY <1>2, HandlerServes, ClientServes
<1>3. CASE UNCHANGED allVars
  <2>1. UNCHANGED vars /\ UNCHANGED <<guard, kind, expected, resp>>
    BY <1>3 DEF allVars, apiVars
  <2> QED
    BY <2>1, NodeStands DEF Service!vars
<1> QED
  BY <1>1, <1>2, <1>3, Zenon DEF ApiNext

\* The watch slot, the claim, the lifecycle calls, the canary and its rollback,
\* the two waits, withdrawals and disconnects of any number of handlers on any
\* node implement the replacement service: one decision per request, one thing
\* in use, one way back, and answers that are so when they are given.
THEOREM NodeImplementsReplacement == ApiSpec => ImplementsReplacement
<1>1. ServiceFacts /\ ServiceFacts' /\ [ApiNext]_allVars => [Service!Next]_(Service!vars)
  BY ServiceStep
<1> QED
  BY <1>1, ServiceFactsAlways, ServiceStarts, PTL
     DEF ApiSpec, ImplementsReplacement, Service!Spec

============================================================================
