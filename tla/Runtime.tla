------------------------------ MODULE Runtime ------------------------------
(***************************************************************************)
(* The wafer-runtime process (wafer-runtime/src/main.rs, startup.rs,       *)
(* metadata.rs): the boot sequence, the two benchmark samplers, the        *)
(* control plane, the timed hot-swap (trigger task, dispatch, adoption     *)
(* task), the signal thread, the flush of the artifacts and the exit code. *)
(*                                                                         *)
(* The node tasks and the target's runner are here only what this code     *)
(* sees of them: Pipeline and NodeRunner model them in detail.             *)
(***************************************************************************)
EXTENDS Naturals, FiniteSets

CONSTANTS
  Options,      \* the command lines and environments a process may start with
  MayFail,      \* the fallible steps that may fail in this instance
  MaxSignals,   \* SIGINT and SIGTERM sent to the process
  MaxSamples    \* bound on the samples a sampler takes before it is cancelled

Steps == {"config", "plan", "launch", "provenance", "bind", "target", "signals", "timeline",
          "prepare", "panic", "startup", "artifacts", "binary"}

\* What an instance has to give.
RuntimeAssumption ==
  /\ Options \subseteq [bench : BOOLEAN, queue : BOOLEAN, metadata : BOOLEAN, startup : BOOLEAN,
                        swap : BOOLEAN, api : BOOLEAN, timeline : BOOLEAN]
  /\ MayFail \subseteq Steps
  /\ MaxSignals \in Nat /\ MaxSamples \in Nat

\* Files the process writes. "provenance" is replaced atomically.
Files == {"memory", "queue", "metrics", "startup", "timeline"}
Samplers == {"memory", "queue"}
NoFile == [at |-> "none", plugin |-> "none", binary |-> FALSE]

VARIABLES
  opt,        \* the options of this process
  pc,         \* where run() stands
  code,       \* the exit code, or "none"
  nodes,      \* the node tasks
  cancelled,  \* the orchestrator's cancel token
  signals,    \* signals received
  handler,    \* the signal thread is installed
  control,    \* the control-plane tasks
  guard,      \* who holds the target node's mutation guard
  trigger,    \* the timed-swap trigger task
  oneshot,    \* what the trigger task passes to run_with_swap
  target,     \* what the target's runner did with the replacement
  live,       \* the plugin hash recorded for the target
  replaced,   \* the hash the replacement took the place of
  adoption,   \* the task that records the adopted swap
  runDone,    \* its stop token
  result,     \* result of the run: swap failure and node failure
  sampler,    \* each sampler's task
  taken,      \* samples each recorder holds
  files,      \* files written, with the samples they hold
  provenance, \* the provenance file
  startupErr  \* write_startup refused or failed

vars == <<opt, pc, code, nodes, cancelled, signals, handler, control, guard,
          trigger, oneshot, target, live, replaced, adoption, runDone, result,
          sampler, taken, files, provenance, startupErr>>

boot == <<opt, code, signals, handler>>
swapping == <<trigger, oneshot, target, live, replaced, guard, adoption, runDone>>
bench == <<sampler, taken, files>>

Fails(step) == step \in MayFail

HasProvenance == opt.metadata \/ opt.bench

Init ==
  /\ opt \in Options
  /\ pc = "load" /\ code = "none"
  /\ nodes = "none" /\ cancelled = FALSE
  /\ signals = 0 /\ handler = FALSE
  /\ control = "none" /\ guard = "free"
  /\ trigger = "none" /\ oneshot = "none" /\ target = "none"
  /\ live = "launched" /\ replaced = "none"
  /\ adoption = "none" /\ runDone = FALSE
  /\ result = [swap |-> FALSE, run |-> FALSE]
  /\ sampler = [s \in Samplers |-> "off"] /\ taken = [s \in Samplers |-> 0]
  /\ files = [f \in Files |-> 0]
  /\ provenance = NoFile /\ startupErr = FALSE

Exit(c) == pc' = "exited" /\ code' = c

At(label) == pc = label

-----------------------------------------------------------------------------
(* Boot. *)

\* load_config and validate: nothing has started yet.
Load ==
  /\ At("load")
  /\ \/ pc' = "plan" /\ UNCHANGED code
     \/ Fails("config") /\ Exit("2")
  /\ UNCHANGED <<opt, nodes, cancelled, signals, handler, control, swapping,
                 result, bench, provenance, startupErr>>

\* SwapPlan::from_args: the timed swap must name a Transform and a plugin.
CheckPlan ==
  /\ At("plan")
  /\ \/ pc' = "launch" /\ UNCHANGED code
     \/ Fails("plan") /\ opt.swap /\ Exit("2")
  /\ UNCHANGED <<opt, nodes, cancelled, signals, handler, control, swapping,
                 result, bench, provenance, startupErr>>

\* launch_pipeline_timed; a WaferError::Config in the chain is exit code 2.
Launch ==
  /\ At("launch")
  /\ \/ pc' = "launchProvenance" /\ nodes' = "running" /\ UNCHANGED code
     \/ Fails("launch") /\ \E c \in {"1", "2"} : Exit(c) /\ UNCHANGED nodes
  /\ UNCHANGED <<opt, cancelled, signals, handler, control, swapping, result,
                 bench, provenance, startupErr>>

\* ProvenanceSink::write: temporary file and rename; a failure is logged.
WriteProvenance(at, binary) ==
  \/ provenance' = [at |-> at, plugin |-> live, binary |-> binary]
  \/ Fails("provenance") /\ UNCHANGED provenance

LaunchProvenance ==
  /\ At("launchProvenance")
  /\ IF HasProvenance /\ ~opt.startup
     THEN WriteProvenance("launch", FALSE)
     ELSE UNCHANGED provenance
  /\ pc' = "samplers"
  /\ UNCHANGED <<boot, nodes, cancelled, control, swapping, result, bench, startupErr>>

SpawnSamplers ==
  /\ At("samplers")
  /\ sampler' = [memory |-> IF opt.bench THEN "sampling" ELSE "off",
                 queue |-> IF opt.queue THEN "sampling" ELSE "off"]
  /\ pc' = "control"
  /\ UNCHANGED <<boot, nodes, cancelled, control, swapping, result, taken, files,
                 provenance, startupErr>>

\* launch_control_plane: a server that cannot bind ends the process at once,
\* with the nodes already running.
LaunchControlPlane ==
  /\ At("control")
  /\ \/ /\ control' = IF opt.api THEN "serving" ELSE "none"
        /\ pc' = IF opt.swap THEN "target" ELSE "signals"
        /\ UNCHANGED code
     \/ Fails("bind") /\ opt.api /\ Exit("1") /\ UNCHANGED control
  /\ UNCHANGED <<opt, nodes, cancelled, signals, handler, swapping, result, bench,
                 provenance, startupErr>>

\* The swap target must be swappable; a rejected one stops the nodes first
\* (orchestrator.shutdown cancels and waits), then the control plane.
CheckTarget ==
  /\ At("target")
  /\ \/ /\ trigger' = "sleeping" /\ pc' = "signals"
        /\ UNCHANGED cancelled
     \/ /\ Fails("target")
        /\ cancelled' = TRUE /\ pc' = "reject" /\ UNCHANGED trigger
  /\ UNCHANGED <<boot, nodes, control, oneshot, target, live, replaced, guard,
                 adoption, runDone, result, bench, provenance, startupErr>>

RejectTarget ==
  /\ At("reject") /\ nodes \in {"clean", "failed"} /\ control # "serving"
  /\ Exit("2")
  /\ UNCHANGED <<opt, nodes, cancelled, signals, handler, control, swapping,
                 result, bench, provenance, startupErr>>

SpawnSignalThread ==
  /\ At("signals")
  /\ \/ /\ handler' = TRUE /\ UNCHANGED code
        /\ pc' = IF opt.swap THEN "select" ELSE "run"
     \/ Fails("signals") /\ Exit("1") /\ UNCHANGED handler
  /\ UNCHANGED <<opt, nodes, cancelled, signals, control, swapping, result, bench,
                 provenance, startupErr>>

-----------------------------------------------------------------------------
(* The signal thread; before it is installed the default action kills. *)

Signal ==
  /\ pc # "exited" /\ signals < MaxSignals
  /\ signals' = signals + 1
  /\ \/ ~handler /\ Exit("killed") /\ UNCHANGED cancelled
     \/ handler /\ signals = 0 /\ cancelled' = TRUE /\ UNCHANGED <<pc, code>>
     \/ handler /\ signals > 0 /\ Exit("signal") /\ UNCHANGED cancelled
  /\ UNCHANGED <<opt, nodes, handler, control, swapping, result, bench,
                 provenance, startupErr>>

-----------------------------------------------------------------------------
(* The node tasks, as the process sees them (Pipeline models them). *)

Alive == nodes \in {"running", "failing"}

\* A task fails or panics while the others still run: its drop guard cancels the
\* pipeline at once, wherever main stands.
NodeFails ==
  /\ pc # "exited" /\ nodes = "running" /\ nodes' = "failing"
  /\ cancelled' = TRUE
  /\ UNCHANGED <<boot, pc, control, swapping, result, bench, provenance, startupErr>>

NodesEnd ==
  /\ pc # "exited" /\ Alive
  /\ nodes' = IF nodes = "running" THEN "clean" ELSE "failed"
  /\ UNCHANGED <<boot, pc, cancelled, control, swapping, result, bench, provenance,
                 startupErr>>

-----------------------------------------------------------------------------
(* The control plane: the HTTP API and its replacement requests. *)

ControlStops ==
  /\ pc # "exited" /\ control = "serving" /\ cancelled /\ guard # "api"
  /\ control' = "stopped"
  /\ UNCHANGED <<boot, pc, nodes, cancelled, swapping, result, bench, provenance, startupErr>>

ApiShutdown ==
  /\ pc # "exited" /\ control = "serving" /\ ~cancelled
  /\ cancelled' = TRUE
  /\ UNCHANGED <<boot, pc, nodes, control, swapping, result, bench, provenance, startupErr>>

ApiBegins ==
  /\ pc # "exited" /\ control = "serving" /\ guard = "free" /\ ~cancelled
  /\ guard' = "api"
  /\ UNCHANGED <<boot, pc, nodes, cancelled, control, trigger, oneshot, target, live,
                 replaced, adoption, runDone, result, bench, provenance, startupErr>>

\* The request is answered: the runner has adopted its plugin, or not.
ApiAnswered ==
  /\ pc # "exited" /\ guard = "api" /\ guard' = "free"
  /\ \/ UNCHANGED <<live, target>>
     \/ /\ Alive /\ live' = "api"
        /\ target' = IF target = "reported" THEN "superseded" ELSE target
  /\ UNCHANGED <<boot, pc, nodes, cancelled, control, trigger, oneshot, replaced,
                 adoption, runDone, result, bench, provenance, startupErr>>

-----------------------------------------------------------------------------
(* The timed-swap trigger task. *)

TriggerUnchanged ==
  UNCHANGED <<boot, pc, nodes, cancelled, control, target, live, replaced, guard,
              adoption, runDone, result, sampler, taken, provenance, startupErr>>

\* The biased select: a cancel that is already there wins over the delay.
\* A task that returns without sending drops the sender.
TriggerWakes ==
  /\ pc # "exited" /\ trigger = "sleeping"
  /\ IF cancelled THEN trigger' = "ended" /\ oneshot' = "closed"
     ELSE trigger' = "preparing" /\ UNCHANGED oneshot
  /\ UNCHANGED files /\ TriggerUnchanged

\* Read the plugin, hash it beside the preparation, write the timeline, send.
TriggerPrepares ==
  /\ pc # "exited" /\ trigger = "preparing" /\ trigger' = "ended"
  /\ \/ /\ oneshot' = "prepared"
        /\ \E w \in {0, 1} :
             /\ w = 0 => ~opt.timeline \/ Fails("timeline")
             /\ w = 1 => opt.timeline
             /\ files' = [files EXCEPT !["timeline"] = w]
     \/ Fails("prepare") /\ oneshot' = "error" /\ UNCHANGED files
     \/ Fails("panic") /\ oneshot' = "closed" /\ UNCHANGED files
  /\ TriggerUnchanged

-----------------------------------------------------------------------------
(* run_with_swap. *)

SelectDone ==
  /\ pc' = "run"
  /\ UNCHANGED <<boot, nodes, cancelled, control, trigger, oneshot, live, replaced,
                 runDone, bench, provenance, startupErr>>

\* Fault: the timed swap does not take the mutation guard.
DispatchUnguarded ==
  /\ target' = "published" /\ adoption' = "waiting"
  /\ UNCHANGED <<guard, result>>

\* track_swap_plugin_hash, try_begin_swap, send_swap: the guard must be free
\* and the target's runner must still hold its receiver.
Dispatch ==
  \/ /\ guard = "free" /\ Alive
     /\ guard' = "timed" /\ target' = "published" /\ adoption' = "waiting"
     /\ UNCHANGED result
  \/ /\ guard # "free" \/ ~Alive
     /\ result' = [result EXCEPT !.swap = TRUE]
     /\ UNCHANGED <<guard, target, adoption>>

SwapSelect ==
  /\ At("select")
  /\ \/ cancelled /\ UNCHANGED <<guard, target, adoption, result>>
     \/ ~cancelled /\ oneshot = "prepared" /\ Dispatch
     \/ /\ ~cancelled /\ oneshot \in {"error", "closed"}
        /\ result' = [result EXCEPT !.swap = TRUE]
        /\ UNCHANGED <<guard, target, adoption>>
  /\ SelectDone

\* run_until_complete returns, and the adoption task is told to stop waiting.
RunReturns ==
  /\ At("run") /\ ~Alive
  /\ result' = [result EXCEPT !.run = nodes = "failed"]
  /\ runDone' = TRUE
  /\ pc' = IF opt.swap THEN "joinAdoption" ELSE "startup"
  /\ UNCHANGED <<boot, nodes, cancelled, control, trigger, oneshot, target, live,
                 replaced, guard, adoption, bench, provenance, startupErr>>

JoinAdoption ==
  /\ At("joinAdoption") /\ adoption \in {"none", "done"}
  /\ pc' = "flush"
  /\ UNCHANGED <<boot, nodes, cancelled, control, swapping, result, bench, provenance,
                 startupErr>>

-----------------------------------------------------------------------------
(* The target's runner (NodeRunner models it). *)

Runner(from, to) ==
  /\ pc # "exited" /\ Alive /\ target = from /\ target' = to
  /\ UNCHANGED <<boot, pc, nodes, cancelled, control, trigger, oneshot, guard, adoption,
                 runDone, result, bench, provenance, startupErr>>

Adopts == Runner("published", "adopted") /\ replaced' = live /\ live' = "timed"
Refuses == Runner("published", "refused") /\ UNCHANGED <<live, replaced>>
Reports == Runner("adopted", "reported") /\ UNCHANGED <<live, replaced>>
RollsBack ==
  /\ \/ Runner("adopted", "rolledBack")
     \/ Runner("reported", "rolledBackLater")
  /\ live' = replaced /\ UNCHANGED replaced

-----------------------------------------------------------------------------
(* record_adopted_swap, and the release of the guard after it. *)

Outcome == CASE target \in {"reported", "rolledBackLater", "superseded"} -> "ok"
             [] target \in {"refused", "rolledBack"} -> "err"
             [] OTHER -> "none"

\* Fault: the adoption is waited for after the pipeline has ended.
RecordAdoptedSwapWaits ==
  /\ pc # "exited" /\ adoption = "waiting"
  /\ Outcome # "none"
  /\ IF HasProvenance /\ Outcome = "ok"
     THEN WriteProvenance("swap", FALSE)
     ELSE UNCHANGED provenance
  /\ adoption' = "done" /\ guard' = "free"
  /\ UNCHANGED <<boot, pc, nodes, cancelled, control, trigger, oneshot, target, live,
                 replaced, runDone, result, bench, startupErr>>

RecordAdoptedSwap ==
  /\ pc # "exited" /\ adoption = "waiting"
  /\ Outcome # "none" \/ runDone
  /\ IF HasProvenance /\ (Outcome = "ok" \/ target = "adopted")
     THEN WriteProvenance("swap", FALSE)
     ELSE UNCHANGED provenance
  /\ adoption' = "done" /\ guard' = "free"
  /\ UNCHANGED <<boot, pc, nodes, cancelled, control, trigger, oneshot, target, live,
                 replaced, runDone, result, bench, startupErr>>

-----------------------------------------------------------------------------
(* After the run: startup.json, the artifacts, the last provenance. *)

\* write_startup, standard mode only; StartupPhases models its checks.
WriteStartup ==
  /\ At("startup")
  /\ \/ ~opt.startup /\ UNCHANGED <<files, startupErr>>
     \/ /\ opt.startup /\ files' = [files EXCEPT !["startup"] = 1]
        /\ UNCHANGED startupErr
     \/ opt.startup /\ Fails("startup") /\ startupErr' = TRUE /\ UNCHANGED files
  /\ pc' = "flush"
  /\ UNCHANGED <<boot, nodes, cancelled, control, swapping, result, sampler, taken, provenance>>

\* Without a bench directory nothing is cancelled and nothing is flushed.
Flush ==
  /\ At("flush")
  /\ IF opt.bench
     THEN /\ pc' = "joinSamplers"
          /\ sampler' = [s \in Samplers |->
                           IF sampler[s] = "sampling" THEN "cancelled" ELSE sampler[s]]
     ELSE pc' = "shutdownProvenance" /\ UNCHANGED sampler
  /\ UNCHANGED <<boot, nodes, cancelled, control, swapping, result, taken, files, provenance,
                 startupErr>>

\* The recorder's lock is the sampler's for its whole life.
Tick(s) ==
  /\ sampler[s] = "sampling" /\ UNCHANGED sampler
  /\ taken' = [taken EXCEPT ![s] = IF @ < MaxSamples THEN @ + 1 ELSE @]

LastSample(s) ==
  /\ sampler[s] = "cancelled" /\ sampler' = [sampler EXCEPT ![s] = "joined"]
  /\ taken' = [taken EXCEPT ![s] = @ + 1]

\* One tick of a sampler's loop; a cancelled one takes a last sample and ends.
Sample(s) ==
  /\ pc # "exited"
  /\ Tick(s) \/ LastSample(s)
  /\ UNCHANGED <<boot, pc, nodes, cancelled, control, swapping, result, files, provenance,
                 startupErr>>

\* Fault: the samplers are not waited for.
JoinSamplersNot ==
  /\ At("joinSamplers")
  /\ pc' = "write"
  /\ UNCHANGED <<boot, nodes, cancelled, control, swapping, result, bench, provenance,
                 startupErr>>

JoinSamplers ==
  /\ At("joinSamplers") /\ \A s \in Samplers : sampler[s] \in {"off", "joined"}
  /\ pc' = "write"
  /\ UNCHANGED <<boot, nodes, cancelled, control, swapping, result, bench, provenance,
                 startupErr>>

\* memory.csv, queue-depth.csv (with their clock files) and per_node_metrics.csv;
\* a write that fails is logged and the others still happen.
WriteArtifacts ==
  /\ At("write")
  /\ \E kept \in {{"memory", "queue", "metrics"}}
                 \cup (IF Fails("artifacts") THEN SUBSET {"memory", "queue", "metrics"} ELSE {}) :
       files' = [f \in Files |->
                   IF f \notin kept THEN files[f]
                   ELSE IF f = "metrics" THEN 1
                   ELSE IF sampler[f] = "joined" THEN taken[f] ELSE files[f]]
  /\ pc' = "shutdownProvenance"
  /\ UNCHANGED <<boot, nodes, cancelled, control, swapping, result, sampler, taken, provenance,
                 startupErr>>

\* write_shutdown_provenance awaits the binary hash, which may fail.
ShutdownProvenance ==
  /\ At("shutdownProvenance")
  /\ IF HasProvenance
     THEN \E binary \in {TRUE} \cup {~Fails("binary")} : WriteProvenance("shutdown", binary)
     ELSE UNCHANGED provenance
  /\ pc' = "stopControl"
  /\ UNCHANGED <<boot, nodes, cancelled, control, swapping, result, bench, startupErr>>

\* orchestrator.cancel(): the only thing that stops a control plane that
\* outlives a pipeline which completed by itself.
StopControl ==
  /\ At("stopControl")
  /\ cancelled' = TRUE /\ pc' = "waitControl"
  /\ UNCHANGED <<boot, nodes, control, swapping, result, bench, provenance, startupErr>>

\* pipeline_exit_code; a failed run outranks a failed startup.json.
ExitCode ==
  IF result.run \/ result.swap THEN "3" ELSE IF startupErr THEN "1" ELSE "0"

Finish ==
  /\ At("waitControl") /\ control # "serving"
  /\ Exit(ExitCode)
  /\ UNCHANGED <<opt, nodes, cancelled, signals, handler, control, swapping, result, bench,
                 provenance, startupErr>>

-----------------------------------------------------------------------------
Main == \/ Load \/ CheckPlan \/ Launch \/ LaunchProvenance \/ SpawnSamplers \/ LaunchControlPlane
        \/ CheckTarget \/ RejectTarget \/ SpawnSignalThread
        \/ SwapSelect \/ RunReturns \/ JoinAdoption \/ WriteStartup \/ Flush
        \/ JoinSamplers \/ WriteArtifacts \/ ShutdownProvenance \/ StopControl \/ Finish

Trigger == TriggerWakes \/ TriggerPrepares

Api == ApiShutdown \/ ApiBegins \/ ApiAnswered \/ ControlStops

TargetRunner == Adopts \/ Refuses \/ Reports \/ RollsBack

Exited == pc = "exited" /\ UNCHANGED vars

Next == \/ Main \/ Trigger \/ Api \/ TargetRunner \/ Signal
        \/ NodeFails \/ NodesEnd \/ RecordAdoptedSwap
        \/ \E s \in Samplers : Sample(s)
        \/ Exited

Spec == Init /\ [][Next]_vars

\* main, the spawned tasks and the control plane are scheduled; the nodes end
\* once the pipeline is cancelled (Pipeline's CancelEndsRun); an API request is
\* answered (HotSwap's RequestsAnswered).
Fairness ==
  /\ WF_vars(Main) /\ WF_vars(Trigger) /\ WF_vars(RecordAdoptedSwap)
  /\ \A s \in Samplers : WF_vars(sampler[s] = "cancelled" /\ Sample(s))
  /\ WF_vars(cancelled /\ NodesEnd)
  /\ WF_vars(ControlStops) /\ WF_vars(ApiAnswered)

-----------------------------------------------------------------------------
(* Properties. *)

RtTypeOK ==
  /\ opt \in Options
  /\ code \in {"none", "0", "1", "2", "3", "killed", "signal"}
  /\ (code = "none") = (pc # "exited")
  /\ nodes \in {"none", "running", "failing", "clean", "failed"}
  /\ signals \in 0 .. MaxSignals
  /\ guard \in {"free", "api", "timed"}
  /\ live \in {"launched", "api", "timed"}
  /\ taken \in [Samplers -> 0 .. MaxSamples + 1]

\* The run got past startup and came to its own end.
RanToEnd == code \in {"0", "3"} \/ (code = "1" /\ startupErr)

\* main.rs:8-19, "the code must never claim success for a run that failed": 0
\* means that every task ended cleanly, that startup.json is there when asked
\* for, and that an undisturbed swap run dispatched its swap; a failed run is
\* never reported as a startup failure.
ExitTellsTheRun ==
  /\ code = "0" => nodes = "clean" /\ ~startupErr
  /\ code = "0" /\ opt.swap /\ signals = 0 /\ ~opt.api => target # "none"
  /\ code = "1" /\ handler => nodes = "clean"
  /\ code = "3" => nodes = "failed" \/ opt.swap

\* "Bench artifacts are still flushed first" (main.rs:19), and flushed whole:
\* the samplers have taken their last sample before their recorders are read.
ArtifactsWhole ==
  /\ \A s \in Samplers : files[s] # 0 => files[s] = taken[s]
  /\ RanToEnd /\ opt.bench /\ ~Fails("artifacts") =>
       /\ files["memory"] > 0 /\ files["metrics"] = 1
       /\ opt.queue => files["queue"] > 0

\* The provenance a finished run leaves is the shutdown write, and it names the
\* plugin that was loaded when the run ended (RESULT-CONTRACT.md:1075), whoever
\* swapped it and whether or not it was rolled back afterwards.
ProvenanceNamesLive ==
  RanToEnd /\ HasProvenance /\ ~Fails("provenance") =>
    /\ provenance.at = "shutdown" /\ provenance.plugin = live
    /\ provenance.binary \/ Fails("binary")

\* What is left of a process tells what it did: the exit code, the artifacts
\* and the provenance, together.
RunReported == RtTypeOK /\ ExitTellsTheRun /\ ArtifactsWhole /\ ProvenanceNamesLive

\* From the dispatch of the timed swap to its outcome no API request replaces
\* the plugin under it (the guard moves into the adoption task).
TimedSwapKept ==
  (target \in {"published", "adopted"} /\ target' = target) => live' = live

\* docs/architecture/03-building-blocks.md:135: the queue recorder "writes
\* queue-depth.csv when WAFER_QUEUE_DEPTH_OUTPUT is set".
QueueDepthWritten == RanToEnd /\ opt.queue /\ ~Fails("artifacts") => files["queue"] > 0

\* main.rs:586, "a swap benchmark in which no swap happened is not a valid
\* sample": an undisturbed swap run that reports success has swapped.
SuccessMeansSwapped ==
  code = "0" /\ opt.swap /\ signals = 0 /\ ~opt.api =>
    target \in {"adopted", "reported", "rolledBack", "rolledBackLater"}
=============================================================================
