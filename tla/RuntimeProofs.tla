--------------------------- MODULE RuntimeProofs ---------------------------
(***************************************************************************)
(* Theorems about the wafer-runtime process, for every set of options,     *)
(* every set of steps that may fail and any number of signals and samples. *)
(***************************************************************************)
EXTENDS Runtime, Sequences, WellFoundedInduction, FiniteSetTheorems, TLAPS

\* The boot sequence up to the signal thread, and what follows the run.
Boot == {"load", "plan", "launch", "launchProvenance", "samplers", "control", "target",
         "reject", "signals"}
Wrapup == {"joinAdoption", "startup", "flush", "joinSamplers", "write", "shutdownProvenance",
           "stopControl", "waitControl"}
Labels == Boot \cup {"select", "run"} \cup Wrapup \cup {"exited"}

RtTypes ==
  /\ opt \in Options /\ pc \in Labels
  /\ code \in {"none", "0", "1", "2", "3", "killed", "signal"}
  /\ nodes \in {"none", "running", "failing", "clean", "failed"}
  /\ signals \in 0 .. MaxSignals
  /\ guard \in {"free", "api", "timed"}
  /\ live \in {"launched", "api", "timed"} /\ replaced \in {"none", "launched", "api", "timed"}
  /\ result \in [swap : BOOLEAN, run : BOOLEAN]
  /\ sampler \in [Samplers -> {"off", "sampling", "cancelled", "joined"}]
  /\ taken \in [Samplers -> Nat]
  /\ files \in [Files -> Nat]

-----------------------------------------------------------------------------
(* The inductive invariant. *)

\* The nodes exist once the launch is past, a run that is being wound up has
\* ended and its result says how, and the exit code is set by the exit alone.
RunInv ==
  /\ code = "none" <=> pc # "exited"
  /\ pc \in Boot => ~handler
  /\ pc \notin {"load", "plan", "launch", "exited"} => nodes # "none"
  /\ pc \in {"load", "plan", "launch"} => nodes = "none"
  /\ pc \in Wrapup => nodes \in {"clean", "failed"} /\ (result.run <=> nodes = "failed")
  /\ pc \in Boot \cup {"select", "run", "joinAdoption", "startup"} => ~startupErr
  /\ runDone => pc \in Wrapup \cup {"exited"} /\ nodes \in {"clean", "failed"}

\* The timed swap happens in swap mode only; until it is dispatched nobody but
\* the API, the signal thread and a node that fails cancels the run, and from then
\* on the swap or a failure is on record.
SwapInv ==
  /\ pc \in {"target", "reject", "select", "joinAdoption"} => opt.swap
  /\ result.swap => opt.swap
  /\ control = "serving" => opt.api
  /\ pc \in (Boot \ {"reject"}) \cup {"select"} /\ signals = 0 /\ ~opt.api =>
       (cancelled => nodes \in {"failing", "failed"})
  /\ pc \in {"run"} \cup Wrapup /\ opt.swap /\ signals = 0 /\ ~opt.api =>
       target # "none" \/ result.swap \/ nodes \in {"failing", "failed"}
  /\ adoption # "none" => opt.swap
  /\ pc \in Wrapup \ {"joinAdoption"} => adoption # "waiting"

\* The mutation guard is the timed swap's from its dispatch to the end of the
\* adoption task, and that task outlives the replacement's adoption.
GuardInv ==
  /\ adoption = "waiting" => guard = "timed"
  /\ target \in {"published", "adopted"} => adoption = "waiting" \/ runDone
  /\ target \in {"adopted", "reported"} => replaced # "none"

\* Nothing is read from a recorder before its sampler has joined, and from then
\* on its samples are fixed.
ArtInv ==
  /\ \A s \in Samplers :
       /\ sampler[s] = "joined" => taken[s] > 0 /\ taken[s] <= MaxSamples + 1
       /\ sampler[s] # "joined" => taken[s] <= MaxSamples
       /\ files[s] # 0 => files[s] = taken[s] /\ sampler[s] = "joined"
  /\ pc \in {"control", "target", "reject", "signals", "select", "run"} \cup Wrapup =>
       /\ opt.bench => sampler["memory"] # "off"
       /\ opt.queue => sampler["queue"] # "off"
  /\ pc \in {"load", "plan", "launch", "launchProvenance", "samplers"} =>
       \A s \in Samplers : sampler[s] = "off"
  /\ pc \in {"joinSamplers", "write"} => opt.bench
  /\ pc = "write" => \A s \in Samplers : sampler[s] \in {"off", "joined"}
  /\ pc \in {"shutdownProvenance", "stopControl", "waitControl"} /\ opt.bench
     /\ ~Fails("artifacts") =>
       /\ files["memory"] > 0 /\ files["metrics"] = 1
       /\ opt.queue => files["queue"] > 0

\* Once the shutdown provenance is written the pipeline has ended, and nothing
\* replaces the plugin it names.
ProvInv ==
  pc \in {"stopControl", "waitControl"} /\ HasProvenance /\ ~Fails("provenance") =>
    /\ provenance.at = "shutdown" /\ provenance.plugin = live
    /\ provenance.binary \/ Fails("binary")

RtInv == RtTypes /\ RunInv /\ SwapInv /\ GuardInv /\ ArtInv /\ ProvInv

-----------------------------------------------------------------------------
USE DEF boot, swapping, bench, At, Exit, Fails

\* The process starts in the invariant.
LEMMA RtInit == ASSUME RuntimeAssumption, Init PROVE RtInv
<1>1. RtTypes
  BY DEF RuntimeAssumption, Init, RtTypes, Labels, Boot, Samplers, Files
<1>2. RunInv
  BY DEF Init, RunInv, Boot, Wrapup
<1>3. SwapInv
  BY DEF Init, SwapInv, Boot, Wrapup
<1>4. GuardInv
  BY DEF Init, GuardInv
<1>5. ArtInv
  BY DEF RuntimeAssumption, Init, ArtInv, Wrapup, Samplers, Files
<1>6. ProvInv
  BY DEF Init, ProvInv
<1> QED
  BY <1>1, <1>2, <1>3, <1>4, <1>5, <1>6 DEF RtInv

\* Nothing happens in a process that has exited.
LEMMA ExitIsFinal == ASSUME pc = "exited", [Next]_vars PROVE UNCHANGED vars
<1>1. ~Main
  BY DEF Main, Load, CheckPlan, Launch, LaunchProvenance, SpawnSamplers, LaunchControlPlane,
     CheckTarget, RejectTarget, SpawnSignalThread, SwapSelect, RunReturns,
     JoinAdoption, WriteStartup, Flush, JoinSamplers, WriteArtifacts, ShutdownProvenance,
     StopControl, Finish
<1>2. ~Trigger /\ ~Api /\ ~TargetRunner
  BY DEF Trigger, TriggerWakes, TriggerPrepares, Api, ApiShutdown, ApiBegins, ApiAnswered,
     ControlStops, TargetRunner, Adopts, Refuses, Reports, RollsBack, Runner
<1>3. ~Signal /\ ~NodeFails /\ ~NodesEnd /\ ~RecordAdoptedSwap /\ \A s \in Samplers : ~Sample(s)
  BY DEF Signal, NodeFails, NodesEnd, RecordAdoptedSwap, Sample
<1> QED
  BY <1>1, <1>2, <1>3 DEF Next, Exited

\* Every step keeps the types: what a rolled-back swap restores was recorded by
\* its adoption.
LEMMA RtTypesStep == ASSUME RuntimeAssumption, RtTypes, GuardInv, [Next]_vars PROVE RtTypes'
<1> USE DEF RuntimeAssumption, RtTypes, GuardInv, Labels, Boot, Wrapup, Samplers, Files, Alive
<1>1. CASE Load
  BY <1>1 DEF Load
<1>2. CASE CheckPlan
  BY <1>2 DEF CheckPlan
<1>3. CASE Launch
  BY <1>3 DEF Launch
<1>4. CASE LaunchProvenance
  BY <1>4 DEF LaunchProvenance, WriteProvenance
<1>5. CASE SpawnSamplers
  BY <1>5 DEF SpawnSamplers
<1>6. CASE LaunchControlPlane
  BY <1>6 DEF LaunchControlPlane
<1>7. CASE CheckTarget
  BY <1>7 DEF CheckTarget
<1>8. CASE RejectTarget
  BY <1>8 DEF RejectTarget
<1>9. CASE SpawnSignalThread
  BY <1>9 DEF SpawnSignalThread
<1>10. CASE SwapSelect
  <2>1. result' \in [swap : BOOLEAN, run : BOOLEAN]
    <3>1. [result EXCEPT !.swap = TRUE] \in [swap : BOOLEAN, run : BOOLEAN]
      OBVIOUS
    <3>2. result' \in {result, [result EXCEPT !.swap = TRUE]}
      BY <1>10 DEF SwapSelect, Dispatch
    <3> QED
      BY <3>1, <3>2
  <2>2. guard' \in {guard, "timed"}
    BY <1>10 DEF SwapSelect, Dispatch
  <2> QED
    BY <1>10, <2>1, <2>2 DEF SwapSelect, SelectDone
<1>11. CASE RunReturns
  BY <1>11 DEF RunReturns
<1>12. CASE JoinAdoption
  BY <1>12 DEF JoinAdoption
<1>13. CASE WriteStartup
  BY <1>13 DEF WriteStartup
<1>14. CASE Flush
  BY <1>14 DEF Flush
<1>15. CASE JoinSamplers
  BY <1>15 DEF JoinSamplers
<1>16. CASE WriteArtifacts
  BY <1>16 DEF WriteArtifacts
<1>17. CASE ShutdownProvenance
  BY <1>17 DEF ShutdownProvenance, WriteProvenance
<1>18. CASE StopControl
  BY <1>18 DEF StopControl
<1>19. CASE Finish
  BY <1>19 DEF Finish, ExitCode
<1>20. CASE Trigger
  BY <1>20 DEF Trigger, TriggerWakes, TriggerPrepares, TriggerUnchanged
<1>21. CASE Api
  BY <1>21 DEF Api, ApiShutdown, ApiBegins, ApiAnswered, ControlStops
<1>22. CASE TargetRunner
  BY <1>22 DEF TargetRunner, Adopts, Refuses, Reports, RollsBack, Runner
<1>23. CASE Signal
  BY <1>23 DEF Signal
<1>24. CASE NodeFails \/ NodesEnd
  BY <1>24 DEF NodeFails, NodesEnd
<1>25. CASE RecordAdoptedSwap
  BY <1>25 DEF RecordAdoptedSwap, WriteProvenance, Outcome
<1>26. ASSUME NEW s \in Samplers, Sample(s) PROVE RtTypes'
  BY <1>26 DEF Sample, Tick, LastSample
<1>27. CASE UNCHANGED vars
  BY <1>27 DEF vars
<1> QED
  BY <1>1, <1>2, <1>3, <1>4, <1>5, <1>6, <1>7, <1>8, <1>9, <1>10, <1>11, <1>12, <1>13, <1>14,
     <1>15, <1>16, <1>17, <1>18, <1>19, <1>20, <1>21, <1>22, <1>23, <1>24, <1>25, <1>26, <1>27
     DEF Next, Main, Exited

\* Every step keeps what RunInv says of the run: its result is taken when no
\* node is alive any more, and none comes back.
LEMMA RunInvStep == ASSUME RtTypes, RunInv, [Next]_vars PROVE RunInv'
<1> USE DEF RtTypes, RunInv, Labels, Boot, Wrapup, Alive
<1>1. CASE Load
  BY <1>1 DEF Load
<1>2. CASE CheckPlan
  BY <1>2 DEF CheckPlan
<1>3. CASE Launch
  <2>1. CASE pc' = "launchProvenance" /\ nodes' = "running" /\ UNCHANGED code
    BY <1>3, <2>1 DEF Launch
  <2>2. CASE \E c \in {"1", "2"} : Exit(c) /\ UNCHANGED nodes
    BY <1>3, <2>2 DEF Launch
  <2> QED
    BY <1>3, <2>1, <2>2 DEF Launch
<1>4. CASE LaunchProvenance
  BY <1>4 DEF LaunchProvenance, WriteProvenance
<1>5. CASE SpawnSamplers
  BY <1>5 DEF SpawnSamplers
<1>6. CASE LaunchControlPlane
  BY <1>6 DEF LaunchControlPlane
<1>7. CASE CheckTarget
  BY <1>7 DEF CheckTarget
<1>8. CASE RejectTarget
  BY <1>8 DEF RejectTarget
<1>9. CASE SpawnSignalThread
  BY <1>9 DEF SpawnSignalThread
<1>10. CASE SwapSelect
  BY <1>10 DEF SwapSelect, SelectDone, Dispatch
<1>11. CASE RunReturns
  BY <1>11 DEF RunReturns
<1>12. CASE JoinAdoption
  BY <1>12 DEF JoinAdoption
<1>13. CASE WriteStartup
  BY <1>13 DEF WriteStartup
<1>14. CASE Flush
  BY <1>14 DEF Flush
<1>15. CASE JoinSamplers
  BY <1>15 DEF JoinSamplers
<1>16. CASE WriteArtifacts
  BY <1>16 DEF WriteArtifacts
<1>17. CASE ShutdownProvenance
  BY <1>17 DEF ShutdownProvenance, WriteProvenance
<1>18. CASE StopControl
  BY <1>18 DEF StopControl
<1>19. CASE Finish
  BY <1>19 DEF Finish, ExitCode
<1>20. CASE Trigger
  BY <1>20 DEF Trigger, TriggerWakes, TriggerPrepares, TriggerUnchanged
<1>21. CASE Api
  BY <1>21 DEF Api, ApiShutdown, ApiBegins, ApiAnswered, ControlStops
<1>22. CASE TargetRunner
  BY <1>22 DEF TargetRunner, Adopts, Refuses, Reports, RollsBack, Runner
<1>23. CASE Signal
  BY <1>23 DEF Signal
<1>24. CASE NodeFails \/ NodesEnd
  BY <1>24 DEF NodeFails, NodesEnd
<1>25. CASE RecordAdoptedSwap
  BY <1>25 DEF RecordAdoptedSwap, WriteProvenance, Outcome
<1>26. ASSUME NEW s \in Samplers, Sample(s) PROVE RunInv'
  BY <1>26 DEF Sample, Tick, LastSample
<1>27. CASE UNCHANGED vars
  BY <1>27 DEF vars
<1> QED
  BY <1>1, <1>2, <1>3, <1>4, <1>5, <1>6, <1>7, <1>8, <1>9, <1>10, <1>11, <1>12, <1>13, <1>14,
     <1>15, <1>16, <1>17, <1>18, <1>19, <1>20, <1>21, <1>22, <1>23, <1>24, <1>25, <1>26, <1>27
     DEF Next, Main, Exited

\* Every step keeps SwapInv: the select leaves with a dispatch, a failure or a
\* cancel, and without the API and signals only a failed node has cancelled.
LEMMA SwapInvStep == ASSUME RtTypes, RunInv, SwapInv, [Next]_vars PROVE SwapInv'
<1> USE DEF RtTypes, SwapInv, Labels, Boot, Wrapup, Alive
<1>1. CASE Load
  BY <1>1 DEF Load
<1>2. CASE CheckPlan
  BY <1>2 DEF CheckPlan
<1>3. CASE Launch
  BY <1>3 DEF Launch, RunInv
<1>4. CASE LaunchProvenance
  BY <1>4 DEF LaunchProvenance, WriteProvenance
<1>5. CASE SpawnSamplers
  BY <1>5 DEF SpawnSamplers
<1>6. CASE LaunchControlPlane
  BY <1>6 DEF LaunchControlPlane
<1>7. CASE CheckTarget
  BY <1>7 DEF CheckTarget
<1>8. CASE RejectTarget
  BY <1>8 DEF RejectTarget
<1>9. CASE SpawnSignalThread
  BY <1>9 DEF SpawnSignalThread
<1>10. CASE SwapSelect
  BY <1>10 DEF SwapSelect, SelectDone, Dispatch
<1>11. CASE RunReturns
  BY <1>11 DEF RunReturns
<1>12. CASE JoinAdoption
  BY <1>12 DEF JoinAdoption
<1>13. CASE WriteStartup
  BY <1>13 DEF WriteStartup
<1>14. CASE Flush
  BY <1>14 DEF Flush
<1>15. CASE JoinSamplers
  BY <1>15 DEF JoinSamplers
<1>16. CASE WriteArtifacts
  BY <1>16 DEF WriteArtifacts
<1>17. CASE ShutdownProvenance
  BY <1>17 DEF ShutdownProvenance, WriteProvenance
<1>18. CASE StopControl
  BY <1>18 DEF StopControl
<1>19. CASE Finish
  BY <1>19 DEF Finish, ExitCode
<1>20. CASE Trigger
  BY <1>20 DEF Trigger, TriggerWakes, TriggerPrepares, TriggerUnchanged
<1>21. CASE Api
  BY <1>21 DEF Api, ApiShutdown, ApiBegins, ApiAnswered, ControlStops
<1>22. CASE TargetRunner
  BY <1>22 DEF TargetRunner, Adopts, Refuses, Reports, RollsBack, Runner
<1>23. CASE Signal
  BY <1>23 DEF Signal
<1>24. CASE NodeFails \/ NodesEnd
  BY <1>24 DEF NodeFails, NodesEnd
<1>25. CASE RecordAdoptedSwap
  BY <1>25 DEF RecordAdoptedSwap, WriteProvenance, Outcome
<1>26. ASSUME NEW s \in Samplers, Sample(s) PROVE SwapInv'
  BY <1>26 DEF Sample, Tick, LastSample
<1>27. CASE UNCHANGED vars
  BY <1>27 DEF vars
<1> QED
  BY <1>1, <1>2, <1>3, <1>4, <1>5, <1>6, <1>7, <1>8, <1>9, <1>10, <1>11, <1>12, <1>13, <1>14,
     <1>15, <1>16, <1>17, <1>18, <1>19, <1>20, <1>21, <1>22, <1>23, <1>24, <1>25, <1>26, <1>27
     DEF Next, Main, Exited

\* Every step keeps GuardInv: an API request that holds the guard excludes the
\* dispatch, and the adoption task gives it back only with the outcome.
LEMMA GuardInvStep == ASSUME RtTypes, RunInv, GuardInv, [Next]_vars PROVE GuardInv'
<1> USE DEF RtTypes, RunInv, GuardInv, Alive
<1>1. CASE Main /\ ~SwapSelect /\ ~RunReturns
  <2>1. UNCHANGED <<adoption, guard, target, replaced, runDone>>
    BY <1>1 DEF Main, Load, CheckPlan, Launch, LaunchProvenance, SpawnSamplers, LaunchControlPlane,
       CheckTarget, RejectTarget, SpawnSignalThread, JoinAdoption, WriteStartup,
       Flush, JoinSamplers, WriteArtifacts, ShutdownProvenance, StopControl, Finish
  <2> QED
    BY <2>1
<1>2. CASE SwapSelect
  BY <1>2 DEF SwapSelect, SelectDone, Dispatch
<1>3. CASE RunReturns
  BY <1>3 DEF RunReturns
<1>4. CASE Trigger
  BY <1>4 DEF Trigger, TriggerWakes, TriggerPrepares, TriggerUnchanged
<1>5. CASE Api
  BY <1>5 DEF Api, ApiShutdown, ApiBegins, ApiAnswered, ControlStops
<1>6. CASE TargetRunner
  BY <1>6 DEF TargetRunner, Adopts, Refuses, Reports, RollsBack, Runner
<1>7. CASE RecordAdoptedSwap
  BY <1>7 DEF RecordAdoptedSwap, Outcome
<1>8. CASE Signal \/ NodeFails \/ NodesEnd \/ (\E s \in Samplers : Sample(s)) \/ UNCHANGED vars
  BY <1>8 DEF Signal, NodeFails, NodesEnd, Sample, vars
<1> QED
  BY <1>1, <1>2, <1>3, <1>4, <1>5, <1>6, <1>7, <1>8 DEF Next, Exited

\* Every step keeps ArtInv: a sampler that has joined takes no more samples.
LEMMA ArtInvStep == ASSUME RuntimeAssumption, RtTypes, ArtInv, [Next]_vars PROVE ArtInv'
<1> USE DEF RuntimeAssumption, RtTypes, ArtInv, Labels, Boot, Wrapup, Samplers, Files
<1>1. CASE Load
  BY <1>1 DEF Load
<1>2. CASE CheckPlan
  BY <1>2 DEF CheckPlan
<1>3. CASE Launch
  BY <1>3 DEF Launch
<1>4. CASE LaunchProvenance
  BY <1>4 DEF LaunchProvenance, WriteProvenance
<1>5. CASE SpawnSamplers
  BY <1>5 DEF SpawnSamplers
<1>6. CASE LaunchControlPlane
  BY <1>6 DEF LaunchControlPlane
<1>7. CASE CheckTarget
  BY <1>7 DEF CheckTarget
<1>8. CASE RejectTarget
  BY <1>8 DEF RejectTarget
<1>9. CASE SpawnSignalThread
  BY <1>9 DEF SpawnSignalThread
<1>10. CASE SwapSelect
  BY <1>10 DEF SwapSelect, SelectDone, Dispatch
<1>11. CASE RunReturns
  BY <1>11 DEF RunReturns
<1>12. CASE JoinAdoption
  BY <1>12 DEF JoinAdoption
<1>13. CASE WriteStartup
  BY <1>13 DEF WriteStartup
<1>14. CASE Flush
  BY <1>14 DEF Flush
<1>15. CASE JoinSamplers
  BY <1>15 DEF JoinSamplers
<1>16. CASE WriteArtifacts
  BY <1>16 DEF WriteArtifacts
<1>17. CASE ShutdownProvenance
  BY <1>17 DEF ShutdownProvenance, WriteProvenance
<1>18. CASE StopControl
  BY <1>18 DEF StopControl
<1>19. CASE Finish
  BY <1>19 DEF Finish, ExitCode
<1>20. CASE Trigger
  BY <1>20 DEF Trigger, TriggerWakes, TriggerPrepares, TriggerUnchanged
<1>21. CASE Api
  BY <1>21 DEF Api, ApiShutdown, ApiBegins, ApiAnswered, ControlStops
<1>22. CASE TargetRunner
  BY <1>22 DEF TargetRunner, Adopts, Refuses, Reports, RollsBack, Runner
<1>23. CASE Signal
  BY <1>23 DEF Signal
<1>24. CASE NodeFails \/ NodesEnd
  BY <1>24 DEF NodeFails, NodesEnd
<1>25. CASE RecordAdoptedSwap
  BY <1>25 DEF RecordAdoptedSwap, WriteProvenance, Outcome
<1>26. ASSUME NEW s \in Samplers, Sample(s) PROVE ArtInv'
  BY <1>26 DEF Sample, Tick, LastSample
<1>27. CASE UNCHANGED vars
  BY <1>27 DEF vars
<1> QED
  BY <1>1, <1>2, <1>3, <1>4, <1>5, <1>6, <1>7, <1>8, <1>9, <1>10, <1>11, <1>12, <1>13, <1>14,
     <1>15, <1>16, <1>17, <1>18, <1>19, <1>20, <1>21, <1>22, <1>23, <1>24, <1>25, <1>26, <1>27
     DEF Next, Main, Exited

\* Every step keeps ProvInv: the adoption task is joined before the shutdown
\* write, so that no later write replaces it.
LEMMA ProvInvStep == ASSUME RtTypes, RunInv, SwapInv, ProvInv, [Next]_vars PROVE ProvInv'
<1> USE DEF RtTypes, RunInv, SwapInv, ProvInv, Wrapup, Alive, HasProvenance
<1>1. CASE Load
  BY <1>1 DEF Load
<1>2. CASE CheckPlan
  BY <1>2 DEF CheckPlan
<1>3. CASE Launch
  BY <1>3 DEF Launch
<1>4. CASE LaunchProvenance
  BY <1>4 DEF LaunchProvenance, WriteProvenance
<1>5. CASE SpawnSamplers
  BY <1>5 DEF SpawnSamplers
<1>6. CASE LaunchControlPlane
  BY <1>6 DEF LaunchControlPlane
<1>7. CASE CheckTarget
  BY <1>7 DEF CheckTarget
<1>8. CASE RejectTarget
  BY <1>8 DEF RejectTarget
<1>9. CASE SpawnSignalThread
  BY <1>9 DEF SpawnSignalThread
<1>10. CASE SwapSelect
  BY <1>10 DEF SwapSelect, SelectDone, Dispatch
<1>11. CASE RunReturns
  BY <1>11 DEF RunReturns
<1>12. CASE JoinAdoption
  BY <1>12 DEF JoinAdoption
<1>13. CASE WriteStartup
  BY <1>13 DEF WriteStartup
<1>14. CASE Flush
  BY <1>14 DEF Flush
<1>15. CASE JoinSamplers
  BY <1>15 DEF JoinSamplers
<1>16. CASE WriteArtifacts
  BY <1>16 DEF WriteArtifacts
<1>17. CASE ShutdownProvenance
  <2> SUFFICES ASSUME HasProvenance, "provenance" \notin MayFail PROVE ProvInv'
    BY <1>17 DEF ShutdownProvenance
  <2>1. PICK binary \in {TRUE} \cup {"binary" \notin MayFail} : WriteProvenance("shutdown", binary)
    BY <1>17 DEF ShutdownProvenance
  <2>2. provenance' = [at |-> "shutdown", plugin |-> live, binary |-> binary]
    BY <2>1 DEF WriteProvenance
  <2>3. binary \/ "binary" \in MayFail
    OBVIOUS
  <2> QED
    BY <1>17, <2>2, <2>3 DEF ShutdownProvenance
<1>18. CASE StopControl
  BY <1>18 DEF StopControl
<1>19. CASE Finish
  BY <1>19 DEF Finish, ExitCode
<1>20. CASE Trigger
  BY <1>20 DEF Trigger, TriggerWakes, TriggerPrepares, TriggerUnchanged
<1>21. CASE Api
  BY <1>21 DEF Api, ApiShutdown, ApiBegins, ApiAnswered, ControlStops
<1>22. CASE TargetRunner
  BY <1>22 DEF TargetRunner, Adopts, Refuses, Reports, RollsBack, Runner
<1>23. CASE Signal
  BY <1>23 DEF Signal
<1>24. CASE NodeFails \/ NodesEnd
  BY <1>24 DEF NodeFails, NodesEnd
<1>25. CASE RecordAdoptedSwap
  BY <1>25 DEF RecordAdoptedSwap, WriteProvenance, Outcome
<1>26. ASSUME NEW s \in Samplers, Sample(s) PROVE ProvInv'
  BY <1>26 DEF Sample, Tick, LastSample
<1>27. CASE UNCHANGED vars
  BY <1>27 DEF vars
<1> QED
  BY <1>1, <1>2, <1>3, <1>4, <1>5, <1>6, <1>7, <1>8, <1>9, <1>10, <1>11, <1>12, <1>13, <1>14,
     <1>15, <1>16, <1>17, <1>18, <1>19, <1>20, <1>21, <1>22, <1>23, <1>24, <1>25, <1>26, <1>27
     DEF Next, Main, Exited

\* The three reports are made by the step that exits, and no later step undoes
\* them.
LEMMA ReportsInit == Init => ExitTellsTheRun /\ ArtifactsWhole /\ ProvenanceNamesLive
  BY DEF Init, ExitTellsTheRun, ArtifactsWhole, ProvenanceNamesLive, RanToEnd, Samplers, Files

\* No task beside main sets an exit code, and the signal thread sets none of
\* main's.
LEMMA OthersExitNot ==
  ASSUME [Next]_vars, ~Main PROVE code' \in {code, "killed", "signal"}
<1>1. Trigger \/ Api \/ TargetRunner => code' = code
  BY DEF Trigger, TriggerWakes, TriggerPrepares, TriggerUnchanged, Api, ApiShutdown, ApiBegins,
     ApiAnswered, ControlStops, TargetRunner, Adopts, Refuses, Reports, RollsBack, Runner
<1>2. Signal => code' \in {code, "killed", "signal"}
  BY DEF Signal
<1>3. NodeFails \/ NodesEnd \/ RecordAdoptedSwap \/ (\E s \in Samplers : Sample(s)) => code' = code
  BY DEF NodeFails, NodesEnd, RecordAdoptedSwap, Sample
<1> QED
  BY <1>1, <1>2, <1>3 DEF Next, Exited, vars

\* An exit code that says the run came to its end is set by Finish alone.
LEMMA FinishExits ==
  ASSUME RtTypes, RunInv, pc # "exited", [Next]_vars,
         code' \in {"0", "3"} \/ (code' = "1" /\ (handler' \/ startupErr'))
  PROVE  Finish
<1> USE DEF RtTypes, RunInv, Labels, Boot, Wrapup
<1>1. CASE pc \in Boot
  <2>1. CASE Main
    BY <1>1, <2>1 DEF Main, Load, CheckPlan, Launch, LaunchProvenance, SpawnSamplers,
       LaunchControlPlane, CheckTarget, RejectTarget, SpawnSignalThread, SwapSelect,
       RunReturns, JoinAdoption, WriteStartup, Flush, JoinSamplers, WriteArtifacts,
       ShutdownProvenance, StopControl, Finish
  <2> QED
    BY <2>1, OthersExitNot
<1>2. CASE pc \notin Boot
  <2>1. CASE Main /\ ~Finish
    BY <1>2, <2>1 DEF Main, Load, CheckPlan, Launch, LaunchProvenance, SpawnSamplers,
       LaunchControlPlane, CheckTarget, RejectTarget, SpawnSignalThread, SwapSelect,
       SelectDone, RunReturns, JoinAdoption, WriteStartup, Flush, JoinSamplers, WriteArtifacts,
       ShutdownProvenance, StopControl
  <2> QED
    BY <2>1, OthersExitNot
<1> QED
  BY <1>1, <1>2

\* Finish makes the three reports true, every other exit says nothing of the
\* run, and after an exit nothing changes.
LEMMA ReportsStep ==
  ASSUME RuntimeAssumption, RtInv, RtInv', ExitTellsTheRun, ArtifactsWhole, ProvenanceNamesLive,
         [Next]_vars
  PROVE  ExitTellsTheRun' /\ ArtifactsWhole' /\ ProvenanceNamesLive'
<1>1. CASE pc = "exited"
  <2>1. UNCHANGED vars
    BY <1>1, ExitIsFinal
  <2> QED
    BY <2>1 DEF vars, ExitTellsTheRun, ArtifactsWhole, ProvenanceNamesLive, RanToEnd, HasProvenance
<1>2. CASE pc # "exited" /\ Finish
  <2> USE <1>2 DEF Finish, ExitCode
  <2>1. ExitTellsTheRun'
    BY DEF ExitTellsTheRun, RtInv, RtTypes, RunInv, SwapInv, Wrapup
  <2>2. ArtifactsWhole'
    BY DEF ArtifactsWhole, RtInv, ArtInv, RanToEnd, Samplers
  <2>3. ProvenanceNamesLive'
    BY DEF ProvenanceNamesLive, RtInv, ProvInv, HasProvenance
  <2> QED
    BY <2>1, <2>2, <2>3
<1>3. CASE pc # "exited" /\ ~Finish
  <2>1. ~(code' \in {"0", "3"} \/ (code' = "1" /\ (handler' \/ startupErr')))
    BY <1>3, FinishExits DEF RtInv
  <2> QED
    BY <2>1 DEF ExitTellsTheRun, ArtifactsWhole, ProvenanceNamesLive, RanToEnd, RtInv, ArtInv
<1> QED
  BY <1>1, <1>2, <1>3

\* The invariant is inductive.
LEMMA RtStep == ASSUME RuntimeAssumption, RtInv, [Next]_vars PROVE RtInv'
  BY RtTypesStep, RunInvStep, SwapInvStep, GuardInvStep, ArtInvStep, ProvInvStep DEF RtInv

\* The bounds the run checks follow from the invariant.
LEMMA RtTyped == ASSUME RuntimeAssumption, RtInv PROVE RtTypeOK
<1>1. \A s \in Samplers : taken[s] \in 0 .. MaxSamples + 1
  BY DEF RuntimeAssumption, RtInv, RtTypes, ArtInv
<1>2. taken \in [Samplers -> 0 .. MaxSamples + 1]
  BY <1>1 DEF RtInv, RtTypes
<1>3. (code = "none") = (pc # "exited")
  BY Zenon DEF RtInv, RunInv
<1> QED
  BY <1>2, <1>3 DEF RtInv, RtTypes, RtTypeOK

\* For every set of options, whatever may fail and however often the process is
\* signalled: the exit code never claims success for a run that failed or for
\* an undisturbed swap run without its swap, a finished benchmark has its
\* artifacts with every sample of its recorders, and the provenance it leaves
\* is the shutdown write and names the plugin that was live at the end.
THEOREM RunTellsItself == ASSUME RuntimeAssumption PROVE Spec => []RunReported
<1> DEFINE Inv == RtInv /\ ExitTellsTheRun /\ ArtifactsWhole /\ ProvenanceNamesLive
<1>1. Init => Inv
  BY RtInit, ReportsInit
<1>2. Inv /\ [Next]_vars => Inv'
  BY RtStep, ReportsStep
<1>3. Inv => RunReported
  BY RtTyped DEF RunReported
<1> QED
  BY <1>1, <1>2, <1>3, PTL DEF Spec

\* From the dispatch of the timed swap to its outcome the loaded plugin is
\* changed by the target's own runner alone: the mutation guard is the adoption
\* task's until the pipeline has ended.
THEOREM GuardProtectsTimedSwap == ASSUME RuntimeAssumption PROVE Spec => [][TimedSwapKept]_vars
<1>1. RtInv /\ [Next]_vars => TimedSwapKept \/ UNCHANGED vars
  <2> SUFFICES ASSUME RtInv, Next, target \in {"published", "adopted"}, target' = target
               PROVE  live' = live
    BY DEF TimedSwapKept
  <2>1. Main => UNCHANGED live
    BY DEF Main, Load, CheckPlan, Launch, LaunchProvenance, SpawnSamplers, LaunchControlPlane,
       CheckTarget, RejectTarget, SpawnSignalThread, SwapSelect, SelectDone,
       RunReturns, JoinAdoption, WriteStartup, Flush, JoinSamplers, WriteArtifacts,
       ShutdownProvenance, StopControl, Finish
  <2>2. Trigger => UNCHANGED live
    BY DEF Trigger, TriggerWakes, TriggerPrepares, TriggerUnchanged
  <2>3. Api => UNCHANGED live
    BY DEF Api, ApiShutdown, ApiBegins, ApiAnswered, ControlStops, RtInv, GuardInv, RunInv, Alive
  <2>4. ~TargetRunner
    BY DEF TargetRunner, Adopts, Refuses, Reports, RollsBack, Runner
  <2>5. Signal \/ NodeFails \/ NodesEnd \/ RecordAdoptedSwap \/ (\E s \in Samplers : Sample(s))
          => UNCHANGED live
    BY DEF Signal, NodeFails, NodesEnd, RecordAdoptedSwap, Sample
  <2> QED
    BY <2>1, <2>2, <2>3, <2>4, <2>5 DEF Next, Exited, vars
<1>2. Spec => []RtInv
  BY RtInit, RtStep, PTL DEF Spec
<1> QED
  BY <1>1, <1>2, PTL DEF Spec

-----------------------------------------------------------------------------
(***************************************************************************)
(* The launch of a pipeline, for any configurations: the invariant says    *)
(* what is behind each node from step to step, and what the plugins'       *)
(* hashes, the routers' ports and the clock have come to.                  *)
(***************************************************************************)
CONSTANTS None, Configs, Ports, MaxStep
VARIABLES cfg, todo, node, impl, declared, hashes, eligible, tasks, outcome, now, time, startup
Start == INSTANCE Launcher

Loaded == {"load", "native", "component", "instance", "ports"}
Phases == {"validate", "engine", "io", "build", "return", "running", "done"} \cup Loaded
InHand == {"native", "component", "instance", "ports"}

\* The tasks run, or run next.
Settled == pc = "return" \/ outcome = "ok"

StartTypes ==
  /\ cfg \in Configs /\ pc \in Phases
  /\ outcome \in {"none", "ok", "config", "error"}
  /\ todo \subseteq Start!Names(cfg) /\ tasks \in {{}, Start!Names(cfg)}
  /\ hashes \subseteq Start!Names(cfg) /\ eligible \subseteq Start!Names(cfg)
  /\ pc \in InHand => node \in Start!Names(cfg)
  /\ impl \in [Start!Names(cfg) -> {"none", "io", "native", "wasm"}]
  /\ declared \in [Start!Names(cfg) -> SUBSET Ports]

\* Nothing runs before the launch is past its last failure.
Whole ==
  /\ pc \notin {"running", "done"} => outcome = "none"
  /\ pc = "running" => outcome = "ok"
  /\ tasks # {} => Settled
  /\ pc # "validate" /\ (pc = "done" => outcome = "ok") => Start!Valid(cfg)

\* What stands behind a node is of its kind, and no plugin before the first is
\* loaded.
Io == Start!OfKind(cfg, "source") \cup Start!OfKind(cfg, "sink")
Has(n) == impl[n] # "none"

Fitting ==
  /\ \A n \in Start!Names(cfg) :
       /\ impl[n] = "io" => n \in Io
       /\ impl[n] = "native" => cfg.nodes[n].native
       /\ impl[n] = "wasm" => ~cfg.nodes[n].native
  /\ pc \in {"validate", "engine", "io", "build"} =>
       hashes = {} /\ \A n \in Start!Names(cfg) : impl[n] \in {"none", "io"}
  /\ pc = "io" => todo \subseteq Io
  /\ pc = "native" => cfg.nodes[node].native
  /\ pc \in InHand \ {"native"} => ~cfg.nodes[node].native

\* A node that is in no list any more has something behind it.
Filled ==
  /\ pc = "io" => \A n \in Io : Has(n) \/ n \in todo
  /\ pc \in {"build"} \cup Loaded \/ Settled => \A n \in Io : Has(n)
  /\ pc \in Loaded =>
       \A n \in Start!Names(cfg) : Has(n) \/ n \in todo \/ (pc \in InHand /\ n = node)
  /\ pc = "ports" => impl[node] = "wasm"
  /\ Settled => \A n \in Start!Names(cfg) : Has(n)

\* The recorded hashes are those of the nodes behind which a plugin stands, and
\* of the one whose component is about to be instantiated.
Hashed ==
  /\ pc \in Loaded \/ Settled =>
       \A n \in Start!Names(cfg) : n \in hashes <=> impl[n] = "wasm" \/ (pc = "instance" /\ n = node)
  /\ Settled => \A n \in Start!Names(cfg) : n \in eligible <=> impl[n] = "wasm"

\* A router that is loaded declares the ports its edges use.
Routed ==
  \A n \in Start!OfKind(cfg, "router") :
    impl[n] = "wasm" /\ (pc \in Loaded \/ Settled) /\ ~(pc = "ports" /\ n = node) =>
      Start!UndeclaredPorts(cfg, n, declared[n]) = {}

Stamped ==
  /\ now \in Nat
  /\ time \in [launch : Nat, load : Nat, inst : Nat, phase : Nat, active : Nat, first : Nat]
  /\ pc \in {"validate", "engine", "io", "build"} => time.load = 0 /\ time.inst = 0
  /\ time.phase <= now /\ time.launch + time.load + time.inst <= now
  /\ pc \in {"component", "instance"} => time.launch + time.load + time.inst <= time.phase
  /\ Settled => time.launch + time.load + time.inst <= time.active /\ time.active <= now
  /\ startup \in {"none", "written", "noPlugin", "messages"}
  /\ startup \in {"none", "written", "noPlugin", "messages"}
  /\ startup \in {"none", "written", "noPlugin", "messages"}
  /\ startup \in {"none", "written", "noPlugin", "messages"}
  /\ startup \in {"none", "written", "noPlugin", "messages"}
  /\ startup \in {"none", "written", "noPlugin", "messages"}
  /\ startup = "written" => Settled /\ time.active <= time.first

StartInv == StartTypes /\ Whole /\ Fitting /\ Filled /\ Hashed /\ Routed /\ Stamped

LEMMA StartInvInit == ASSUME Start!LauncherAssumption, Start!Init PROVE StartInv
  <1>1. StartTypes /\ Whole
    BY DEF Start!Init, StartTypes, Whole, Settled, Phases, Loaded, InHand
  <1>2. Fitting /\ Filled /\ Hashed /\ Routed
    BY DEF Start!Init, Fitting, Filled, Hashed, Routed, Settled, Loaded, InHand, Has
  <1>3. Stamped
    BY DEF Start!Init, Stamped, Settled
  <1> QED BY <1>1, <1>2, <1>3 DEF StartInv

LEMMA KindsKnown ==
  /\ \A c, k : Start!OfKind(c, k) \subseteq Start!Names(c)
  /\ UNCHANGED cfg => \A k : Start!OfKind(cfg, k)' = Start!OfKind(cfg, k)
  BY DEF Start!OfKind, Start!Names

\* What happens to the node in hand.
LEMMA InstantiatedIs ==
  ASSUME StartTypes, NEW k, NEW ports \in SUBSET Ports, NEW next, Start!Instantiated(k, ports, next)
  PROVE  /\ pc = "instance" /\ cfg.nodes[node].kind = k
         /\ UNCHANGED <<cfg, todo, node, hashes, eligible, tasks, startup>>
         /\ \/ /\ pc' = next /\ outcome' = outcome
               /\ \A n \in Start!Names(cfg) : /\ impl'[n] = IF n = node THEN "wasm" ELSE impl[n]
                                              /\ declared'[n] = IF n = node THEN ports ELSE declared[n]
            \/ /\ pc' = "done" /\ outcome' \in {"config", "error"}
               /\ UNCHANGED <<impl, declared>>
  BY DEF Start!Instantiated, Start!Fail, StartTypes

LEMMA BuiltIs ==
  ASSUME StartTypes, NEW k, Start!BuildNative(k)
  PROVE  /\ pc = "native" /\ cfg.nodes[node].kind = k
         /\ UNCHANGED <<cfg, todo, node, declared, hashes, eligible, tasks, time, startup>>
         /\ \/ /\ pc' = "load" /\ outcome' = outcome
               /\ \A n \in Start!Names(cfg) : impl'[n] = IF n = node THEN "native" ELSE impl[n]
            \/ pc' = "done" /\ outcome' = "config" /\ impl' = impl
  BY DEF Start!BuildNative, Start!Fail, StartTypes

LEMMA IoIs ==
  ASSUME StartTypes, Start!CreateIo
  PROVE  /\ pc = "io"
         /\ UNCHANGED <<cfg, node, declared, hashes, eligible, tasks, time, startup>>
         /\ \/ todo = {} /\ pc' = "build" /\ UNCHANGED <<todo, impl, outcome>>
            \/ /\ pc' = pc /\ outcome' = outcome
               /\ \E m \in todo :
                     /\ todo' = todo \ {m}
                     /\ \A n \in Start!Names(cfg) : impl'[n] = IF n = m THEN "io" ELSE impl[n]
            \/ pc' = "done" /\ outcome' = "config" /\ UNCHANGED <<todo, impl>>
  BY DEF Start!CreateIo, Start!Fail, StartTypes

LEMMA StartTypesStep ==
  ASSUME StartTypes, Whole, [Start!Next]_(Start!vars)
  PROVE  StartTypes'
  <1> USE DEF StartTypes, Whole, Settled, Phases, Loaded, InHand
  <1>1. CASE Start!Validate
    BY <1>1 DEF Start!Validate, Start!Loading, Start!Fail
  <1>2. CASE Start!CreateEngine
    BY <1>2 DEF Start!CreateEngine, Start!Loading, Start!Fail, Start!OfKind
  <1>3. CASE Start!CreateIo
    BY <1>3 DEF Start!CreateIo, Start!Loading, Start!Fail
  <1>4. CASE Start!Build
    BY <1>4 DEF Start!Build, Start!Loading, Start!Fail
  <1>5. CASE Start!StartNode
    BY <1>5 DEF Start!StartNode, Start!Loading
  <1>6. CASE Start!BuildNativeTransform
    BY <1>6 DEF Start!BuildNativeTransform, Start!BuildNative, Start!Loading, Start!Fail
  <1>7. CASE Start!BuildNativeFilter
    BY <1>7 DEF Start!BuildNativeFilter, Start!BuildNative, Start!Loading, Start!Fail
  <1>8. CASE Start!LoadComponent
    BY <1>8 DEF Start!LoadComponent, Start!Loading, Start!Fail
  <1>9. CASE Start!LoadTransformNode
    BY <1>9 DEF Start!LoadTransformNode, Start!Instantiated, Start!Loading, Start!Fail
  <1>10. CASE Start!LoadFilterNode
    BY <1>10 DEF Start!LoadFilterNode, Start!Instantiated, Start!Loading, Start!Fail
  <1>11. CASE Start!LoadRouterNode
    BY <1>11 DEF Start!LoadRouterNode, Start!Instantiated, Start!Loading, Start!Fail
  <1>12. CASE Start!CheckRouterPorts
    BY <1>12 DEF Start!CheckRouterPorts, Start!Loading, Start!Fail
  <1>13. CASE Start!Activate
    BY <1>13 DEF Start!Activate, Start!Replaceable, Start!Loading
  <1>14. CASE Start!Return
    BY <1>14 DEF Start!Return, Start!Loading
  <1>15. CASE Start!WriteStartup
    BY <1>15 DEF Start!WriteStartup, Start!Loading
  <1>16. CASE UNCHANGED Start!vars
    BY <1>16 DEF Start!vars, Start!Loading
  <1> QED
    BY <1>1, <1>2, <1>3, <1>4, <1>5, <1>6, <1>7, <1>8, <1>9, <1>10, <1>11, <1>12, <1>13, <1>14, <1>15, <1>16
    DEF Start!Next

LEMMA WholeStep ==
  ASSUME StartTypes, Whole, [Start!Next]_(Start!vars)
  PROVE  Whole'
  <1> USE DEF StartTypes, Whole, Settled, Phases, Loaded, InHand
  <1>1. CASE Start!Validate
    BY <1>1 DEF Start!Validate, Start!Loading, Start!Fail
  <1>2. CASE Start!CreateEngine
    BY <1>2 DEF Start!CreateEngine, Start!Loading, Start!Fail
  <1>3. CASE Start!CreateIo
    BY <1>3 DEF Start!CreateIo, Start!Loading, Start!Fail
  <1>4. CASE Start!Build
    BY <1>4 DEF Start!Build, Start!Loading, Start!Fail
  <1>5. CASE Start!StartNode
    BY <1>5 DEF Start!StartNode, Start!Loading
  <1>6. CASE Start!BuildNativeTransform
    BY <1>6 DEF Start!BuildNativeTransform, Start!BuildNative, Start!Loading, Start!Fail
  <1>7. CASE Start!BuildNativeFilter
    BY <1>7 DEF Start!BuildNativeFilter, Start!BuildNative, Start!Loading, Start!Fail
  <1>8. CASE Start!LoadComponent
    BY <1>8 DEF Start!LoadComponent, Start!Loading, Start!Fail
  <1>9. CASE Start!LoadTransformNode
    BY <1>9 DEF Start!LoadTransformNode, Start!Instantiated, Start!Loading, Start!Fail
  <1>10. CASE Start!LoadFilterNode
    BY <1>10 DEF Start!LoadFilterNode, Start!Instantiated, Start!Loading, Start!Fail
  <1>11. CASE Start!LoadRouterNode
    BY <1>11 DEF Start!LoadRouterNode, Start!Instantiated, Start!Loading, Start!Fail
  <1>12. CASE Start!CheckRouterPorts
    BY <1>12 DEF Start!CheckRouterPorts, Start!Loading, Start!Fail
  <1>13. CASE Start!Activate
    BY <1>13 DEF Start!Activate, Start!Replaceable, Start!Loading
  <1>14. CASE Start!Return
    BY <1>14 DEF Start!Return, Start!Loading
  <1>15. CASE Start!WriteStartup
    BY <1>15 DEF Start!WriteStartup, Start!Loading
  <1>16. CASE UNCHANGED Start!vars
    BY <1>16 DEF Start!vars, Start!Loading
  <1> QED
    BY <1>1, <1>2, <1>3, <1>4, <1>5, <1>6, <1>7, <1>8, <1>9, <1>10, <1>11, <1>12, <1>13, <1>14, <1>15, <1>16
    DEF Start!Next

LEMMA FittingStep ==
  ASSUME StartTypes, Whole, Fitting, [Start!Next]_(Start!vars)
  PROVE  Fitting'
  <1> USE DEF StartTypes, Whole, Settled, Phases, Loaded, InHand, Fitting, Io
  <1>1. CASE Start!Validate
    BY <1>1 DEF Start!Validate, Start!Loading, Start!Fail
  <1>2. CASE Start!CreateEngine
    BY <1>2 DEF Start!CreateEngine, Start!Loading, Start!Fail
  <1>3. CASE Start!CreateIo
    BY <1>3, IoIs, KindsKnown
  <1>4. CASE Start!Build
    BY <1>4 DEF Start!Build, Start!Loading, Start!Fail
  <1>5. CASE Start!StartNode
    BY <1>5 DEF Start!StartNode, Start!Loading
  <1>6. CASE Start!LoadComponent
    BY <1>6 DEF Start!LoadComponent, Start!Loading, Start!Fail
  <1>7. CASE Start!CheckRouterPorts
    BY <1>7 DEF Start!CheckRouterPorts, Start!Loading, Start!Fail
  <1>8. CASE Start!Activate
    BY <1>8 DEF Start!Activate, Start!Replaceable, Start!Loading
  <1>9. CASE Start!Return
    BY <1>9 DEF Start!Return, Start!Loading
  <1>10. CASE Start!WriteStartup
    BY <1>10 DEF Start!WriteStartup, Start!Loading
  <1>11. ASSUME NEW k \in {"transform", "filter"}, Start!BuildNative(k) PROVE Fitting'
    <2>1. CASE pc' = "load"
      BY <1>11, <2>1, BuiltIs, KindsKnown
    <2>2. CASE pc' = "done"
      BY <1>11, <2>2, BuiltIs, KindsKnown
    <2> QED BY <1>11, <2>1, <2>2, BuiltIs, KindsKnown
  <1>12. ASSUME NEW k \in Start!Processing, NEW ports \in SUBSET Ports,
                NEW next \in {"load", "ports"}, (k = "router") = (next = "ports"),
                Start!Instantiated(k, ports, next)
         PROVE  Fitting'
    <2>0. pc = "instance" /\ node \in Start!Names(cfg) /\ cfg' = cfg /\ node' = node
          /\ todo' = todo /\ hashes' = hashes /\ eligible' = eligible /\ tasks' = tasks
      BY <1>12, InstantiatedIs
    <2>1. ASSUME pc' = next
          PROVE  /\ outcome' = outcome
                 /\ \A n \in Start!Names(cfg) : /\ impl'[n] = IF n = node THEN "wasm" ELSE impl[n]
                                                /\ declared'[n] = IF n = node THEN ports ELSE declared[n]
      BY <1>12, <2>1, InstantiatedIs
    <2>2. CASE pc' = next /\ next = "load"
      BY <1>12, <2>0, <2>1, <2>2, KindsKnown
    <2>3. CASE pc' = next /\ next = "ports"
      BY <1>12, <2>0, <2>1, <2>3, KindsKnown
    <2>4. CASE pc' = "done"
      BY <1>12, <2>4, InstantiatedIs, KindsKnown
    <2> QED BY <1>12, <2>2, <2>3, <2>4, InstantiatedIs
  <1>13. CASE UNCHANGED Start!vars
    BY <1>13 DEF Start!vars, Start!Loading
  <1> QED
    BY <1>1, <1>2, <1>3, <1>4, <1>5, <1>6, <1>7, <1>8, <1>9, <1>10, <1>11, <1>12, <1>13
    DEF Start!Next, Start!Processing, Start!BuildNativeTransform, Start!BuildNativeFilter,
        Start!LoadTransformNode, Start!LoadFilterNode, Start!LoadRouterNode

LEMMA FilledStep ==
  ASSUME StartTypes, Whole, Filled, Start!LauncherAssumption, [Start!Next]_(Start!vars)
  PROVE  Filled'
  <1> USE DEF StartTypes, Whole, Settled, Phases, Loaded, InHand, Filled, Has, Io
  <1>1. CASE Start!Validate
    BY <1>1 DEF Start!Validate, Start!Loading, Start!Fail
  <1>2. CASE Start!CreateEngine
    BY <1>2 DEF Start!CreateEngine, Start!Loading, Start!Fail
  <1>3. CASE Start!CreateIo
    BY <1>3, IoIs, KindsKnown
  <1>4. CASE Start!Build
    BY <1>4
    DEF Start!Build, Start!Loading, Start!Fail, Start!OfKind, Start!LauncherAssumption, Start!Categories, Start!Processing
  <1>5. CASE Start!StartNode
    BY <1>5 DEF Start!StartNode, Start!Loading
  <1>6. CASE Start!LoadComponent
    BY <1>6 DEF Start!LoadComponent, Start!Loading, Start!Fail
  <1>7. CASE Start!CheckRouterPorts
    BY <1>7 DEF Start!CheckRouterPorts, Start!Loading, Start!Fail
  <1>8. CASE Start!Activate
    BY <1>8 DEF Start!Activate, Start!Replaceable, Start!Loading
  <1>9. CASE Start!Return
    BY <1>9 DEF Start!Return, Start!Loading
  <1>10. CASE Start!WriteStartup
    BY <1>10 DEF Start!WriteStartup, Start!Loading
  <1>11. ASSUME NEW k \in {"transform", "filter"}, Start!BuildNative(k) PROVE Filled'
    <2>1. CASE pc' = "load"
      BY <1>11, <2>1, BuiltIs, KindsKnown
    <2>2. CASE pc' = "done"
      BY <1>11, <2>2, BuiltIs, KindsKnown
    <2> QED BY <1>11, <2>1, <2>2, BuiltIs, KindsKnown
  <1>12. ASSUME NEW k \in Start!Processing, NEW ports \in SUBSET Ports,
                NEW next \in {"load", "ports"}, (k = "router") = (next = "ports"),
                Start!Instantiated(k, ports, next)
         PROVE  Filled'
    <2>0. pc = "instance" /\ node \in Start!Names(cfg) /\ cfg' = cfg /\ node' = node
          /\ todo' = todo /\ hashes' = hashes /\ eligible' = eligible /\ tasks' = tasks
      BY <1>12, InstantiatedIs
    <2>1. ASSUME pc' = next
          PROVE  /\ outcome' = outcome
                 /\ \A n \in Start!Names(cfg) : /\ impl'[n] = IF n = node THEN "wasm" ELSE impl[n]
                                                /\ declared'[n] = IF n = node THEN ports ELSE declared[n]
      BY <1>12, <2>1, InstantiatedIs
    <2>2. CASE pc' = next /\ next = "load"
      BY <1>12, <2>0, <2>1, <2>2, KindsKnown
    <2>3. CASE pc' = next /\ next = "ports"
      BY <1>12, <2>0, <2>1, <2>3, KindsKnown
    <2>4. CASE pc' = "done"
      BY <1>12, <2>4, InstantiatedIs, KindsKnown
    <2> QED BY <1>12, <2>2, <2>3, <2>4, InstantiatedIs
  <1>13. CASE UNCHANGED Start!vars
    BY <1>13 DEF Start!vars, Start!Loading
  <1> QED
    BY <1>1, <1>2, <1>3, <1>4, <1>5, <1>6, <1>7, <1>8, <1>9, <1>10, <1>11, <1>12, <1>13
    DEF Start!Next, Start!Processing, Start!BuildNativeTransform, Start!BuildNativeFilter,
        Start!LoadTransformNode, Start!LoadFilterNode, Start!LoadRouterNode

LEMMA HashedStep ==
  ASSUME StartTypes, Whole, Fitting, Filled, Hashed, [Start!Next]_(Start!vars)
  PROVE  Hashed'
  <1> USE DEF StartTypes, Whole, Settled, Phases, Loaded, InHand, Fitting, Filled, Hashed
  <1>1. CASE Start!Validate
    BY <1>1 DEF Start!Validate, Start!Loading, Start!Fail
  <1>2. CASE Start!CreateEngine
    BY <1>2 DEF Start!CreateEngine, Start!Loading, Start!Fail
  <1>3. CASE Start!CreateIo
    BY <1>3, IoIs, KindsKnown
  <1>4. CASE Start!Build
    BY <1>4 DEF Start!Build, Start!Loading, Start!Fail
  <1>5. CASE Start!StartNode
    BY <1>5 DEF Start!StartNode, Start!Loading
  <1>6. CASE Start!LoadComponent
    BY <1>6 DEF Start!LoadComponent, Start!Loading, Start!Fail
  <1>7. CASE Start!CheckRouterPorts
    BY <1>7 DEF Start!CheckRouterPorts, Start!Loading, Start!Fail
  <1>8. CASE Start!Activate
    BY <1>8 DEF Start!Activate, Start!Replaceable, Start!Loading
  <1>9. CASE Start!Return
    BY <1>9 DEF Start!Return, Start!Loading
  <1>10. CASE Start!WriteStartup
    BY <1>10 DEF Start!WriteStartup, Start!Loading
  <1>11. ASSUME NEW k \in {"transform", "filter"}, Start!BuildNative(k) PROVE Hashed'
    <2>1. CASE pc' = "load"
      BY <1>11, <2>1, BuiltIs, KindsKnown
    <2>2. CASE pc' = "done"
      BY <1>11, <2>2, BuiltIs, KindsKnown
    <2> QED BY <1>11, <2>1, <2>2, BuiltIs, KindsKnown
  <1>12. ASSUME NEW k \in Start!Processing, NEW ports \in SUBSET Ports,
                NEW next \in {"load", "ports"}, (k = "router") = (next = "ports"),
                Start!Instantiated(k, ports, next)
         PROVE  Hashed'
    <2>0. pc = "instance" /\ node \in Start!Names(cfg) /\ cfg' = cfg /\ node' = node
          /\ todo' = todo /\ hashes' = hashes /\ eligible' = eligible /\ tasks' = tasks
      BY <1>12, InstantiatedIs
    <2>1. ASSUME pc' = next
          PROVE  /\ outcome' = outcome
                 /\ \A n \in Start!Names(cfg) : /\ impl'[n] = IF n = node THEN "wasm" ELSE impl[n]
                                                /\ declared'[n] = IF n = node THEN ports ELSE declared[n]
      BY <1>12, <2>1, InstantiatedIs
    <2>2. CASE pc' = next /\ next = "load"
      BY <1>12, <2>0, <2>1, <2>2, KindsKnown
    <2>3. CASE pc' = next /\ next = "ports"
      BY <1>12, <2>0, <2>1, <2>3, KindsKnown
    <2>4. CASE pc' = "done"
      BY <1>12, <2>4, InstantiatedIs, KindsKnown
    <2> QED BY <1>12, <2>2, <2>3, <2>4, InstantiatedIs
  <1>13. CASE UNCHANGED Start!vars
    BY <1>13 DEF Start!vars, Start!Loading
  <1> QED
    BY <1>1, <1>2, <1>3, <1>4, <1>5, <1>6, <1>7, <1>8, <1>9, <1>10, <1>11, <1>12, <1>13
    DEF Start!Next, Start!Processing, Start!BuildNativeTransform, Start!BuildNativeFilter,
        Start!LoadTransformNode, Start!LoadFilterNode, Start!LoadRouterNode

LEMMA RoutedStep ==
  ASSUME StartTypes, Whole, Fitting, Filled, Routed, [Start!Next]_(Start!vars)
  PROVE  Routed'
  <1> USE DEF StartTypes, Whole, Settled, Phases, Loaded, InHand, Filled, Routed
  <1>1. CASE Start!Validate
    BY <1>1 DEF Start!Validate, Start!Loading, Start!Fail
  <1>2. CASE Start!CreateEngine
    BY <1>2 DEF Start!CreateEngine, Start!Loading, Start!Fail
  <1>3. CASE Start!CreateIo
    BY <1>3, IoIs, KindsKnown
  <1>4. CASE Start!Build
    BY <1>4, KindsKnown DEF Start!Build, Start!Loading, Start!Fail, Fitting
  <1>5. CASE Start!StartNode
    BY <1>5 DEF Start!StartNode, Start!Loading
  <1>6. CASE Start!LoadComponent
    BY <1>6 DEF Start!LoadComponent, Start!Loading, Start!Fail
  <1>7. CASE Start!CheckRouterPorts
    BY <1>7 DEF Start!CheckRouterPorts, Start!Loading, Start!Fail
  <1>8. CASE Start!Activate
    BY <1>8 DEF Start!Activate, Start!Replaceable, Start!Loading
  <1>9. CASE Start!Return
    BY <1>9 DEF Start!Return, Start!Loading
  <1>10. CASE Start!WriteStartup
    BY <1>10 DEF Start!WriteStartup, Start!Loading
  <1>11. ASSUME NEW k \in {"transform", "filter"}, Start!BuildNative(k) PROVE Routed'
    <2>1. CASE pc' = "load"
      BY <1>11, <2>1, BuiltIs, KindsKnown
    <2>2. CASE pc' = "done"
      BY <1>11, <2>2, BuiltIs, KindsKnown
    <2> QED BY <1>11, <2>1, <2>2, BuiltIs, KindsKnown
  <1>12. ASSUME NEW k \in Start!Processing, NEW ports \in SUBSET Ports,
                NEW next \in {"load", "ports"}, (k = "router") = (next = "ports"),
                Start!Instantiated(k, ports, next)
         PROVE  Routed'
    <2>0. pc = "instance" /\ node \in Start!Names(cfg) /\ cfg' = cfg /\ node' = node
          /\ todo' = todo /\ hashes' = hashes /\ eligible' = eligible /\ tasks' = tasks
      BY <1>12, InstantiatedIs
    <2>1. ASSUME pc' = next
          PROVE  /\ outcome' = outcome
                 /\ \A n \in Start!Names(cfg) : /\ impl'[n] = IF n = node THEN "wasm" ELSE impl[n]
                                                /\ declared'[n] = IF n = node THEN ports ELSE declared[n]
      BY <1>12, <2>1, InstantiatedIs
    <2>2. CASE pc' = next /\ next = "load"
      BY <1>12, <2>0, <2>1, <2>2, InstantiatedIs, KindsKnown DEF Start!OfKind
    <2>3. CASE pc' = next /\ next = "ports"
      BY <1>12, <2>0, <2>1, <2>3, KindsKnown
    <2>4. CASE pc' = "done"
      BY <1>12, <2>4, InstantiatedIs, KindsKnown
    <2> QED BY <1>12, <2>2, <2>3, <2>4, InstantiatedIs
  <1>13. CASE UNCHANGED Start!vars
    BY <1>13 DEF Start!vars, Start!Loading
  <1> QED
    BY <1>1, <1>2, <1>3, <1>4, <1>5, <1>6, <1>7, <1>8, <1>9, <1>10, <1>11, <1>12, <1>13
    DEF Start!Next, Start!Processing, Start!BuildNativeTransform, Start!BuildNativeFilter,
        Start!LoadTransformNode, Start!LoadFilterNode, Start!LoadRouterNode

LEMMA StampedStep ==
  ASSUME StartTypes, Whole, Stamped, Start!LauncherAssumption, [Start!Next]_(Start!vars)
  PROVE  Stamped'
  <1> USE DEF StartTypes, Whole, Settled, Phases, Loaded, InHand, Stamped, Start!LauncherAssumption
  <1>1. CASE Start!Validate
    BY <1>1 DEF Start!Validate, Start!Loading, Start!Fail, Start!Tick
  <1>2. CASE Start!CreateEngine
    BY <1>2 DEF Start!CreateEngine, Start!Loading, Start!Fail, Start!Tick
  <1>3. CASE Start!CreateIo
    BY <1>3 DEF Start!CreateIo, Start!Loading, Start!Fail, Start!Tick
  <1>4. CASE Start!Build
    BY <1>4 DEF Start!Build, Start!Loading, Start!Fail, Start!Tick
  <1>5. CASE Start!StartNode
    BY <1>5 DEF Start!StartNode, Start!Loading
  <1>6. CASE Start!BuildNativeTransform
    BY <1>6 DEF Start!BuildNativeTransform, Start!BuildNative, Start!Loading, Start!Fail, Start!Tick
  <1>7. CASE Start!BuildNativeFilter
    BY <1>7 DEF Start!BuildNativeFilter, Start!BuildNative, Start!Loading, Start!Fail, Start!Tick
  <1>8. CASE Start!LoadComponent
    <2>1. PICK d \in 0 .. MaxStep : now' = now + d
      BY <1>8 DEF Start!LoadComponent, Start!Tick
    <2>2. /\ pc = "component" /\ startup' = startup /\ ~Settled /\ ~Settled'
          /\ pc' \in {"instance", "done"}
      BY <1>8 DEF Start!LoadComponent, Start!Loading, Start!Fail
    <2>3. \/ time' = time
          \/ time' = [time EXCEPT !.load = time.load + (now' - time.phase), !.phase = now']
      BY <1>8 DEF Start!LoadComponent
    <2>4. now' - time.phase \in Nat /\ now' \in Nat /\ time.load + (now' - time.phase) \in Nat
      BY <2>1
    <2>5. CASE time' = time /\ pc' = "done"
      BY <2>1, <2>2, <2>5
    <2>6. CASE time' = [time EXCEPT !.load = time.load + (now' - time.phase), !.phase = now']
      <3>1. /\ time'.load = time.load + (now' - time.phase) /\ time'.phase = now'
            /\ time'.launch = time.launch /\ time'.inst = time.inst
            /\ time' \in [launch : Nat, load : Nat, inst : Nat, phase : Nat, active : Nat, first : Nat]
        BY <2>4, <2>6
      <3>2. time'.launch + time'.load + time'.inst <= now'
        BY <2>1, <2>2, <3>1
      <3> QED BY <2>1, <2>2, <2>4, <3>1, <3>2
    <2> QED BY <1>8, <2>3, <2>5, <2>6 DEF Start!LoadComponent, Start!Fail
  <1>9. CASE Start!LoadTransformNode
    BY <1>9 DEF Start!LoadTransformNode, Start!Instantiated, Start!Loading, Start!Fail, Start!Tick
  <1>10. CASE Start!LoadFilterNode
    BY <1>10 DEF Start!LoadFilterNode, Start!Instantiated, Start!Loading, Start!Fail, Start!Tick
  <1>11. CASE Start!LoadRouterNode
    BY <1>11 DEF Start!LoadRouterNode, Start!Instantiated, Start!Loading, Start!Fail, Start!Tick
  <1>12. CASE Start!CheckRouterPorts
    BY <1>12 DEF Start!CheckRouterPorts, Start!Loading, Start!Fail, Start!Tick
  <1>13. CASE Start!Activate
    BY <1>13 DEF Start!Activate, Start!Replaceable, Start!Loading, Start!Tick
  <1>14. CASE Start!Return
    BY <1>14 DEF Start!Return, Start!Loading, Start!Tick
  <1>15. CASE Start!WriteStartup
    <2>1. PICK d \in 0 .. MaxStep : now' = now + d
      BY <1>15 DEF Start!WriteStartup, Start!Tick
    <2>2. /\ pc = "running" /\ pc' = "done" /\ outcome = "ok" /\ outcome' = "ok"
          /\ time' = [time EXCEPT !.first = now']
          /\ \E m \in 1 .. 2 : startup' = Start!StartupVerdict(now', m)
      BY <1>15 DEF Start!WriteStartup
    <2>3. /\ ~(now' < time'.active) /\ ~(time'.load + time'.inst > time'.active - time'.launch)
          /\ now' \in Nat
      BY <2>1, <2>2
    <2>4. ASSUME NEW m \in 1 .. 2
          PROVE  Start!StartupVerdict(now', m) \in {"written", "noPlugin", "messages"}
      <3>1. time.active - time.launch - time.load - time.inst \in Nat
        BY <2>2
      <3>2. Start!PhaseTotal(now') = now'
        BY <2>1, <2>2, <3>1 DEF Start!PhaseTotal
      <3> QED BY <2>1, <2>2, <2>3, <3>2 DEF Start!StartupVerdict, Start!Tolerance
    <2> QED BY <2>1, <2>2, <2>3, <2>4
  <1>16. CASE UNCHANGED Start!vars
    BY <1>16 DEF Start!vars, Start!Loading
  <1> QED
    BY <1>1, <1>2, <1>3, <1>4, <1>5, <1>6, <1>7, <1>8, <1>9, <1>10, <1>11, <1>12, <1>13, <1>14, <1>15, <1>16
    DEF Start!Next

LEMMA StartInvStep ==
  ASSUME Start!LauncherAssumption, StartInv, [Start!Next]_(Start!vars) PROVE StartInv'
  BY StartTypesStep, WholeStep, FittingStep, FilledStep, HashedStep, RoutedStep, StampedStep
  DEF StartInv

-----------------------------------------------------------------------------
(* What toposort says of a graph. *)

LEMMA Least == ASSUME NEW T \in SUBSET Nat, T # {} PROVE \E x \in T : \A y \in T : x <= y
  <1> DEFINE less == {ss \in Nat \X Nat : ss[1] < ss[2]}
  <1>1. OpToRel(<, Nat) = less
    BY Zenon DEF OpToRel
  <1>2. IsWellFoundedOn(less, Nat)
    BY <1>1, NatLessThanWellFounded
  <1> HIDE DEF less
  <1>3. PICK x \in T : \A y \in T : ~(<<y, x>> \in less)
    BY <1>2, WFMin
  <1>4. ASSUME NEW y \in T PROVE x <= y
    <2>1. ~(y < x)
      BY <1>3 DEF less
    <2> QED BY <2>1
  <1> QED BY <1>4

Rest(c, left) == left \ Start!Peel(c, left)

\* The first n rounds of peeling.
Rounds(c, n) == {f \in [0 .. n -> SUBSET Start!Names(c)] :
                   f[0] = Start!Names(c) /\ \A k \in 1 .. n : f[k] = Rest(c, f[k - 1])}

LEMMA RoundsAreOne ==
  ASSUME NEW c, NEW n \in Nat, NEW m \in 0 .. n, NEW f \in Rounds(c, m), NEW g \in Rounds(c, n)
  PROVE  \A k \in 0 .. m : f[k] = g[k]
  <1> DEFINE T == {k \in 0 .. m : f[k] # g[k]}
  <1> SUFFICES ASSUME T # {} PROVE FALSE
    OBVIOUS
  <1>0. T \in SUBSET Nat
    OBVIOUS
  <1> HIDE DEF T
  <1>1. PICK k \in T : \A y \in T : k <= y
    BY <1>0, Least
  <1> USE DEF T
  <1>2. k # 0
    BY DEF Rounds
  <1>3. k - 1 \in 0 .. m /\ k \in 1 .. m /\ k \in 1 .. n /\ k - 1 \notin T
    BY <1>1, <1>2
  <1> QED BY <1>3 DEF Rounds

LEMMA RoundsAreThere == ASSUME NEW c, NEW n \in Nat PROVE Rounds(c, n) # {}
  <1> DEFINE T == {k \in Nat : Rounds(c, k) = {}}
  <1> SUFFICES ASSUME T # {} PROVE FALSE
    OBVIOUS
  <1>1. PICK k \in T : \A y \in T : k <= y
    BY Least
  <1>2. k # 0
    <2>1. [i \in 0 .. 0 |-> Start!Names(c)] \in Rounds(c, 0)
      BY DEF Rounds
    <2> QED BY <1>1, <2>1
  <1>3. k - 1 \in Nat /\ k - 1 \notin T
    BY <1>1, <1>2
  <1>4. PICK f : f \in Rounds(c, k - 1)
    BY <1>3
  <1> DEFINE g == [i \in 0 .. k |-> IF i = k THEN Rest(c, f[k - 1]) ELSE f[i]]
  <1>5. f[k - 1] \in SUBSET Start!Names(c) /\ Rest(c, f[k - 1]) \in SUBSET Start!Names(c)
    BY <1>3, <1>4 DEF Rounds, Rest
  <1>6. g \in [0 .. k -> SUBSET Start!Names(c)]
    BY <1>2, <1>3, <1>4, <1>5 DEF Rounds
  <1>7. g[0] = Start!Names(c)
    BY <1>2, <1>3, <1>4 DEF Rounds
  <1>8. ASSUME NEW i \in 1 .. k PROVE g[i] = Rest(c, g[i - 1])
    <2>1. CASE i = k
      BY <1>3, <2>1
    <2>2. CASE i # k
      <3>1. i \in 1 .. k - 1 /\ i \in 0 .. k /\ i - 1 \in 0 .. k /\ i - 1 # k
        BY <1>3, <2>2
      <3>2. g[i] = f[i] /\ g[i - 1] = f[i - 1]
        BY <2>2, <3>1
      <3> QED BY <1>4, <3>1, <3>2 DEF Rounds
    <2> QED BY <2>1, <2>2
  <1>9. g \in Rounds(c, k)
    BY <1>6, <1>7, <1>8 DEF Rounds
  <1> QED BY <1>9

LEMMA SameSizes ==
  \A S : (Start!IsFiniteSet(S) <=> IsFiniteSet(S)) /\ Start!Cardinality(S) = Cardinality(S)
  BY DEF Start!IsFiniteSet, IsFiniteSet, Start!Cardinality, Cardinality

\* toposort peels the graph round by round until nothing is left.
LEMMA PeeledAway ==
  ASSUME NEW c, IsFiniteSet(Start!Names(c)), Start!Toposort(c)
  PROVE  \E left \in [Nat -> SUBSET Start!Names(c)] :
           /\ left[0] = Start!Names(c)
           /\ \A i \in Nat : left[i + 1] = Rest(c, left[i])
           /\ \E i \in Nat : left[i] = {}
  <1> DEFINE P(f) == f = [i \in Nat |-> IF i = 0 THEN Start!Names(c)
                                        ELSE f[i - 1] \ Start!Peel(c, f[i - 1])]
             h == [n \in Nat |-> CHOOSE f : f \in Rounds(c, n)]
             g == [n \in Nat |-> h[n][n]]
             o == CHOOSE f : P(f)
  <1>1. \A n \in Nat : h[n] \in Rounds(c, n)
    BY RoundsAreThere
  <1>2. \A n \in Nat : g[n] = h[n][n]
    OBVIOUS
  <1> HIDE DEF h
  <1>3. g \in [Nat -> SUBSET Start!Names(c)] /\ g[0] = Start!Names(c)
    BY <1>1 DEF Rounds
  <1>4. ASSUME NEW n \in Nat, n # 0 PROVE g[n] = Rest(c, g[n - 1])
    <2>1. n - 1 \in Nat /\ n - 1 \in 0 .. n /\ n \in 1 .. n
      BY <1>4
    <2>2. h[n][n] = Rest(c, h[n][n - 1])
      BY <1>1, <2>1 DEF Rounds
    <2>3. h[n - 1][n - 1] = h[n][n - 1]
      BY <1>1, <2>1, RoundsAreOne
    <2> QED BY <1>2, <2>1, <2>2, <2>3
  <1>5. P(g)
    <2> DEFINE e == [n \in Nat |-> IF n = 0 THEN Start!Names(c) ELSE g[n - 1] \ Start!Peel(c, g[n - 1])]
    <2>1. \A n \in Nat : g[n] = e[n]
      BY <1>3, <1>4 DEF Rest
    <2>2. g = [n \in Nat |-> g[n]] /\ e = [n \in Nat |-> e[n]]
      OBVIOUS
    <2> QED BY <2>1, <2>2
  <1> HIDE DEF g
  <1>6. P(o)
    BY <1>5
  <1>7. o[Cardinality(Start!Names(c))] = {}
    BY SameSizes DEF Start!Toposort
  <1>8. Cardinality(Start!Names(c)) \in Nat
    BY FS_CardinalityType
  <1> HIDE DEF o
  <1>9. o[0] = Start!Names(c) /\ \A n \in Nat : n # 0 => o[n] = Rest(c, o[n - 1])
    BY <1>6 DEF Rest
  <1>10. \A n \in Nat : o[n + 1] = Rest(c, o[n])
    BY <1>9
  <1>11. ASSUME NEW n \in Nat PROVE o[n] \in SUBSET Start!Names(c)
    <2> DEFINE T == {k \in Nat : o[k] \notin SUBSET Start!Names(c)}
    <2> SUFFICES ASSUME T # {} PROVE FALSE
      OBVIOUS
    <2>1. PICK k \in T : \A y \in T : k <= y
      BY Least
    <2>2. k # 0
      BY <1>9
    <2>3. k - 1 \in Nat /\ k - 1 \notin T
      BY <2>1, <2>2
    <2> QED BY <1>9, <2>2, <2>3 DEF Rest
  <1>12. o \in [Nat -> SUBSET Start!Names(c)]
    <2>1. o = [n \in Nat |-> o[n]]
      BY <1>6
    <2> QED BY <1>11, <2>1
  <1> QED BY <1>7, <1>8, <1>9, <1>10, <1>12

\* A graph it accepts has no cycle, forwards or backwards.
LEMMA NoCycle ==
  ASSUME NEW c, IsFiniteSet(Start!Names(c)), Start!Toposort(c),
         NEW U \in SUBSET Start!Names(c), U # {}
  PROVE  /\ \E n \in U : \A e \in Start!Known(c) : e.to = n => e.from \notin U
         /\ \E n \in U : \A e \in Start!Known(c) : e.from = n => e.to \notin U
  <1>1. PICK left \in [Nat -> SUBSET Start!Names(c)] :
           /\ left[0] = Start!Names(c)
           /\ \A i \in Nat : left[i + 1] = Rest(c, left[i])
           /\ \E i \in Nat : left[i] = {}
    BY PeeledAway
  <1>2. ASSUME NEW i \in Nat, i # 0
        PROVE  /\ i - 1 \in Nat /\ left[i] \subseteq left[i - 1]
               /\ \A e \in Start!Known(c) : e.from \in left[i - 1] /\ e.to \in left[i - 1] => e.to \in left[i]
    <2>1. i - 1 \in Nat /\ (i - 1) + 1 = i
      BY <1>2
    <2>2. left[i] = Rest(c, left[i - 1])
      BY <1>1, <2>1
    <2> QED BY <2>1, <2>2 DEF Rest, Start!Peel
  <1>3. ASSUME \A n \in U : \E e \in Start!Known(c) : e.to = n /\ e.from \in U PROVE FALSE
    <2> DEFINE T == {k \in Nat : ~(U \subseteq left[k])}
    <2>1. T # {}
      BY <1>1
    <2>2. PICK k \in T : \A y \in T : k <= y
      BY <2>1, Least
    <2>3. k # 0
      BY <1>1
    <2>4. k - 1 \in Nat /\ k - 1 \notin T
      BY <2>2, <2>3
    <2>5. U \subseteq left[k]
      BY <1>2, <1>3, <2>3, <2>4
    <2> QED BY <2>5
  <1>4. ASSUME NEW k \in Nat, NEW e \in Start!Known(c), e.from \in left[k] PROVE e.to \in left[k]
    <2> DEFINE T == {j \in Nat : e.from \in left[j] /\ e.to \notin left[j]}
    <2> SUFFICES ASSUME T # {} PROVE FALSE
      BY <1>4
    <2>1. PICK j \in T : \A y \in T : j <= y
      BY Least
    <2>2. j # 0
      BY <1>1 DEF Start!Known
    <2>3. j - 1 \in Nat /\ j - 1 \notin T
      BY <2>1, <2>2
    <2> QED BY <1>2, <2>2, <2>3
  <1>5. ASSUME \A n \in U : \E e \in Start!Known(c) : e.from = n /\ e.to \in U PROVE FALSE
    <2> DEFINE T == {k \in Nat : left[k] \cap U = {}}
    <2>1. T # {}
      BY <1>1
    <2>2. PICK k \in T : \A y \in T : k <= y
      BY <2>1, Least
    <2>3. k # 0
      BY <1>1
    <2>4. k - 1 \in Nat /\ k - 1 \notin T
      BY <2>2, <2>3
    <2>5. PICK n \in U : n \in left[k - 1]
      BY <2>4
    <2>6. PICK e \in Start!Known(c) : e.from = n /\ e.to \in U
      BY <1>5
    <2>7. e.to \in left[k - 1]
      BY <1>4, <2>4, <2>5, <2>6
    <2> QED BY <1>2, <2>3, <2>5, <2>6, <2>7
  <1> QED BY <1>3, <1>5

-----------------------------------------------------------------------------
(* What validate accepts. *)

LEMMA Checked ==
  ASSUME StartInv, pc # "validate", pc = "done" => outcome = "ok"
  PROVE  /\ Start!EdgeNodesKnown(cfg) /\ Start!SourceNoInbound(cfg) /\ Start!SinkNoOutbound(cfg)
         /\ Start!RouterEdgesHavePort(cfg) /\ Start!PortOnlyOnRouterEdges(cfg)
         /\ Start!NoDuplicateEdges(cfg) /\ Start!ProcessingHasInputAndOutput(cfg)
         /\ Start!DeadLetterForPolicy(cfg) /\ Start!DeadLetterForOverflow(cfg)
         /\ Start!QueueCapacities(cfg) /\ Start!OutboundHttpOk(cfg) /\ Start!RouterIsWasm(cfg)
         /\ Start!NoOrphans(cfg) /\ Start!Toposort(cfg)
  BY DEF StartInv, Whole, Start!Valid

LEMMA RunsSettled ==
  ASSUME StartInv, Settled \/ tasks # {}
  PROVE  Settled /\ pc # "validate" /\ (pc = "done" => outcome = "ok")
  BY DEF StartInv, Whole, Settled

\* Every node of an accepted pipeline with more than one has an edge on each
\* side its kind allows.
LEMMA Wired ==
  ASSUME Start!LauncherAssumption, StartInv, tasks # {}, Start!Cardinality(Start!Names(cfg)) > 1,
         NEW n \in Start!Names(cfg)
  PROVE  /\ n \notin Start!OfKind(cfg, "source") => \E e \in Start!Known(cfg) : e.to = n
         /\ n \notin Start!OfKind(cfg, "sink") => \E e \in Start!Known(cfg) : e.from = n
  <1>1. cfg.nodes[n].kind \in Start!Categories
    BY DEF StartInv, StartTypes, Start!LauncherAssumption
  <1>2. n \in Start!Inbound(cfg) \cup Start!Outbound(cfg)
    <2>1. Start!Cardinality(Start!Names(cfg)) \in Nat
      <3>1. IsFiniteSet(Start!Names(cfg))
        BY SameSizes DEF StartInv, StartTypes, Start!LauncherAssumption
      <3> QED BY <3>1, SameSizes, FS_CardinalityType
    <2> QED BY <2>1, RunsSettled, Checked DEF Start!NoOrphans
  <1>3. /\ n \notin Start!OfKind(cfg, "source") => n \in Start!Inbound(cfg)
        /\ n \notin Start!OfKind(cfg, "sink") => n \in Start!Outbound(cfg)
    BY <1>1, <1>2, RunsSettled, Checked
    DEF Start!SourceNoInbound, Start!SinkNoOutbound, Start!ProcessingHasInputAndOutput,
        Start!OneSided, Start!OfKind, Start!Categories, Start!Processing
  <1> QED BY <1>3, RunsSettled, Checked
          DEF Start!EdgeNodesKnown, Start!Known, Start!Inbound, Start!Outbound

LEMMA Connected == ASSUME Start!LauncherAssumption, StartInv PROVE Start!RunningMeansConnected
  <1> SUFFICES ASSUME tasks # {}, Start!Cardinality(Start!Names(cfg)) > 1,
                      NEW S \in SUBSET Start!Names(cfg), S # Start!Names(cfg)
               PROVE  /\ Start!OfKind(cfg, "source") \subseteq S =>
                           \E e \in Start!Edges(cfg) : e.from \in S /\ e.to \notin S
                      /\ Start!OfKind(cfg, "sink") \subseteq S =>
                           \E e \in Start!Edges(cfg) : e.to \in S /\ e.from \notin S
    BY DEF Start!RunningMeansConnected
  <1> DEFINE U == Start!Names(cfg) \ S
  <1>1. IsFiniteSet(Start!Names(cfg)) /\ Start!Toposort(cfg)
    BY SameSizes, RunsSettled, Checked DEF StartInv, StartTypes, Start!LauncherAssumption
  <1>2. /\ \E n \in U : \A e \in Start!Known(cfg) : e.to = n => e.from \notin U
        /\ \E n \in U : \A e \in Start!Known(cfg) : e.from = n => e.to \notin U
    BY <1>1, NoCycle
  <1>3. \A e \in Start!Known(cfg) :
          e \in Start!Edges(cfg) /\ e.from \in Start!Names(cfg) /\ e.to \in Start!Names(cfg)
    BY DEF Start!Known
  <1>4. ASSUME Start!OfKind(cfg, "source") \subseteq S
        PROVE  \E e \in Start!Edges(cfg) : e.from \in S /\ e.to \notin S
    <2>1. PICK n \in U : \A e \in Start!Known(cfg) : e.to = n => e.from \notin U
      BY <1>2
    <2>2. PICK e \in Start!Known(cfg) : e.to = n
      BY <1>4, Wired
    <2> QED BY <1>3, <2>1, <2>2
  <1>5. ASSUME Start!OfKind(cfg, "sink") \subseteq S
        PROVE  \E e \in Start!Edges(cfg) : e.to \in S /\ e.from \notin S
    <2>1. PICK n \in U : \A e \in Start!Known(cfg) : e.from = n => e.to \notin U
      BY <1>2
    <2>2. PICK e \in Start!Known(cfg) : e.from = n
      BY <1>5, Wired
    <2> QED BY <1>3, <2>1, <2>2
  <1> QED BY <1>4, <1>5

LEMMA Delivers == ASSUME StartInv PROVE Start!DeliversOnce
  <1> SUFFICES ASSUME tasks # {} PROVE Start!DeliversOnce
    BY DEF Start!DeliversOnce
  <1>1. ASSUME NEW n \in Start!Names(cfg), NEW i \in DOMAIN Start!Senders(cfg, n),
               NEW j \in DOMAIN Start!Senders(cfg, n), i # j
        PROVE  \/ Start!Senders(cfg, n)[i].to # Start!Senders(cfg, n)[j].to
               \/ Start!Senders(cfg, n)[i].port # Start!Senders(cfg, n)[j].port
    <2> DEFINE d == cfg.edges[i]
               e == cfg.edges[j]
    <2>1. /\ i \in DOMAIN cfg.edges /\ j \in DOMAIN cfg.edges /\ d.from = n /\ e.from = n
          /\ Start!Senders(cfg, n)[i] = Start!SenderOf(d)
          /\ Start!Senders(cfg, n)[j] = Start!SenderOf(e)
      BY DEF Start!Senders
    <2>2. d \in Start!Edges(cfg) /\ e \in Start!Edges(cfg)
      BY <2>1 DEF Start!Edges, Start!ToSet
    <2>3. d.to # e.to \/ d.port # e.port
      BY <1>1, <2>1, RunsSettled, Checked DEF Start!NoDuplicateEdges, Start!SameEdge
    <2>4. (d.port = None /\ e.port = None) \/ (d.port # None /\ e.port # None)
      BY <2>1, <2>2, RunsSettled, Checked
      DEF Start!RouterEdgesHavePort, Start!PortOnlyOnRouterEdges, Start!OfKind
    <2> QED BY <2>1, <2>3, <2>4 DEF Start!SenderOf
  <1>2. ASSUME NEW n \in Start!OfKind(cfg, "router")
        PROVE  Start!UndeclaredPorts(cfg, n, declared[n]) = {}
    <2>1. n \in Start!Names(cfg) /\ ~cfg.nodes[n].native /\ n \notin Io /\ Settled /\ pc # "ports"
      BY RunsSettled, Checked
      DEF Start!RouterIsWasm, Start!OfKind, Io, StartInv, Whole, Settled
    <2>2. impl[n] = "wasm"
      BY <2>1 DEF StartInv, StartTypes, Fitting, Filled, Has
    <2> QED BY <2>1, <2>2 DEF StartInv, Routed
  <1> QED BY <1>1, <1>2 DEF Start!DeliversOnce

LEMMA DeadLetters == ASSUME StartInv PROVE Start!DeadLettersKept
  <1> SUFFICES ASSUME tasks # {}, cfg.deadLetter = None PROVE Start!DeadLettersKept
    BY DEF Start!DeadLettersKept
  <1>1. ASSUME NEW n \in Start!Names(cfg), NEW i \in DOMAIN Start!Senders(cfg, n)
        PROVE  Start!Senders(cfg, n)[i].overflow # "dead-letter"
    <2>1. /\ cfg.edges[i] \in Start!Edges(cfg)
          /\ Start!Senders(cfg, n)[i] = Start!SenderOf(cfg.edges[i])
      BY DEF Start!Senders, Start!Edges, Start!ToSet
    <2>2. cfg.edges[i].overflow # "dead-letter"
      BY <2>1, RunsSettled, Checked DEF Start!DeadLetterForOverflow
    <2> QED BY <2>1, <2>2 DEF Start!SenderOf
  <1> QED BY <1>1, RunsSettled, Checked DEF Start!DeadLettersKept, Start!DeadLetterForPolicy

LEMMA Agrees == ASSUME StartInv PROVE Start!BuilderAgrees
  <1>1. ASSUME pc = "build", Start!Names(cfg) # {}
        PROVE  Start!DagAccepts(cfg) /\ Start!CapacitiesAccepted(cfg)
    <2>1. \A e \in Start!Edges(cfg) : e.from \in Start!Names(cfg) /\ e.to \in Start!Names(cfg)
      BY <1>1, Checked DEF Start!EdgeNodesKnown, Start!Inbound, Start!Outbound
    <2> QED BY <1>1, <2>1, Checked DEF Start!DagAccepts, Start!QueueCapacities
  <1>2. ASSUME pc = "instance" PROVE Start!CapabilitiesAccepted(cfg.nodes[node])
    <2>1. node \in Start!Names(cfg) /\ ~cfg.nodes[node].native
      BY <1>2 DEF StartInv, StartTypes, Fitting, InHand
    <2> QED BY <1>2, <2>1, Checked DEF Start!OutboundHttpOk
  <1> QED BY <1>1, <1>2 DEF Start!BuilderAgrees

LEMMA Tiles == ASSUME StartInv PROVE Start!PhasesTile
  <1>1. Stamped
    BY DEF StartInv
  <1>2. startup = "written" => Start!PhaseTotal(time.first) = time.first
    BY <1>1 DEF Stamped, Start!PhaseTotal
  <1>3. tasks # {} => Start!PipelineSetup + time.load + time.inst = time.active - time.launch
    BY <1>1, RunsSettled DEF Stamped, Start!PipelineSetup, Start!Monus
  <1>4. startup \in {"none", "written", "noPlugin", "messages"}
    BY <1>1 DEF Stamped
  <1> QED BY <1>2, <1>3, <1>4 DEF Start!PhasesTile

LEMMA HashesAgree == ASSUME StartInv PROVE Start!HashesAreEligible
  <1> SUFFICES ASSUME outcome = "ok" PROVE hashes = eligible /\ eligible = Start!Replaceable
    BY DEF Start!HashesAreEligible
  <1>1. Settled /\ pc # "instance"
    BY DEF StartInv, Whole, Settled
  <1>2. hashes \subseteq Start!Names(cfg) /\ eligible \subseteq Start!Names(cfg)
    BY DEF StartInv, StartTypes
  <1>3. \A n \in Start!Names(cfg) : /\ n \in hashes <=> impl[n] = "wasm"
                                    /\ n \in eligible <=> impl[n] = "wasm"
    BY <1>1 DEF StartInv, Hashed
  <1> QED BY <1>2, <1>3 DEF Start!Replaceable

LEMMA Sound == ASSUME Start!LauncherAssumption, StartInv PROVE Start!LaunchSound
  <1>1. Start!LaunchTypeOK
    BY DEF StartInv, StartTypes, Stamped, Start!LaunchTypeOK
  <1>2. Start!AllOrNothing
    BY DEF StartInv, Whole, Filled, Settled, Has, Start!AllOrNothing
  <1> QED BY <1>1, <1>2, Connected, Delivers, DeadLetters, Agrees, Tiles, HashesAgree
          DEF Start!LaunchSound

\* What a launch leaves behind is sound, for every configuration, every step
\* that may fail and every order in which the nodes are loaded: all of them run
\* or none, each on a path from a source to a sink (orchestrator/launcher.rs,
\* wafer-config/src/validation.rs).
THEOREM LaunchIsSound ==
  ASSUME Start!LauncherAssumption PROVE Start!Spec => []Start!LaunchSound
  BY StartInvInit, StartInvStep, Sound, PTL DEF Start!Spec
=============================================================================
