----------------------------- MODULE LoadProfile ------------------------------
(* From the flags of `wafer-loadgen publish` to the offsets of its messages:  *)
(* apply_profile_file, resolve_shape and the scheduler run to the end of the  *)
(* schedule.  The arrival process itself is Publisher's.                      *)
EXTENDS LoadShapes, Sequences

CONSTANTS Cli,          \* the sets of values the command line ...
          File,         \* ... and the profile file give each flag
          Default,      \* the flags' compiled-in defaults
          MaxOffsets    \* bound on the messages of one schedule

\* What an instance has to give.
ProfileAssumption ==
  /\ DOMAIN Cli = ShapeFlags /\ DOMAIN File = ShapeFlags /\ DOMAIN Default = ShapeFlags
  /\ \A f \in ShapeFlags : Default[f] \in Cli[f]
  /\ \A f \in ShapeFlags \ {"profile", "node", "plugin"} :
        Cli[f] \subseteq Nat /\ File[f] \subseteq Nat \cup {Absent}

VARIABLES pc,           \* "parse", "schedule", "refused" or "done"
          given,        \* the command line and the profile file as given
          shape,        \* the resolved shape
          emitted,      \* Scheduler::emitted
          offset,       \* Scheduler::next_offset
          offsets       \* what next_offset has returned so far

vars == <<pc, given, shape, emitted, offset, offsets>>

Choices(S) ==
  [profile : S.profile, rate : S.rate, duration : S.duration,
   multiplier : S.multiplier, on : S.on, cycle : S.cycle,
   start : S.start, step : S.step, interval : S.interval, max : S.max,
   swapAt : S.swapAt, node : S.node, plugin : S.plugin]

Init == /\ pc = "parse"
        /\ given \in [cli : Choices(Cli), file : Choices(File)]
        /\ shape = Default
        /\ emitted = 0 /\ offset = 0 /\ offsets = <<>>

Folded == FoldProfile(given.cli, given.file, Default)

\* apply_profile_file, then resolve_shape.
Resolve ==
  /\ pc = "parse"
  /\ IF Accepted(Folded)
     THEN pc' = "schedule" /\ shape' = ResolveShape(Folded)
     ELSE pc' = "refused" /\ UNCHANGED shape
  /\ UNCHANGED <<given, emitted, offset, offsets>>

\* The pacer's loop over next_offset while the offset is inside the schedule.
Schedule ==
  /\ pc = "schedule"
  /\ IF offset >= shape.duration * Sec
     THEN pc' = "done" /\ UNCHANGED <<emitted, offset, offsets>>
     ELSE /\ Len(offsets) < MaxOffsets
          /\ offsets' = Append(offsets, offset)
          /\ emitted' = emitted + 1
          /\ offset' = NextOffset(shape, emitted + 1, offset)
          /\ UNCHANGED pc
  /\ UNCHANGED <<given, shape>>

Next == Resolve \/ Schedule

Spec == Init /\ [][Next]_vars /\ WF_vars(Next)

-------------------------------------------------------------------------------
Scheduled(lo, hi) == Cardinality({i \in DOMAIN offsets : lo <= offsets[i] /\ offsets[i] < hi})

(* A constant-rate schedule offers exactly rate * duration messages, however  *)
(* the interval rounds (Scheduler::next_offset, `population drift`).          *)
PopulationExact ==
  pc = "done" /\ shape.profile \in {"steady", "hotswap-trigger"} =>
    Len(offsets) = shape.rate * shape.duration

\* The rate a reader of the flags expects in the k-th second.
RateInSecond(k) ==
  CASE shape.profile = "burst" ->
         shape.rate * (IF k % shape.cycle < shape.on THEN shape.multiplier ELSE 1)
    [] shape.profile = "ramp" ->
         LET raw == shape.start + shape.step * (k \div shape.interval)
         IN  IF raw > shape.max THEN shape.max ELSE raw
    [] OTHER -> shape.rate

(* A whole second of the schedule holds the messages of that second's rate,   *)
(* give or take the one a rounded step moves over its edge: the offsets a     *)
(* shape accumulates do not drift away from its windows and steps.            *)
SecondsFollowRate ==
  pc = "done" => \A k \in 0 .. shape.duration - 1 :
    Scheduled(k * Sec, (k + 1) * Sec) \in RateInSecond(k) - 1 .. RateInSecond(k) + 1

(* A flag the operator set away from its default is never changed by the      *)
(* profile file, and a file value is used wherever the operator set none      *)
(* (PublishArgs::apply_profile_file).                                         *)
OperatorWins ==
  pc = "schedule" => \A f \in ShapeFlags \ {"multiplier", "cycle", "start", "interval", "max"} :
    shape[f] = IF given.cli[f] # Default[f] \/ given.file[f] = Absent
               THEN given.cli[f] ELSE given.file[f]

(* Every accepted shape ends: the offsets keep growing, so the pacer thread   *)
(* reaches the end of the schedule whatever the flags say.                    *)
===============================================================================
