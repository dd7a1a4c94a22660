------------------------------ MODULE LoadShapes ------------------------------
(* The load profiles of wafer-loadgen as operators (profile.rs, publish.rs):  *)
(* how a profile file is folded into the command line, which arguments are    *)
(* refused, and the scheduler's offsets.  Time is in ticks, Sec to a second.  *)
EXTENDS Integers, FiniteSets

CONSTANTS Sec,          \* clock ticks in a second (1_000_000_000 in the code)
          Absent        \* an Option that is None

\* What an instance has to give.
SecAssumption == Sec \in Nat \ {0}

LOCAL MaxOf(a, b) == IF a > b THEN a ELSE b
LOCAL MinOf(a, b) == IF a < b THEN a ELSE b

\* The flags that shape the load, and their compiled-in defaults.
ShapeFlags == {"profile", "rate", "duration", "multiplier", "on", "cycle",
               "start", "step", "interval", "max", "swapAt", "node", "plugin"}

(* A flag still at its default takes the profile file's value, if it has one; *)
(* node and plugin have no default.                                           *)
FoldProfile(cli, file, default) ==
  [f \in ShapeFlags |->
     IF cli[f] = default[f] /\ file[f] # Absent THEN file[f] ELSE cli[f]]

\* The arguments resolve_shape accepts.
Accepted(a) ==
  /\ a.rate > 0
  /\ a.profile \in {"steady", "burst", "ramp", "hotswap-trigger"}
  /\ a.profile = "hotswap-trigger" =>
       /\ a.node # Absent /\ a.plugin # Absent
       /\ a.swapAt >= 0 /\ a.swapAt < a.duration * Sec

\* The shape they resolve to, with the floors that keep every rate positive.
ResolveShape(a) ==
  [a EXCEPT !.multiplier = MaxOf(@, 1), !.cycle = MaxOf(@, 1),
            !.start = MaxOf(@, 1), !.interval = MaxOf(@, 1),
            !.max = MaxOf(@, a.start)]

\* LoadShape::rate_at at tick t of the run.
RateAt(s, t) ==
  CASE s.profile \in {"steady", "hotswap-trigger"} -> MaxOf(s.rate, 1)
    [] s.profile = "burst" ->
         IF t % (s.cycle * Sec) < MinOf(s.on, s.cycle) * Sec
         THEN s.rate * s.multiplier ELSE s.rate
    [] s.profile = "ramp" ->
         MinOf(s.start + s.step * (t \div (s.interval * Sec)), MaxOf(s.max, s.start))

(* Scheduler::next_offset: the offset after the emitted-th.  A constant rate  *)
(* derives it from the index, the others add the rounded 1 / rate.            *)
NextOffset(s, emitted, offset) ==
  IF s.profile \in {"steady", "hotswap-trigger"}
  THEN (emitted * Sec) \div MaxOf(s.rate, 1)
  ELSE offset + (2 * Sec + RateAt(s, offset)) \div (2 * RateAt(s, offset))
===============================================================================
