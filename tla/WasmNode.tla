------------------------------ MODULE WasmNode ------------------------------
(***************************************************************************)
(* The lifecycle of one Wasm node (node/wasm.rs) inside its runner: the    *)
(* Store with its fuel, epoch deadline, resource table and grant, the      *)
(* cached InstancePre, the guest calls, recovery, reconfiguration and      *)
(* hot-swap.  The epoch ticker of engine/loader.rs runs beside it.         *)
(*                                                                         *)
(* A Store and the bindings instantiated in it are replaced together       *)
(* everywhere and are one record here.  Epochs are relative: a Store keeps *)
(* the ticks left to its deadline, and a tick takes one from every Store   *)
(* that exists.  Guest log lines are left out.                             *)
(***************************************************************************)
EXTENDS Naturals, FiniteSetsExt

CONSTANTS None,
          Components,     \* compiled plugins
          Configs,        \* lifecycle configurations
          Grants,         \* capability sets a replacement may be prepared with
          Granted,        \* the node's own capabilities
          Deadline,       \* engine.epoch_deadline, or None
          LifecycleTicks, \* LIFECYCLE_EPOCH_TICKS
          NodeFuel,       \* the node's own fuel, or None
          RoleFuel,       \* kind -> engine.fuel of that role, or None
          OtherFuel,      \* whether another node of the pipeline sets fuel
          Most            \* bound: fuel one guest call can burn

Kinds == {"transform", "filter", "router"}

\* A Store with its instance, and what a mutation keeps to put back.
StoreType ==
  [component : Components, grant : Grants, config : Configs \cup {None}, fuel : Nat,
   left : Nat \cup {None}, buffers : 0 .. 1, trapped : BOOLEAN]

Kept == [store : StoreType, pre : Components, config : Configs]

\* What an instance has to give.
WasmNodeAssumption ==
  /\ Granted \in Grants
  /\ Deadline \in Nat \ {0} \/ Deadline = None
  /\ LifecycleTicks \in Nat \ {0} /\ Most \in Nat
  /\ NodeFuel \in (Nat \ {0}) \cup {None} /\ RoleFuel \in [Kinds -> (Nat \ {0}) \cup {None}]
  /\ None \notin Nat \cup StoreType \cup Kept

VARIABLES kind, store, pre, config, pc, op, saved, fresh, replacement, canary,
          used, ran  \* fuel burnt and ticks passed since the Store was armed

vars == <<kind, store, pre, config, pc, op, saved, fresh, replacement, canary, used, ran>>

-----------------------------------------------------------------------------
(* The engine's limits. *)

\* Metering is engine-wide: one node's fuel turns it on for all of them.
MetersFuel ==
  OtherFuel \/ NodeFuel # None \/ \E k \in Kinds : RoleFuel[k] # None

\* NonZeroU64::MAX: more than any call burns.
Plenty == Most + 1

\* What the node gets before each call; None when fuel is not metered.
FuelBudget ==
  CASE ~MetersFuel -> None
    [] MetersFuel /\ NodeFuel # None -> NodeFuel
    [] MetersFuel /\ NodeFuel = None /\ RoleFuel[kind] # None -> RoleFuel[kind]
    [] OTHER -> Plenty

LifecycleDeadline == IF Deadline = None THEN None ELSE Max({Deadline, LifecycleTicks})

\* A Store the limits of which are set; set_fuel is skipped without a budget,
\* and a metered Store that was never given fuel holds none.
Armed(s, ticks) ==
  [s EXCEPT !.fuel = IF FuelBudget = None THEN @ ELSE FuelBudget, !.left = ticks]

NewStore(c, grant) ==
  Armed([component |-> c, grant |-> grant, config |-> None, fuel |-> 0, left |-> None,
         buffers |-> 0, trapped |-> FALSE], LifecycleDeadline)

\* Instantiation runs the guest's start functions, which may burn fuel.
Instantiated(s) ==
  {[s EXCEPT !.fuel = f] : f \in IF FuelBudget = None THEN {s.fuel} ELSE {0, s.fuel}}

-----------------------------------------------------------------------------
Init ==
  /\ kind \in Kinds
  /\ pre \in Components /\ config \in Configs
  /\ store \in Instantiated(NewStore(pre, Granted))
  /\ pc = "arm" /\ op = "launch"
  /\ saved = None /\ fresh = None /\ replacement = None /\ canary = None
  /\ used = 0 /\ ran = 0

Running == pc \in {"guest", "validate", "init", "declare"}

(* The guest, while one of its exports runs. *)

Burn ==
  /\ Running /\ MetersFuel /\ store.fuel > 0 /\ used < Most
  /\ store' = [store EXCEPT !.fuel = @ - 1]
  /\ used' = used + 1
  /\ UNCHANGED <<kind, pre, config, pc, op, saved, fresh, replacement, canary, ran>>

OutOfFuel == Running /\ MetersFuel /\ store.fuel = 0
Interrupted == Running /\ store.left = 0

\* The ticker thread: every Store of the engine comes one tick nearer.
Nearer(s) ==
  IF s = None THEN None
  ELSE IF s.left \in {None, 0} THEN s ELSE [s EXCEPT !.left = @ - 1]

Tick ==
  /\ Deadline # None
  /\ store' = Nearer(store) /\ fresh' = Nearer(fresh) /\ replacement' = Nearer(replacement)
  /\ saved' = IF saved = None THEN None ELSE [saved EXCEPT !.store = Nearer(@)]
  /\ ran' = IF Running /\ ran < LifecycleDeadline THEN ran + 1 ELSE ran
  /\ UNCHANGED <<kind, pre, config, pc, op, canary, used>>

-----------------------------------------------------------------------------
(* process(), evaluate() and route(). *)

\* Fault: the epoch deadline is set once and not re-armed.
BeginCallStaleDeadline ==
  /\ pc = "idle"
  /\ store' = [Armed(store, store.left) EXCEPT !.buffers = @ + 1]
  /\ pc' = "guest" /\ used' = 0 /\ ran' = 0
  /\ UNCHANGED <<kind, pre, config, op, saved, fresh, replacement, canary>>

\* The limits are re-armed and the payload is pushed as a borrowed buffer.
BeginCall ==
  /\ pc = "idle"
  /\ store' = [Armed(store, Deadline) EXCEPT !.buffers = @ + 1]
  /\ pc' = "guest" /\ used' = 0 /\ ran' = 0
  /\ UNCHANGED <<kind, pre, config, op, saved, fresh, replacement, canary>>

\* The resource table is full: a host failure, which the runner takes for a trap.
PushBufferFails ==
  /\ pc = "idle"
  /\ store' = Armed(store, Deadline)
  /\ pc' = "recover"
  /\ UNCHANGED <<kind, pre, config, op, saved, fresh, replacement, canary, used, ran>>

\* The host deletes the buffer after every call, whatever it returned.
Released(trapped, failed) == [store EXCEPT !.buffers = @ - 1, !.trapped = trapped]

EndCall(trapped, failed, condemned) ==
  /\ pc = "guest"
  /\ store' = Released(trapped, failed)
  /\ pc' = IF condemned THEN "recover" ELSE "idle"
  /\ UNCHANGED <<kind, pre, config, op, saved, fresh, replacement, canary, used, ran>>

\* A new envelope; forward or drop; the output ports.
ProcessReturns == kind = "transform" /\ EndCall(FALSE, FALSE, FALSE)
EvaluateReturns == kind = "filter" /\ EndCall(FALSE, FALSE, FALSE)
RouteReturns == kind = "router" /\ EndCall(FALSE, FALSE, FALSE)

\* bad-input, dependency-failed, processing-failed, timed-out; unrecoverable.
GuestErr == \E condemned \in BOOLEAN : EndCall(FALSE, TRUE, condemned)
GuestTraps == EndCall(TRUE, TRUE, TRUE)

-----------------------------------------------------------------------------
(* recover_from_cached_pre, called by the runner: once after a rollback to   *)
(* the canary's component, and once more when that rollback fails.           *)

Recover ==
  /\ pc = "recover"
  /\ op' = IF canary # None THEN "rollback" ELSE "recover"
  /\ pre' = IF canary # None THEN canary ELSE pre
  /\ canary' = None
  /\ fresh' \in Instantiated(NewStore(pre', Granted)) \cup {None}
  /\ pc' = CASE fresh' # None -> "install"
             [] fresh' = None /\ op' = "rollback" -> "recover"
             [] OTHER -> "dead"
  /\ UNCHANGED <<kind, store, config, saved, replacement, used, ran>>

\* try_reconfigure: a fresh Store from the same pre, for the new config.
Reconfigure ==
  /\ pc = "idle"
  /\ op' = "reconfigure"
  /\ \/ /\ fresh' \in Instantiated(NewStore(pre, Granted))
        /\ pc' = "install"
        /\ \E c \in Configs : config' = c
        /\ saved' = [store |-> store, pre |-> pre, config |-> config]
     \/ UNCHANGED <<fresh, pc, config, saved>>     \* instantiation failed
  /\ UNCHANGED <<kind, store, pre, replacement, canary, used, ran>>

\* A replacement is compiled, linked and instantiated by the API while the
\* node runs; it waits in the watch slot.
PrepareSwap ==
  /\ replacement = None /\ pc # "dead"
  /\ \E c \in Components, g \in Grants : replacement' \in Instantiated(NewStore(c, g))
  /\ UNCHANGED <<kind, store, pre, config, pc, op, saved, fresh, canary, used, ran>>

\* try_hot_swap refuses a replacement prepared with other capabilities.
SwapAllowed(r) == r.grant = Granted

HotSwap ==
  /\ pc = "idle" /\ replacement # None
  /\ replacement' = None
  /\ IF SwapAllowed(replacement)
     THEN /\ op' = "swap" /\ pc' = "install"
          /\ saved' = [store |-> store, pre |-> pre, config |-> config]
          /\ fresh' = replacement /\ pre' = replacement.component
     ELSE UNCHANGED <<op, pc, saved, fresh, pre>>
  /\ UNCHANGED <<kind, store, config, canary, used, ran>>

\* The fresh Store replaces the node's own before the guest is asked anything.
Install ==
  /\ pc = "install"
  /\ store' = fresh /\ fresh' = None
  /\ pc' = "arm"
  /\ UNCHANGED <<kind, pre, config, op, saved, replacement, canary, used, ran>>

-----------------------------------------------------------------------------
(* validate_and_init *)

\* One budget for validate() and init() together.
ArmLifecycle ==
  /\ pc = "arm"
  /\ store' = Armed(store, LifecycleDeadline)
  /\ pc' = "validate" /\ used' = 0 /\ ran' = 0
  /\ UNCHANGED <<kind, pre, config, op, saved, fresh, replacement, canary>>

Validated ==
  /\ pc = "validate"
  /\ pc' = "init"
  /\ UNCHANGED <<kind, store, pre, config, op, saved, fresh, replacement, canary, used, ran>>

\* The canary is armed by a transform's swap only, and a reconfiguration drops it.
Initialised ==
  /\ pc = "init"
  /\ store' = [store EXCEPT !.config = config]
  /\ canary' = CASE op = "swap" /\ kind = "transform" -> saved.pre
                 [] op = "reconfigure" -> None
                 [] OTHER -> canary
  /\ saved' = None
  /\ pc' = IF op = "launch" /\ kind = "router" THEN "ports" ELSE "idle"
  /\ UNCHANGED <<kind, pre, config, op, fresh, replacement, used, ran>>

\* A router declares its ports once, at launch, within a budget of its own.
AskOutputPorts ==
  /\ pc = "ports"
  /\ store' = Armed(store, LifecycleDeadline)
  /\ pc' = "declare" /\ used' = 0 /\ ran' = 0
  /\ UNCHANGED <<kind, pre, config, op, saved, fresh, replacement, canary>>

OutputPorts ==
  /\ pc = "declare"
  /\ pc' = "idle"
  /\ UNCHANGED <<kind, store, pre, config, op, saved, fresh, replacement, canary, used, ran>>

\* A mutation puts back what it replaced; a launch or recovery keeps nothing.
Restored ==
  /\ saved # None
  /\ store' = saved.store /\ pre' = saved.pre /\ config' = saved.config
  /\ pc' = "idle" /\ saved' = None

NotRestored ==
  /\ saved = None
  /\ pc' = IF op = "rollback" THEN "recover" ELSE "dead"
  /\ UNCHANGED <<store, pre, config, saved>>

\* validate() rejects the config, init() returns an error, or a call traps.
LifecycleFails ==
  /\ pc \in {"validate", "init", "declare"}
  /\ Restored \/ NotRestored
  /\ UNCHANGED <<kind, op, fresh, replacement, canary, used, ran>>

\* The trap of a guest that ran out of its fuel or of its ticks.
OverBudget ==
  /\ OutOfFuel \/ Interrupted
  /\ GuestTraps \/ LifecycleFails

CanaryWindowEnds ==
  /\ pc = "idle" /\ canary # None
  /\ canary' = None
  /\ UNCHANGED <<kind, store, pre, config, pc, op, saved, fresh, replacement, used, ran>>

Next ==
  \/ Burn \/ Tick \/ OverBudget
  \/ BeginCall \/ PushBufferFails \/ ProcessReturns \/ EvaluateReturns \/ RouteReturns
  \/ GuestErr \/ GuestTraps
  \/ Recover \/ Reconfigure \/ PrepareSwap \/ HotSwap \/ Install
  \/ ArmLifecycle \/ Validated \/ Initialised \/ AskOutputPorts \/ OutputPorts
  \/ LifecycleFails \/ CanaryWindowEnds

Spec == Init /\ [][Next]_vars

\* The ticker is an OS thread of its own, a guest over budget traps at its next
\* check point, and the host's own steps run.  A guest need never return.
Fairness ==
  /\ WF_vars(Tick) /\ WF_vars(OverBudget)
  /\ WF_vars(Recover) /\ WF_vars(Install) /\ WF_vars(ArmLifecycle)
  /\ WF_vars(AskOutputPorts)

FairSpec == Spec /\ Fairness

-----------------------------------------------------------------------------
\* Types, and the fields that are set only in the steps of a lifecycle change.
NodeTypeOK ==
  /\ store \in StoreType /\ saved \in Kept \cup {None}
  /\ replacement \in StoreType \cup {None}
  /\ (fresh = None) <=> (pc # "install")
  /\ (saved # None) <=> (op \in {"swap", "reconfigure"} /\ pc \in {"install", "arm", "validate", "init"})

\* A guest is stopped for its time or its fuel only when the call it is in
\* used up its whole budget: what earlier calls, the wait in the watch slot or
\* instantiation used does not count.  A node without a budget of its own in a
\* metered engine is never starved.
BudgetHonoured ==
  /\ Interrupted => ran >= IF pc = "guest" THEN Deadline ELSE LifecycleDeadline
  /\ OutOfFuel => used >= IF NodeFuel # None THEN NodeFuel
                          ELSE IF RoleFuel[kind] # None THEN RoleFuel[kind] ELSE Plenty

\* A message is processed by an instance that was never trapped, that init()
\* accepted with the node's current configuration, and that is the component
\* recovery would bring back.
InstanceIsCurrent ==
  pc = "guest" => /\ store.component = pre
                  /\ store.config = config
                  /\ ~store.trapped

\* No recovery, reconfiguration, swap or rollback changes what the guest is granted.
GrantKept == store.grant = Granted

\* The resource table holds a payload during a call only.
BuffersReturned == store.buffers = IF pc = "guest" THEN 1 ELSE 0

\* The host contains the guest and is fair to it.
GuestContained ==
  NodeTypeOK /\ BudgetHonoured /\ InstanceIsCurrent /\ GrantKept /\ BuffersReturned
=============================================================================
