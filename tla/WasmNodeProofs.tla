--------------------------- MODULE WasmNodeProofs ---------------------------
(***************************************************************************)
(* The host contains the guest and is fair to it, for every plugin,        *)
(* configuration, grant and budget: GuestContained is an invariant of      *)
(* every instance that satisfies WasmNodeAssumption.  Outbound HTTP goes   *)
(* where the operator said, for every grant, request and resolver.         *)
(***************************************************************************)
EXTENDS WasmNode, Sequences, WellFoundedInduction, TLAPS

NodeTypes ==
  /\ kind \in Kinds /\ pre \in Components /\ config \in Configs
  /\ pc \in {"idle", "guest", "recover", "install", "arm", "validate", "init", "ports", "declare",
             "dead"}
  /\ store \in StoreType /\ saved \in Kept \cup {None}
  /\ fresh \in StoreType \cup {None} /\ replacement \in StoreType \cup {None}
  /\ canary \in Components \cup {None}
  /\ used \in 0 .. Most /\ ran \in Nat

\* What is set only in the steps of a lifecycle change.
Phases ==
  /\ (fresh = None) <=> (pc # "install")
  /\ (saved # None) <=> /\ op \in {"swap", "reconfigure"}
                        /\ pc \in {"install", "arm", "validate", "init"}

\* A Store with the node's grant that no call is in and none has trapped.
Sound(s) == s.grant = Granted /\ s.buffers = 0 /\ ~s.trapped

\* The Store the node runs, the one it is about to run and the one it may put
\* back are all of the component and configuration they are kept with.
Current ==
  /\ store.grant = Granted
  /\ store.buffers = IF pc = "guest" THEN 1 ELSE 0
  /\ pc \in {"idle", "guest", "ports", "declare"} => store.config = config
  /\ pc \in {"idle", "guest", "ports", "declare", "arm", "validate", "init"} =>
       store.component = pre /\ ~store.trapped
  /\ pc = "install" => fresh.component = pre /\ Sound(fresh)
  /\ saved # None =>
       /\ saved.store.component = saved.pre /\ saved.store.config = saved.config
       /\ Sound(saved.store)
  /\ replacement # None => replacement.buffers = 0 /\ ~replacement.trapped

\* While an export runs, what is left of its budget and what it has used are
\* together the whole budget.
Budgeted ==
  Running =>
    /\ MetersFuel => store.fuel + used = FuelBudget
    /\ Deadline = None => store.left = None
    /\ Deadline # None =>
         /\ store.left \in Nat
         /\ store.left + ran >= IF pc = "guest" THEN Deadline ELSE LifecycleDeadline

NodeInv == NodeTypes /\ Phases /\ Current /\ Budgeted

-----------------------------------------------------------------------------
\* The end of a call, whichever it is.
CallEnds == \E trapped, failed, condemned \in BOOLEAN :
              EndCall(trapped, failed, condemned) /\ (trapped => condemned)

\* A step is one of these; the trap of a guest over its budget is one of the
\* ways a call or a lifecycle change ends.
LEMMA Disjuncts ==
  ASSUME [Next]_vars
  PROVE  \/ Burn \/ Tick \/ BeginCall \/ PushBufferFails \/ CallEnds
         \/ Recover \/ Reconfigure \/ PrepareSwap \/ HotSwap \/ Install
         \/ ArmLifecycle \/ Validated \/ Initialised \/ AskOutputPorts \/ OutputPorts
         \/ LifecycleFails \/ CanaryWindowEnds \/ UNCHANGED vars
<1>1. ProcessReturns \/ EvaluateReturns \/ RouteReturns => CallEnds
  BY DEF ProcessReturns, EvaluateReturns, RouteReturns, CallEnds
<1>2. GuestErr \/ GuestTraps => CallEnds
  BY DEF GuestErr, GuestTraps, CallEnds
<1>3. OverBudget => GuestTraps \/ LifecycleFails
  BY DEF OverBudget
<1> QED
  BY <1>1, <1>2, <1>3 DEF Next

\* The budgets are what the types say, and the lifecycle's is the longer one.
LEMMA Limits ==
  ASSUME WasmNodeAssumption, kind \in Kinds
  PROVE  /\ FuelBudget \in Nat \cup {None}
         /\ MetersFuel => FuelBudget \in Nat
         /\ Deadline = None => LifecycleDeadline = None
         /\ Deadline # None => LifecycleDeadline \in Nat /\ LifecycleDeadline >= Deadline
<1>1. RoleFuel[kind] \in Nat \cup {None}
  BY DEF WasmNodeAssumption
<1>2. MetersFuel => FuelBudget \in Nat
  BY <1>1 DEF WasmNodeAssumption, FuelBudget, Plenty
<1>3. ~MetersFuel => FuelBudget = None
  BY DEF FuelBudget
<1>4. ASSUME Deadline # None
      PROVE  LifecycleDeadline \in Nat /\ LifecycleDeadline >= Deadline
  <2>1. \A a, b \in Nat : \E x \in {a, b} : \A y \in {a, b} : x >= y
    OBVIOUS
  <2>2. \A a, b \in Nat : Max({a, b}) \in {a, b} /\ Max({a, b}) >= a
    BY <2>1 DEF Max
  <2> QED
    BY <1>4, <2>2 DEF WasmNodeAssumption, LifecycleDeadline
<1> QED
  BY <1>2, <1>3, <1>4 DEF LifecycleDeadline

\* Arming sets the limits and nothing else.
LEMMA ArmedStore ==
  ASSUME WasmNodeAssumption, kind \in Kinds, NEW s \in StoreType, NEW d \in Nat \cup {None}
  PROVE  /\ Armed(s, d) \in StoreType
         /\ Armed(s, d).component = s.component /\ Armed(s, d).grant = s.grant
         /\ Armed(s, d).config = s.config /\ Armed(s, d).buffers = s.buffers
         /\ Armed(s, d).trapped = s.trapped /\ Armed(s, d).left = d
         /\ MetersFuel => Armed(s, d).fuel = FuelBudget
  BY Limits DEF Armed, StoreType, WasmNodeAssumption

\* A new Store, whatever its instantiation burnt.
LEMMA FreshStore ==
  ASSUME WasmNodeAssumption, kind \in Kinds, NEW c \in Components, NEW g \in Grants,
         NEW s \in Instantiated(NewStore(c, g))
  PROVE  /\ s \in StoreType /\ s # None
         /\ s.component = c /\ s.grant = g /\ s.buffers = 0 /\ ~s.trapped
<1> DEFINE ns == NewStore(c, g)
<1>1. /\ ns \in StoreType
      /\ ns.component = c /\ ns.grant = g /\ ns.buffers = 0 /\ ns.trapped = FALSE
  <2> DEFINE bare == [component |-> c, grant |-> g, config |-> None, fuel |-> 0, left |-> None,
                      buffers |-> 0, trapped |-> FALSE]
  <2>1. bare \in StoreType
    BY DEF StoreType
  <2>2. ns = Armed(bare, LifecycleDeadline)
    BY DEF NewStore
  <2>3. LifecycleDeadline \in Nat \cup {None}
    BY Limits
  <2> HIDE DEF ns
  <2> QED
    BY <2>1, <2>2, <2>3, ArmedStore
<1>2. PICK f \in Nat : s = [ns EXCEPT !.fuel = f]
  BY <1>1 DEF Instantiated, StoreType
<1> HIDE DEF ns
<1>3. s \in StoreType /\ s.component = c /\ s.grant = g /\ s.buffers = 0 /\ s.trapped = FALSE
  BY <1>1, <1>2 DEF StoreType
<1> QED
  BY <1>3 DEF WasmNodeAssumption

\* The end of a call leaves a Store.
LEMMA ReleasedStore ==
  ASSUME NEW s \in StoreType, NEW b \in 0 .. 1
  PROVE  /\ [s EXCEPT !.buffers = b, !.trapped = TRUE] \in StoreType
         /\ [s EXCEPT !.buffers = b, !.trapped = FALSE] \in StoreType
  BY DEF StoreType

\* A tick takes from the ticks left and from nothing else.
LEMMA NearerStore ==
  ASSUME WasmNodeAssumption, NEW s \in StoreType
  PROVE  /\ Nearer(s) \in StoreType
         /\ Nearer(s).component = s.component /\ Nearer(s).grant = s.grant
         /\ Nearer(s).config = s.config /\ Nearer(s).buffers = s.buffers
         /\ Nearer(s).trapped = s.trapped /\ Nearer(s).fuel = s.fuel
         /\ s.left \in Nat => Nearer(s).left \in Nat /\ Nearer(s).left + 1 >= s.left
  BY DEF Nearer, StoreType, WasmNodeAssumption

\* What a tick leaves of a Store that may not be there.
Ticked(s, t) ==
  \/ s = None /\ t = None
  \/ /\ s \in StoreType /\ t \in StoreType /\ s # None /\ t # None
     /\ t.component = s.component /\ t.grant = s.grant /\ t.config = s.config
     /\ t.buffers = s.buffers /\ t.trapped = s.trapped

\* A tick changes no Store, held or saved, but for its ticks.
LEMMA TickKeeps ==
  ASSUME WasmNodeAssumption, NodeTypes, Tick
  PROVE  /\ Ticked(store, store') /\ Ticked(fresh, fresh') /\ Ticked(replacement, replacement')
         /\ \/ saved = None /\ saved' = None
            \/ /\ saved \in Kept /\ saved' \in Kept /\ saved # None /\ saved' # None
               /\ Ticked(saved.store, saved'.store)
               /\ saved'.pre = saved.pre /\ saved'.config = saved.config
<1>1. None \notin StoreType /\ None \notin Kept
  BY DEF WasmNodeAssumption
<1>2. ASSUME NEW s \in StoreType \cup {None} PROVE Ticked(s, Nearer(s))
  <2>1. CASE s = None
    BY <2>1 DEF Nearer, Ticked
  <2>2. CASE s # None
    BY <1>1, <2>2, NearerStore DEF Ticked
  <2> QED
    BY <2>1, <2>2
<1>3. Ticked(store, store') /\ Ticked(fresh, fresh') /\ Ticked(replacement, replacement')
  BY <1>2 DEF Tick, NodeTypes
<1>4. CASE saved # None
  <2>1. saved \in Kept /\ saved' = [saved EXCEPT !.store = Nearer(saved.store)]
    BY <1>4 DEF Tick, NodeTypes
  <2>2. saved.store \in StoreType /\ Nearer(saved.store) \in StoreType
    BY <2>1, NearerStore DEF Kept
  <2>3. /\ saved' \in Kept /\ saved'.store = Nearer(saved.store)
        /\ saved'.pre = saved.pre /\ saved'.config = saved.config
    BY <2>1, <2>2 DEF Kept
  <2> QED
    BY <1>1, <1>2, <1>3, <1>4, <2>1, <2>2, <2>3
<1>5. CASE saved = None
  BY <1>3, <1>5 DEF Tick
<1> QED
  BY <1>3, <1>4, <1>5

\* Every step keeps the types: one payload at a time is in the resource table.
LEMMA NodeTypesStep ==
  ASSUME WasmNodeAssumption, NodeTypes, Phases, Current, [Next]_vars PROVE NodeTypes'
<1> USE DEF NodeTypes, Phases, Running, StoreType, Kept, WasmNodeAssumption
<1>1. CASE Burn
  BY <1>1 DEF Burn
<1>2. CASE Tick
  BY <1>2, TickKeeps DEF Tick, Ticked
<1>3. CASE BeginCall
  <2>1. Deadline \in Nat \cup {None}
    BY DEF WasmNodeAssumption
  <2>2. Armed(store, Deadline) \in StoreType /\ Armed(store, Deadline).buffers = 0
    BY <1>3, <2>1, ArmedStore DEF BeginCall, Current
  <2>3. store' \in StoreType
    BY <1>3, <2>2 DEF BeginCall, StoreType
  <2> QED
    BY <1>3, <2>3 DEF BeginCall, WasmNodeAssumption
<1>4. CASE PushBufferFails
  <2>1. Deadline \in Nat \cup {None}
    BY Limits DEF WasmNodeAssumption
  <2>2. store' \in StoreType
    BY <1>4, <2>1, ArmedStore DEF PushBufferFails
  <2> QED
    BY <1>4, <2>2 DEF PushBufferFails
<1>5. CASE CallEnds
  <2>1. store' \in StoreType
    <3>1. PICK trapped, failed, condemned \in BOOLEAN : EndCall(trapped, failed, condemned)
      BY <1>5 DEF CallEnds
    <3>2. store.buffers = 1 /\ store' = [store EXCEPT !.buffers = 0, !.trapped = trapped]
      BY <3>1 DEF EndCall, Released, Current
    <3>3. \/ store' = [store EXCEPT !.buffers = 0, !.trapped = TRUE]
          \/ store' = [store EXCEPT !.buffers = 0, !.trapped = FALSE]
      BY <3>2
    <3>4. store \in StoreType /\ 0 \in 0 .. 1
      OBVIOUS
    <3> HIDE DEF StoreType
    <3>5. /\ [store EXCEPT !.buffers = 0, !.trapped = TRUE] \in StoreType
          /\ [store EXCEPT !.buffers = 0, !.trapped = FALSE] \in StoreType
      BY ONLY <3>4, ReleasedStore
    <3> QED
      BY ONLY <3>3, <3>5
  <2> QED
    BY <1>5, <2>1 DEF CallEnds, EndCall
<1>6. CASE Recover
  BY <1>6, FreshStore DEF Recover
<1>7. CASE Reconfigure
  BY <1>7, FreshStore DEF Reconfigure
<1>8. CASE PrepareSwap
  BY <1>8, FreshStore DEF PrepareSwap
<1>9. CASE HotSwap
  BY <1>9 DEF HotSwap, SwapAllowed
<1>10. CASE Install
  BY <1>10 DEF Install
<1>11. CASE ArmLifecycle
  <2>1. LifecycleDeadline \in Nat \cup {None}
    BY Limits DEF WasmNodeAssumption
  <2>2. store' \in StoreType
    BY <1>11, <2>1, ArmedStore DEF ArmLifecycle
  <2> QED
    BY <1>11, <2>2 DEF ArmLifecycle, WasmNodeAssumption
<1>12. CASE Validated
  BY <1>12 DEF Validated
<1>13. CASE Initialised
  BY <1>13 DEF Initialised
<1>14. CASE AskOutputPorts
  <2>1. LifecycleDeadline \in Nat \cup {None}
    BY Limits DEF WasmNodeAssumption
  <2>2. store' \in StoreType
    BY <1>14, <2>1, ArmedStore DEF AskOutputPorts
  <2> QED
    BY <1>14, <2>2 DEF AskOutputPorts, WasmNodeAssumption
<1>15. CASE OutputPorts
  BY <1>15 DEF OutputPorts
<1>16. CASE LifecycleFails
  BY <1>16 DEF LifecycleFails, Restored, NotRestored
<1>17. CASE CanaryWindowEnds
  BY <1>17 DEF CanaryWindowEnds
<1>18. CASE UNCHANGED vars
  BY <1>18 DEF vars
<1> QED
  BY <1>1, <1>2, <1>3, <1>4, <1>5, <1>6, <1>7, <1>8, <1>9, <1>10, <1>11, <1>12, <1>13,
     <1>14, <1>15, <1>16, <1>17, <1>18, Disjuncts

\* Every step keeps Phases: the fresh Store lives from its instantiation to its
\* installation, and what a mutation replaced to the mutation's end.
LEMMA PhasesStep ==
  ASSUME WasmNodeAssumption, NodeTypes, Phases, [Next]_vars PROVE Phases'
<1> USE DEF NodeTypes, Phases, WasmNodeAssumption
<1>1. CASE Burn
  BY <1>1 DEF Burn
<1>2. CASE Tick
  BY <1>2, TickKeeps DEF Tick, Ticked
<1>3. CASE BeginCall
  BY <1>3, ArmedStore DEF BeginCall
<1>4. CASE PushBufferFails
  BY <1>4, ArmedStore DEF PushBufferFails
<1>5. CASE CallEnds
  BY <1>5 DEF CallEnds, EndCall, Released
<1>6. CASE Recover
  BY <1>6, FreshStore DEF Recover
<1>7. CASE Reconfigure
  <2>1. CASE UNCHANGED <<fresh, pc, config, saved>>
    BY <1>7, <2>1 DEF Reconfigure
  <2>2. CASE fresh' \in Instantiated(NewStore(pre, Granted)) /\ pc' = "install"
             /\ (\E c \in Configs : config' = c)
             /\ saved' = [store |-> store, pre |-> pre, config |-> config]
    <3>1. fresh' # None
      BY <2>2, FreshStore
    <3>2. saved' \in Kept
      BY <2>2 DEF Kept
    <3> QED
      BY <1>7, <2>2, <3>1, <3>2 DEF Reconfigure
  <2> QED
    BY <1>7, <2>1, <2>2 DEF Reconfigure
<1>8. CASE PrepareSwap
  BY <1>8, FreshStore DEF PrepareSwap
<1>9. CASE HotSwap
  <2>1. CASE SwapAllowed(replacement)
    <3>1. saved' \in Kept
      BY <1>9, <2>1 DEF HotSwap, Kept
    <3> QED
      BY <1>9, <2>1, <3>1 DEF HotSwap
  <2>2. CASE ~SwapAllowed(replacement)
    BY <1>9, <2>2 DEF HotSwap
  <2> QED
    BY <2>1, <2>2
<1>10. CASE Install
  BY <1>10 DEF Install
<1>11. CASE ArmLifecycle
  BY <1>11, ArmedStore, Limits DEF ArmLifecycle
<1>12. CASE Validated
  BY <1>12 DEF Validated
<1>13. CASE Initialised
  BY <1>13 DEF Initialised
<1>14. CASE AskOutputPorts
  BY <1>14, ArmedStore, Limits DEF AskOutputPorts
<1>15. CASE OutputPorts
  BY <1>15 DEF OutputPorts
<1>16. CASE LifecycleFails
  BY <1>16 DEF LifecycleFails, Restored, NotRestored
<1>17. CASE CanaryWindowEnds
  BY <1>17 DEF CanaryWindowEnds
<1>18. CASE UNCHANGED vars
  BY <1>18 DEF vars
<1> QED
  BY <1>1, <1>2, <1>3, <1>4, <1>5, <1>6, <1>7, <1>8, <1>9, <1>10, <1>11, <1>12, <1>13,
     <1>14, <1>15, <1>16, <1>17, <1>18, Disjuncts

\* Every step keeps Current: a trapped instance is replaced before the next
\* call, and a mutation that fails puts back component, configuration and Store
\* together.
LEMMA CurrentStep ==
  ASSUME WasmNodeAssumption, NodeTypes, Phases, Current, [Next]_vars PROVE Current'
<1> USE DEF NodeTypes, Phases, Current, Sound, StoreType, Kept, WasmNodeAssumption
<1>1. CASE Burn
  BY <1>1 DEF Burn
<1>2. CASE Tick
  BY <1>2, TickKeeps DEF Tick, Ticked
<1>3. CASE BeginCall
  BY <1>3, ArmedStore DEF BeginCall
<1>4. CASE PushBufferFails
  <2>1. Deadline \in Nat \cup {None}
    BY Limits DEF WasmNodeAssumption
  <2>2. store' = Armed(store, Deadline) /\ store \in StoreType
    BY <1>4 DEF PushBufferFails
  <2> HIDE DEF StoreType, Phases, Current, Kept, WasmNodeAssumption
  <2>3. store'.grant = store.grant /\ store'.buffers = store.buffers
    BY <2>1, <2>2, ArmedStore
  <2> USE DEF Phases, Current, WasmNodeAssumption
  <2> QED
    BY <1>4, <2>3 DEF PushBufferFails
<1>5. CASE CallEnds
  BY <1>5 DEF CallEnds, EndCall, Released
<1>6. CASE Recover
  BY <1>6, FreshStore DEF Recover
<1>7. CASE Reconfigure
  BY <1>7, FreshStore DEF Reconfigure
<1>8. CASE PrepareSwap
  BY <1>8, FreshStore DEF PrepareSwap
<1>9. CASE HotSwap
  BY <1>9 DEF HotSwap, SwapAllowed
<1>10. CASE Install
  BY <1>10 DEF Install
<1>11. CASE ArmLifecycle
  <2>1. LifecycleDeadline \in Nat \cup {None}
    BY Limits DEF WasmNodeAssumption
  <2>2. /\ store'.component = store.component /\ store'.grant = store.grant
        /\ store'.config = store.config /\ store'.buffers = store.buffers
        /\ store'.trapped = store.trapped
    BY <1>11, <2>1, ArmedStore DEF ArmLifecycle
  <2> QED
    BY <1>11, <2>2 DEF ArmLifecycle
<1>12. CASE Validated
  BY <1>12 DEF Validated
<1>13. CASE Initialised
  BY <1>13 DEF Initialised
<1>14. CASE AskOutputPorts
  <2>1. LifecycleDeadline \in Nat \cup {None}
    BY Limits DEF WasmNodeAssumption
  <2>2. /\ store'.component = store.component /\ store'.grant = store.grant
        /\ store'.config = store.config /\ store'.buffers = store.buffers
        /\ store'.trapped = store.trapped
    BY <1>14, <2>1, ArmedStore DEF AskOutputPorts
  <2> QED
    BY <1>14, <2>2 DEF AskOutputPorts
<1>15. CASE OutputPorts
  BY <1>15 DEF OutputPorts
<1>16. CASE LifecycleFails
  BY <1>16 DEF LifecycleFails, Restored, NotRestored
<1>17. CASE CanaryWindowEnds
  BY <1>17 DEF CanaryWindowEnds
<1>18. CASE UNCHANGED vars
  BY <1>18 DEF vars
<1> QED
  BY <1>1, <1>2, <1>3, <1>4, <1>5, <1>6, <1>7, <1>8, <1>9, <1>10, <1>11, <1>12, <1>13,
     <1>14, <1>15, <1>16, <1>17, <1>18, Disjuncts

\* Every step keeps Budgeted: a call starts with its limits re-armed, and only
\* the guest's own steps and the ticker take from them.
LEMMA BudgetedStep ==
  ASSUME WasmNodeAssumption, NodeTypes, Phases, Budgeted, [Next]_vars PROVE Budgeted'
<1> USE DEF NodeTypes, Phases, Budgeted, Running, StoreType, WasmNodeAssumption, MetersFuel,
            FuelBudget, LifecycleDeadline
<1>1. CASE Burn
  BY <1>1 DEF Burn
<1>2. CASE Tick
  <2>1. /\ store'.fuel = store.fuel
        /\ store.left = None => store'.left = None
        /\ store.left \in Nat => store'.left \in Nat /\ store'.left + 1 >= store.left
        /\ store.left \in Nat /\ store.left # 0 => store'.left + 1 = store.left
    BY <1>2, NearerStore DEF Tick, Nearer, NodeTypes, StoreType, WasmNodeAssumption
  <2>2. UNCHANGED <<pc, kind, used>> /\ Deadline # None
    BY <1>2 DEF Tick
  <2>3. Running => ran' = ran + 1 \/ (ran' = ran /\ ran >= LifecycleDeadline)
    BY <1>2, <2>2, Limits DEF Tick
  <2> QED
    BY <2>1, <2>2, <2>3, Limits
<1>3. CASE BeginCall
  BY <1>3, ArmedStore DEF BeginCall
<1>4. CASE PushBufferFails
  BY <1>4, ArmedStore DEF PushBufferFails
<1>5. CASE CallEnds
  BY <1>5 DEF CallEnds, EndCall, Released
<1>6. CASE Recover
  BY <1>6, FreshStore DEF Recover
<1>7. CASE Reconfigure
  BY <1>7, FreshStore DEF Reconfigure
<1>8. CASE PrepareSwap
  BY <1>8, FreshStore DEF PrepareSwap
<1>9. CASE HotSwap
  BY <1>9 DEF HotSwap, SwapAllowed
<1>10. CASE Install
  BY <1>10 DEF Install
<1>11. CASE ArmLifecycle
  BY <1>11, ArmedStore, Limits DEF ArmLifecycle
<1>12. CASE Validated
  BY <1>12 DEF Validated
<1>13. CASE Initialised
  BY <1>13 DEF Initialised
<1>14. CASE AskOutputPorts
  BY <1>14, ArmedStore, Limits DEF AskOutputPorts
<1>15. CASE OutputPorts
  BY <1>15 DEF OutputPorts
<1>16. CASE LifecycleFails
  BY <1>16 DEF LifecycleFails, Restored, NotRestored
<1>17. CASE CanaryWindowEnds
  BY <1>17 DEF CanaryWindowEnds
<1>18. CASE UNCHANGED vars
  BY <1>18 DEF vars
<1> QED
  BY <1>1, <1>2, <1>3, <1>4, <1>5, <1>6, <1>7, <1>8, <1>9, <1>10, <1>11, <1>12, <1>13,
     <1>14, <1>15, <1>16, <1>17, <1>18, Disjuncts

\* The node is launched in the invariant.
LEMMA NodeInit == ASSUME WasmNodeAssumption, Init PROVE NodeInv
<1>1. kind \in Kinds /\ pre \in Components /\ Granted \in Grants
  BY DEF Init, WasmNodeAssumption
<1>2. /\ store \in StoreType
      /\ store.component = pre /\ store.grant = Granted /\ store.buffers = 0 /\ ~store.trapped
  BY <1>1, FreshStore DEF Init
<1>3. NodeTypes
  BY <1>2 DEF Init, NodeTypes, WasmNodeAssumption
<1>4. Phases
  BY DEF Init, Phases
<1>5. Current
  BY <1>2 DEF Init, Current
<1>6. Budgeted
  BY DEF Init, Budgeted, Running
<1> QED
  BY <1>3, <1>4, <1>5, <1>6 DEF NodeInv

\* The invariant is inductive.
LEMMA NodeStep == ASSUME WasmNodeAssumption, NodeInv, [Next]_vars PROVE NodeInv'
  BY NodeTypesStep, PhasesStep, CurrentStep, BudgetedStep DEF NodeInv

\* The invariant is what the run checks, and more.
LEMMA NodeContained == ASSUME WasmNodeAssumption, NodeInv PROVE GuestContained
<1> USE DEF NodeInv
<1>1. NodeTypeOK
  BY DEF NodeTypeOK, NodeTypes, Phases
<1>2. Interrupted => ran >= IF pc = "guest" THEN Deadline ELSE LifecycleDeadline
  BY Limits DEF Interrupted, Budgeted, NodeTypes, WasmNodeAssumption
<1>3. OutOfFuel => used >= IF NodeFuel # None THEN NodeFuel
                           ELSE IF RoleFuel[kind] # None THEN RoleFuel[kind] ELSE Plenty
  <2> SUFFICES ASSUME OutOfFuel PROVE used >= FuelBudget /\ MetersFuel
    BY DEF FuelBudget
  <2> QED
    BY Limits DEF OutOfFuel, Budgeted, NodeTypes
<1>4. InstanceIsCurrent /\ GrantKept /\ BuffersReturned
  BY DEF InstanceIsCurrent, GrantKept, BuffersReturned, Current
<1> QED
  BY <1>1, <1>2, <1>3, <1>4 DEF GuestContained, BudgetHonoured

\* For every component, configuration, grant and budget: a guest is stopped
\* only when the call it is in used up its own budget, a message is processed
\* by an untrapped instance of the node's current component, configuration and
\* grant, and the resource table holds a payload during its call only.
THEOREM HostContainsGuest == ASSUME WasmNodeAssumption PROVE Spec => []GuestContained
  BY NodeInit, NodeStep, NodeContained, PTL DEF Spec

\* In a metered engine a node without a budget of its own is never stopped for
\* fuel.
THEOREM NeverStarved ==
  ASSUME WasmNodeAssumption, NodeFuel = None, \A k \in Kinds : RoleFuel[k] = None
  PROVE  Spec => []~OutOfFuel
<1>1. NodeInv => ~OutOfFuel
  BY DEF NodeInv, NodeTypes, Budgeted, OutOfFuel, FuelBudget, Plenty, WasmNodeAssumption
<1> QED
  BY <1>1, NodeInit, NodeStep, PTL DEF Spec

-----------------------------------------------------------------------------
(***************************************************************************)
(* Outbound HTTP.                                                          *)
(***************************************************************************)
CONSTANTS Garbled, GrantLists, Requests, Answers, Timeout, MaxFrames
VARIABLES grants, request, dest, answer, address, left, frames, sent, error
Http == INSTANCE OutboundHttp

\* The places from the hook's decision on, and from the connection on.
Granting == {"address", "connect", "tls", "handshake", "send", "body", "done"}

HttpTypes ==
    /\ pc \in {"idle", "failed"} \cup Granting
    /\ left \in 0 .. Timeout /\ sent \in 0 .. MaxFrames /\ frames \in 0 .. sent
    /\ error \in Http!Errors \cup {None} /\ ((error # None) <=> (pc = "failed"))

\* A destination as an operator configured it, in canonical form.
Configured(g) ==
    /\ g # None
    /\ \E list \in GrantLists : \E i \in DOMAIN list : g = Http!Canonicalize(list[i])

Frozen == grants # None => \A g \in grants : Configured(g)

\* What was asked for is granted, wherever the request has got to.
Asked ==
    /\ pc # "idle" => grants # None /\ request \in Requests /\ dest = Http!Authorize(request)
    /\ pc \in Granting => dest # None
    /\ pc # "idle" => (error = "HttpRequestDenied" <=> dest = None)

\* Where the address that is connected to comes from.
Reached ==
    /\ pc \in {"idle", "address"} => address = None
    /\ address # None =>
         /\ dest # None
         /\ "dns" \notin DOMAIN dest.host => address = dest.host.ip
         /\ "dns" \in DOMAIN dest.host =>
              /\ Http!IsAddress(address) /\ Http!PermittedDns(address)
              /\ \E i \in DOMAIN answer : answer[i] = address

HttpInv == HttpTypes /\ Frozen /\ Asked /\ Reached

\* What a canonical destination has of the one it was written as.
LEMMA CanonicalIs ==
  ASSUME NEW d, Http!Canonicalize(d) # None
  PROVE  LET g == Http!Canonicalize(d) IN
         /\ g.scheme = d.scheme /\ g.port # 0
         /\ g.port = IF d.port = None THEN Http!DefaultPort(d.scheme) ELSE d.port
         /\ \/ /\ d.host.form = "ip" /\ Http!PermittedLiteral(d.host.ip)
               /\ g.host = [ip |-> d.host.ip]
            \/ d.host.form = "name" /\ g.host = [dns |-> d.host.name]
         /\ g = [scheme |-> g.scheme, host |-> g.host, port |-> g.port]
  <1> DEFINE host == Http!CanonicalHost(d.host)
             port == IF d.port = None THEN Http!DefaultPort(d.scheme) ELSE d.port
  <1>1. /\ host # None /\ port # 0
        /\ Http!Canonicalize(d) = [scheme |-> d.scheme, host |-> host, port |-> port]
    BY DEF Http!Canonicalize
  <1>2. \/ d.host.form = "ip" /\ Http!PermittedLiteral(d.host.ip) /\ host = [ip |-> d.host.ip]
        \/ d.host.form = "name" /\ host = [dns |-> d.host.name]
    BY <1>1 DEF Http!CanonicalHost
  <1> HIDE DEF host, port
  <1> QED BY <1>1, <1>2 DEF port

\* What the hook lets through is a granted destination.
LEMMA AuthorizedIs ==
  ASSUME NEW r, Http!Authorize(r) # None
  PROVE  LET d == [scheme |-> r.scheme, host |-> Http!AuthorityHost(r),
                   port |-> IF r.port \in Nat THEN r.port ELSE Http!DefaultPort(r.scheme)] IN
         /\ Http!Authorize(r) \in grants /\ r.method # "CONNECT"
         /\ r.scheme \in {"http", "https"}
         /\ None \notin Nat => Http!Authorize(r) = Http!Canonicalize(d)
  <1>1. ASSUME None \notin Nat
        PROVE  (IF (IF r.port \in Nat THEN r.port ELSE None) = None
                THEN Http!DefaultPort(r.scheme) ELSE IF r.port \in Nat THEN r.port ELSE None)
                 = IF r.port \in Nat THEN r.port ELSE Http!DefaultPort(r.scheme)
    BY <1>1
  <1> QED BY <1>1 DEF Http!Authorize


\* It is for exactly the scheme, host and port of the request.
LEMMA GrantedIs ==
  ASSUME Http!HttpAssumption, NEW r, Http!Authorize(r) # None
  PROVE  LET g == Http!Authorize(r) IN
         /\ g \in grants /\ r.method # "CONNECT"
         /\ g.scheme = r.scheme
         /\ g.port = IF r.port \in Nat THEN r.port ELSE Http!DefaultPort(r.scheme)
         /\ \/ /\ r.host.form = "ip" /\ g.host = [ip |-> r.host.ip]
               /\ "dns" \notin DOMAIN g.host /\ g.host.ip = r.host.ip
            \/ /\ r.host.form = "name" /\ g.host = [dns |-> r.host.name]
               /\ "dns" \in DOMAIN g.host /\ "ip" \notin DOMAIN g.host
               /\ g.host.dns = r.host.name
         /\ ~Http!IsV6Literal(r.host)
  <1> DEFINE port == IF r.port \in Nat THEN r.port ELSE Http!DefaultPort(r.scheme)
             d == [scheme |-> r.scheme, host |-> Http!AuthorityHost(r), port |-> port]
             g == Http!Authorize(r)
  <1>1. None \notin Nat /\ port # None
    BY DEF Http!HttpAssumption, Http!DefaultPort
  <1>2. g \in grants /\ r.method # "CONNECT" /\ g = Http!Canonicalize(d)
    BY <1>1, AuthorizedIs
  <1>3. d.scheme = r.scheme /\ d.port = port /\ d.host = Http!AuthorityHost(r)
    OBVIOUS
  <1>4. /\ Http!AuthorityHost(r) = r.host \/ Http!AuthorityHost(r).form = "bracketed"
        /\ Http!IsV6Literal(r.host) => Http!AuthorityHost(r).form = "bracketed"
    BY DEF Http!AuthorityHost, Http!IsV6Literal
  <1> HIDE DEF d, g, port
  <1>5. g # None
    BY DEF g
  <1>6. /\ g.scheme = d.scheme
        /\ g.port = IF d.port = None THEN Http!DefaultPort(d.scheme) ELSE d.port
        /\ \/ d.host.form = "ip" /\ g.host = [ip |-> d.host.ip]
           \/ d.host.form = "name" /\ g.host = [dns |-> d.host.name]
    BY <1>2, <1>5, CanonicalIs
  <1>7. /\ \/ r.host.form = "ip" /\ g.host = [ip |-> r.host.ip]
           \/ r.host.form = "name" /\ g.host = [dns |-> r.host.name]
        /\ ~Http!IsV6Literal(r.host)
    BY <1>3, <1>4, <1>6
  <1>8. /\ g.host = [ip |-> r.host.ip] => "dns" \notin DOMAIN g.host /\ g.host.ip = r.host.ip
        /\ g.host = [dns |-> r.host.name] =>
             "dns" \in DOMAIN g.host /\ "ip" \notin DOMAIN g.host /\ g.host.dns = r.host.name
    OBVIOUS
  <1> QED BY <1>1, <1>2, <1>3, <1>6, <1>7, <1>8 DEF g, port

\* The address that is chosen is one of the answer, and permitted.
LEMMA SelectedIs ==
  ASSUME NEW a, a \in Seq({a[i] : i \in DOMAIN a}), \E i \in DOMAIN a : Http!PermittedDns(a[i])
  PROVE  \E i \in DOMAIN a : a[i] = Http!SelectPermitted(a) /\ Http!PermittedDns(a[i])
  <1> DEFINE T == {i \in DOMAIN a : Http!PermittedDns(a[i])}
             less == {p \in Nat \X Nat : p[1] < p[2]}
  <1>1. DOMAIN a = 1 .. Len(a) /\ Len(a) \in Nat
    OBVIOUS
  <1>2. T \in SUBSET Nat /\ T # {}
    BY <1>1
  <1> HIDE DEF T
  <1>3. PICK x \in T : \A y \in T : <<y, x>> \notin less
    <2>1. IsWellFoundedOn(less, Nat)
      BY NatLessThanWellFounded DEF OpToRel
    <2> HIDE DEF less
    <2> QED BY <1>2, <2>1, WFMin
  <1>4. /\ x \in DOMAIN a /\ Http!PermittedDns(a[x])
        /\ \A j \in 1 .. x - 1 : ~Http!PermittedDns(a[j])
    <2>1. x \in DOMAIN a /\ Http!PermittedDns(a[x])
      BY DEF T
    <2>2. ASSUME NEW j \in 1 .. x - 1, Http!PermittedDns(a[j]) PROVE FALSE
      <3>1. j \in T /\ j \in Nat /\ x \in Nat /\ j < x
        BY <1>1, <2>1, <2>2 DEF T
      <3> QED BY <1>3, <3>1
    <2> QED BY <2>1, <2>2
  <1> DEFINE C(i) == Http!PermittedDns(a[i]) /\ \A j \in 1 .. i - 1 : ~Http!PermittedDns(a[j])
             c == CHOOSE i \in DOMAIN a : C(i)
  <1>5. c \in DOMAIN a /\ C(c)
    <2>1. \E i \in DOMAIN a : C(i)
      BY <1>4
    <2> HIDE DEF C
    <2> QED BY <2>1
  <1>6. a[c] = Http!SelectPermitted(a)
    BY DEF Http!SelectPermitted
  <1> QED BY <1>5, <1>6

LEMMA HttpInvInit == ASSUME Http!HttpAssumption, Http!Init PROVE HttpInv
  <1>1. HttpTypes
    BY DEF Http!Init, Http!HttpAssumption, HttpTypes, Granting
  <1>2. Frozen
    <2>1. PICK list \in GrantLists : grants = Http!FrozenGrant(list)
      BY DEF Http!Init
    <2>2. grants # None => None \notin grants
                           /\ grants = {Http!Canonicalize(list[i]) : i \in DOMAIN list}
      BY <2>1 DEF Http!FrozenGrant
    <2> QED BY <2>2 DEF Frozen, Configured
  <1>3. Asked /\ Reached
    BY DEF Http!Init, Http!HttpAssumption, Http!Errors, Asked, Reached, Granting
  <1> QED BY <1>1, <1>2, <1>3 DEF HttpInv

\* A failure changes the place and the error only.
LEMMA FailKeeps ==
  ASSUME Http!HttpAssumption, HttpInv, pc \in Granting, NEW e \in Http!Errors, Http!Fail(e),
         e # "HttpRequestDenied"
  PROVE  HttpInv'
  <1>1. /\ pc' = "failed" /\ error' = e /\ e # None
        /\ UNCHANGED <<grants, request, dest, answer, address, left, frames, sent>>
    BY DEF Http!Fail, Http!HttpAssumption
  <1>2. Http!Authorize(request)' = Http!Authorize(request)
    BY <1>1 DEF Http!Authorize
  <1> QED BY <1>1, <1>2 DEF HttpInv, HttpTypes, Frozen, Asked, Reached, Granting

\* The phases of a connection change neither what was asked nor the address.
LEMMA PhaseKeeps ==
  ASSUME Http!HttpAssumption, HttpInv, pc \in Granting \ {"address"}, pc' \in Granting \ {"address"},
         UNCHANGED <<grants, request, dest, answer, address, error>>,
         left' \in 0 .. Timeout, sent' \in 0 .. MaxFrames, frames' \in 0 .. sent'
  PROVE  HttpInv'
  <1>1. Http!Authorize(request)' = Http!Authorize(request)
    BY DEF Http!Authorize
  <1>2. error = None
    BY DEF HttpInv, HttpTypes, Granting
  <1> QED BY <1>1, <1>2 DEF HttpInv, HttpTypes, Frozen, Asked, Reached, Granting, Http!HttpAssumption

LEMMA HttpStep ==
  ASSUME Http!HttpAssumption, HttpInv, [Http!Next]_(Http!vars) PROVE HttpInv'
  <1>0. /\ Timeout \in Nat \ {0} /\ MaxFrames \in Nat /\ None \notin Nat /\ None \notin Http!Errors
        /\ left \in 0 .. Timeout /\ sent \in 0 .. MaxFrames /\ frames \in 0 .. sent
    BY DEF Http!HttpAssumption, HttpInv, HttpTypes
  <1>1. CASE UNCHANGED Http!vars
    <2>1. Http!Authorize(request)' = Http!Authorize(request)
      BY <1>1 DEF Http!Authorize, Http!vars
    <2> QED BY <1>1, <2>1 DEF Http!vars, HttpInv, HttpTypes, Frozen, Asked, Reached, Granting
  <1>2. CASE Http!SendRequest
    <2>1. /\ pc = "idle" /\ grants # None /\ request' \in Requests
          /\ dest' = Http!Authorize(request')
          /\ IF dest' = None THEN pc' = "failed" /\ error' = "HttpRequestDenied"
             ELSE pc' = "address" /\ UNCHANGED error
          /\ UNCHANGED <<grants, answer, address, left, frames, sent>>
      BY <1>2 DEF Http!SendRequest
    <2>2. error = None /\ address = None
      BY <2>1 DEF HttpInv, HttpTypes, Reached
    <2>3. (dest = Http!Authorize(request))'
      BY <2>1 DEF Http!Authorize
    <2>4. "HttpRequestDenied" \in Http!Errors /\ "HttpRequestDenied" # None
      BY <1>0 DEF Http!Errors
    <2> QED BY <2>1, <2>2, <2>3, <2>4 DEF HttpInv, HttpTypes, Frozen, Asked, Reached, Granting
  <1>3. CASE Http!SocketAddrLiteral
    <2>1. /\ pc = "address" /\ "ip" \in DOMAIN dest.host /\ address' = dest.host.ip
          /\ pc' = "connect" /\ left' = Timeout
          /\ UNCHANGED <<grants, request, dest, answer, frames, sent, error>>
      BY <1>3 DEF Http!SocketAddrLiteral
    <2>2. dest # None /\ dest = Http!Authorize(request)
      BY <2>1 DEF HttpInv, Asked, Granting
    <2>3. "dns" \notin DOMAIN dest.host
      BY <2>1, <2>2, GrantedIs
    <2>4. Http!Authorize(request)' = Http!Authorize(request)
      BY <2>1 DEF Http!Authorize
    <2>5. error = None
      BY <2>1 DEF HttpInv, HttpTypes
    <2> QED BY <1>0, <2>1, <2>2, <2>3, <2>4, <2>5
            DEF HttpInv, HttpTypes, Frozen, Asked, Reached, Granting
  <1>4. CASE Http!SocketAddrDns
    <2>1. /\ pc = "address" /\ "dns" \in DOMAIN dest.host /\ answer' \in Answers
          /\ IF \E i \in DOMAIN answer' : Http!PermittedDns(answer'[i])
             THEN /\ address' = Http!SelectPermitted(answer')
                  /\ pc' = "connect" /\ left' = Timeout /\ UNCHANGED error
             ELSE /\ pc' = "failed"
                  /\ error' \in {"DestinationNotFound", "DestinationIpProhibited"}
                  /\ UNCHANGED <<address, left>>
          /\ UNCHANGED <<grants, request, dest, frames, sent>>
      BY <1>4 DEF Http!SocketAddrDns
    <2>2. dest # None /\ address = None /\ error = None
      BY <2>1 DEF HttpInv, Asked, Granting, Reached, HttpTypes
    <2>3. Http!Authorize(request)' = Http!Authorize(request)
      BY <2>1 DEF Http!Authorize
    <2>4. CASE \E i \in DOMAIN answer' : Http!PermittedDns(answer'[i])
      <3>1. /\ address' = Http!SelectPermitted(answer') /\ pc' = "connect" /\ left' = Timeout
            /\ UNCHANGED error
        BY <2>1, <2>4
      <3>2. answer' \in Seq({answer'[i] : i \in DOMAIN answer'})
            /\ \A i \in DOMAIN answer' : Http!IsAddress(answer'[i])
        BY <2>1 DEF Http!HttpAssumption
      <3>3. PICK i \in DOMAIN answer' :
              answer'[i] = Http!SelectPermitted(answer') /\ Http!PermittedDns(answer'[i])
        BY <2>4, <3>2, SelectedIs
      <3>4. Http!IsAddress(address') /\ Http!PermittedDns(address') /\ answer'[i] = address'
        BY <3>1, <3>2, <3>3
      <3>5. Http!IsAddress(address)' /\ Http!PermittedDns(address)'
        BY <3>4 DEF Http!IsAddress, Http!PermittedDns, Http!GlobalV4, Http!GlobalV6
      <3> QED BY <1>0, <2>1, <2>2, <2>3, <3>1, <3>4, <3>5
              DEF HttpInv, HttpTypes, Frozen, Asked, Reached, Granting
    <2>5. CASE ~\E i \in DOMAIN answer' : Http!PermittedDns(answer'[i])
      <3>1. error' \in Http!Errors /\ error' # None /\ error' # "HttpRequestDenied"
        BY <1>0, <2>1, <2>5 DEF Http!Errors
      <3> QED BY <1>0, <2>1, <2>2, <2>3, <2>5, <3>1
              DEF HttpInv, HttpTypes, Frozen, Asked, Reached, Granting
    <2> QED BY <2>4, <2>5
  <1>5. CASE Http!DnsError \/ Http!TransportFails \/ Http!TimesOut
    <2>1. /\ pc \in Granting
          /\ \E e \in Http!Errors \ {"HttpRequestDenied"} : Http!Fail(e)
      BY <1>5 DEF Http!DnsError, Http!TransportFails, Http!TimesOut, Granting, Http!Errors
    <2> QED BY <2>1, FailKeeps
  <1>6. CASE Http!Connected \/ Http!TlsDone \/ Http!HandshakeDone \/ Http!ResponseHead
    <2>1. /\ pc \in Granting \ {"address"} /\ pc' \in Granting \ {"address"} /\ left' = Timeout
          /\ UNCHANGED <<grants, request, dest, answer, address, frames, sent, error>>
      BY <1>6 DEF Http!Connected, Http!TlsDone, Http!HandshakeDone, Http!ResponseHead, Http!Enter,
                  Granting
    <2> QED BY <1>0, <2>1, PhaseKeeps
  <1>7. CASE Http!Tick \/ Http!PeerSends \/ Http!BodyEnds
    <2>1. /\ pc \in Granting \ {"address"} /\ pc' \in Granting \ {"address"}
          /\ UNCHANGED <<grants, request, dest, answer, address, error>>
      BY <1>7 DEF Http!Tick, Http!PeerSends, Http!BodyEnds, Granting
    <2>2. left' \in 0 .. Timeout /\ sent' \in 0 .. MaxFrames /\ frames' \in 0 .. sent'
      BY <1>0, <1>7 DEF Http!Tick, Http!PeerSends, Http!BodyEnds
    <2> QED BY <2>1, <2>2, PhaseKeeps
  <1>8. CASE Http!PollFrame
    <2>1. CASE frames > 0
      <3>1. /\ pc = "body" /\ frames' = frames - 1 /\ left' = Timeout
            /\ UNCHANGED <<grants, request, pc, dest, answer, address, sent, error>>
        BY <1>8, <2>1 DEF Http!PollFrame
      <3> QED BY <1>0, <2>1, <3>1, PhaseKeeps DEF Granting
    <2>2. CASE ~(frames > 0)
      BY <1>8, <2>2, FailKeeps DEF Http!PollFrame, Granting, Http!Errors
    <2> QED BY <2>1, <2>2
  <1>9. CASE Http!Forget
    BY <1>0, <1>9 DEF Http!Forget, HttpInv, HttpTypes, Frozen, Asked, Reached, Granting, Http!Errors
  <1> QED BY <1>1, <1>2, <1>3, <1>4, <1>5, <1>6, <1>7, <1>8, <1>9 DEF Http!Next

LEMMA HttpInvHolds == ASSUME Http!HttpAssumption PROVE Http!Spec => []HttpInv
  <1>1. HttpInv /\ [Http!Next]_(Http!vars) => HttpInv'
    BY HttpStep
  <1>2. Http!Init => HttpInv
    BY HttpInvInit
  <1> QED BY <1>1, <1>2, PTL DEF Http!Spec


\* An address that is connected to is an octet quadruple or of version 6.
LEMMA AddressIs ==
  ASSUME Http!HttpAssumption, HttpInv, address # None
  PROVE  /\ Http!IsAddress(address)
         /\ "dns" \in DOMAIN dest.host => Http!PermittedDns(address)
         /\ "dns" \notin DOMAIN dest.host => Http!PermittedLiteral(address)
  <1>1. CASE "dns" \in DOMAIN dest.host
    BY <1>1 DEF HttpInv, Reached
  <1>2. CASE "dns" \notin DOMAIN dest.host
    <2>1. pc # "idle" /\ dest # None /\ address = dest.host.ip
      BY <1>2 DEF HttpInv, Reached
    <2>2. grants # None /\ dest = Http!Authorize(request)
      BY <2>1 DEF HttpInv, Asked
    <2>3. dest \in grants
      BY <2>1, <2>2, GrantedIs
    <2>4. PICK list \in GrantLists : \E i \in DOMAIN list : dest = Http!Canonicalize(list[i])
      BY <2>2, <2>3 DEF HttpInv, Frozen, Configured
    <2>5. PICK i \in DOMAIN list : dest = Http!Canonicalize(list[i])
      BY <2>4
    <2>6. \/ /\ list[i].host.form = "ip" /\ Http!PermittedLiteral(list[i].host.ip)
             /\ dest.host = [ip |-> list[i].host.ip]
          \/ list[i].host.form = "name" /\ dest.host = [dns |-> list[i].host.name]
      BY <2>1, <2>5, CanonicalIs
    <2>7. dest.host.ip = list[i].host.ip /\ Http!PermittedLiteral(list[i].host.ip)
          /\ list[i].host.form = "ip"
      BY <1>2, <2>6
    <2>8. Http!IsAddress(list[i].host.ip)
      BY <2>7 DEF Http!HttpAssumption, Http!IsHost
    <2> QED BY <1>2, <2>1, <2>7, <2>8
  <1> QED BY <1>1, <1>2

\* The ranges the code compares octets with are the registered blocks.
LEMMA BlocksAre ==
  ASSUME NEW o \in [1 .. 4 -> 0 .. 255]
  PROVE  /\ Http!GlobalV4(o) \/ Http!PrivateV4(o) \/ Http!LoopbackV4(o) =>
              \A b \in Http!NeverBlocks : ~Http!InBlock(o, b)
         /\ Http!GlobalV4(o) =>
              \A b \in Http!PrivateBlocks \cup {Http!LoopbackBlock} : ~Http!InBlock(o, b)
  <1>1. /\ o[1] \in 0 .. 255 /\ o[2] \in 0 .. 255 /\ o[3] \in 0 .. 255 /\ o[4] \in 0 .. 255
    OBVIOUS
  <1> DEFINE Unit(bits, i) == 2 ^ (8 - (IF bits >= 8 * i THEN 8
                                        ELSE IF bits <= 8 * (i - 1) THEN 0
                                        ELSE bits - 8 * (i - 1)))
             In(b, i) == o[i] \div Unit(b.bits, i) = b.net[i] \div Unit(b.bits, i)
  <1>2. ASSUME NEW b PROVE Http!InBlock(o, b) <=> \A i \in 1 .. 4 : In(b, i)
    BY DEF Http!InBlock
  <1>3. /\ Unit(8, 1) = 1 /\ Unit(8, 2) = 256 /\ Unit(16, 1) = 1 /\ Unit(16, 2) = 1
        /\ Unit(12, 1) = 1 /\ Unit(12, 2) = 16 /\ Unit(10, 1) = 1 /\ Unit(10, 2) = 64
        /\ Unit(24, 1) = 1 /\ Unit(24, 2) = 1 /\ Unit(24, 3) = 1
        /\ Unit(15, 1) = 1 /\ Unit(15, 2) = 2 /\ Unit(4, 1) = 16
    OBVIOUS
  <1> HIDE DEF Unit
  <1>4. ASSUME NEW n1, NEW n2, NEW n3, NEW n4, NEW bits, Http!InBlock(o, Http!Block(<<n1, n2, n3, n4>>, bits))
        PROVE  /\ o[1] \div Unit(bits, 1) = n1 \div Unit(bits, 1)
               /\ o[2] \div Unit(bits, 2) = n2 \div Unit(bits, 2)
               /\ o[3] \div Unit(bits, 3) = n3 \div Unit(bits, 3)
    <2> DEFINE b == Http!Block(<<n1, n2, n3, n4>>, bits)
    <2>1. b.bits = bits /\ b.net[1] = n1 /\ b.net[2] = n2 /\ b.net[3] = n3
      BY DEF Http!Block
    <2>2. In(b, 1) /\ In(b, 2) /\ In(b, 3)
      BY <1>2, <1>4
    <2> HIDE DEF b
    <2> QED BY <2>1, <2>2
  <1> HIDE DEF In
  <1>5. Http!InBlock(o, Http!Block(<<0, 0, 0, 0>>, 8)) => o[1] = 0
    BY <1>1, <1>3, <1>4
  <1>6. Http!InBlock(o, Http!Block(<<169, 254, 0, 0>>, 16)) => o[1] = 169 /\ o[2] = 254
    BY <1>1, <1>3, <1>4
  <1>7. Http!InBlock(o, Http!Block(<<100, 64, 0, 0>>, 10)) => o[1] = 100 /\ o[2] >= 64 /\ o[2] <= 127
    BY <1>1, <1>3, <1>4
  <1>8. /\ Http!InBlock(o, Http!Block(<<192, 0, 0, 0>>, 24)) => o[1] = 192 /\ o[2] = 0 /\ o[3] = 0
        /\ Http!InBlock(o, Http!Block(<<192, 0, 2, 0>>, 24)) => o[1] = 192 /\ o[2] = 0 /\ o[3] = 2
    BY <1>1, <1>3, <1>4
  <1>9. Http!InBlock(o, Http!Block(<<198, 18, 0, 0>>, 15)) => o[1] = 198 /\ o[2] \in {18, 19}
    BY <1>1, <1>3, <1>4
  <1>10. /\ Http!InBlock(o, Http!Block(<<198, 51, 100, 0>>, 24)) => o[1] = 198 /\ o[2] = 51 /\ o[3] = 100
         /\ Http!InBlock(o, Http!Block(<<203, 0, 113, 0>>, 24)) => o[1] = 203 /\ o[2] = 0 /\ o[3] = 113
    BY <1>1, <1>3, <1>4
  <1>11. /\ Http!InBlock(o, Http!Block(<<224, 0, 0, 0>>, 4)) => o[1] >= 224
         /\ Http!InBlock(o, Http!Block(<<240, 0, 0, 0>>, 4)) => o[1] >= 224
    BY <1>1, <1>3, <1>4
  <1>12. /\ Http!InBlock(o, Http!Block(<<10, 0, 0, 0>>, 8)) => o[1] = 10
         /\ Http!InBlock(o, Http!Block(<<127, 0, 0, 0>>, 8)) => o[1] = 127
         /\ Http!InBlock(o, Http!Block(<<172, 16, 0, 0>>, 12)) => o[1] = 172 /\ o[2] >= 16 /\ o[2] <= 31
         /\ Http!InBlock(o, Http!Block(<<192, 168, 0, 0>>, 16)) => o[1] = 192 /\ o[2] = 168
    BY <1>1, <1>3, <1>4
  <1>13. ASSUME Http!GlobalV4(o) \/ Http!PrivateV4(o) \/ Http!LoopbackV4(o),
                NEW b \in Http!NeverBlocks, Http!InBlock(o, b)
         PROVE  FALSE
    <2>1. \/ o[1] = 0 \/ o[1] >= 224
          \/ (o[1] = 169 /\ o[2] = 254)
          \/ (o[1] = 100 /\ o[2] >= 64 /\ o[2] <= 127)
          \/ (o[1] = 192 /\ o[2] = 0 /\ o[3] \in {0, 2})
          \/ (o[1] = 198 /\ o[2] \in {18, 19})
          \/ (o[1] = 198 /\ o[2] = 51 /\ o[3] = 100)
          \/ (o[1] = 203 /\ o[2] = 0 /\ o[3] = 113)
      BY <1>5, <1>6, <1>7, <1>8, <1>9, <1>10, <1>11, <1>13 DEF Http!NeverBlocks
    <2>2. ~Http!PrivateV4(o) /\ ~Http!LoopbackV4(o)
      BY <1>1, <2>1 DEF Http!PrivateV4, Http!LoopbackV4
    <2> QED BY <1>1, <1>13, <2>1, <2>2 DEF Http!GlobalV4
  <1>14. ASSUME Http!GlobalV4(o), NEW b \in Http!PrivateBlocks \cup {Http!LoopbackBlock},
                Http!InBlock(o, b)
         PROVE  FALSE
    BY <1>1, <1>12, <1>14 DEF Http!PrivateBlocks, Http!LoopbackBlock, Http!GlobalV4
  <1> QED BY <1>13, <1>14

\* Whatever a resolver answers, a request reaches no address that the operator
\* did not write down and that is not globally routable; and nothing, granted
\* or not, reaches a link-local, shared, documentation, benchmarking, multicast
\* or reserved address (is_permitted_dns_ip, is_permitted_literal_ip).
THEOREM HttpReachesPermitted ==
  ASSUME Http!HttpAssumption PROVE Http!Spec => []Http!ReachesPermitted
  <1>1. ASSUME HttpInv PROVE Http!ReachesPermitted
    <2> SUFFICES ASSUME address # None, address.v = 4
                 PROVE  /\ ~\E b \in Http!NeverBlocks : Http!InBlock(address.octets, b)
                        /\ "dns" \in DOMAIN dest.host =>
                             ~\E b \in Http!PrivateBlocks \cup {Http!LoopbackBlock} :
                                 Http!InBlock(address.octets, b)
      BY DEF Http!ReachesPermitted
    <2> DEFINE o == address.octets
    <2>1. o \in [1 .. 4 -> 0 .. 255]
      BY <1>1, AddressIs DEF Http!IsAddress
    <2>2. /\ "dns" \in DOMAIN dest.host => Http!GlobalV4(o)
          /\ Http!GlobalV4(o) \/ Http!PrivateV4(o) \/ Http!LoopbackV4(o)
      BY <1>1, AddressIs DEF Http!PermittedDns, Http!PermittedLiteral
    <2> HIDE DEF o
    <2>3. /\ \A b \in Http!NeverBlocks : ~Http!InBlock(o, b)
          /\ "dns" \in DOMAIN dest.host =>
               \A b \in Http!PrivateBlocks \cup {Http!LoopbackBlock} : ~Http!InBlock(o, b)
      BY <2>1, <2>2, BlocksAre
    <2> QED BY <2>3 DEF o
  <1> QED BY <1>1, HttpInvHolds, PTL

\* Nothing is resolved or connected unless the operator granted exactly that
\* scheme, host and port; a literal is connected as written, a name at an
\* address of its own answer (authorize, socket_addr).
THEOREM HttpConnectsAsGranted ==
  ASSUME Http!HttpAssumption PROVE Http!Spec => []Http!ConnectsAsGranted
  <1>1. ASSUME HttpInv PROVE Http!ConnectsAsGranted
    <2> SUFFICES ASSUME pc \notin {"idle", "failed"}
                 PROVE  /\ request.method # "CONNECT"
                        /\ dest \in grants /\ Http!Named(request, dest)
                        /\ address # None =>
                             IF "dns" \in DOMAIN dest.host
                             THEN \E i \in DOMAIN answer : answer[i] = address
                             ELSE address = dest.host.ip
      BY DEF Http!ConnectsAsGranted
    <2>1. dest # None /\ dest = Http!Authorize(request)
      BY <1>1 DEF HttpInv, HttpTypes, Asked
    <2>2. /\ dest \in grants /\ request.method # "CONNECT" /\ Http!Named(request, dest)
      BY <2>1, GrantedIs DEF Http!Named
    <2>3. address # None => IF "dns" \in DOMAIN dest.host
                            THEN \E i \in DOMAIN answer : answer[i] = address
                            ELSE address = dest.host.ip
      BY <1>1 DEF HttpInv, Reached
    <2> QED BY <2>2, <2>3
  <1> QED BY <1>1, HttpInvHolds, PTL

\* A grant is usable unless it is an IPv6 literal: a well-formed request is denied
\* exactly when its destination is not granted or is such a literal (authorize,
\* HttpDestination).
THEOREM HttpGrantsUsable ==
  ASSUME Http!HttpAssumption PROVE Http!Spec => []Http!GrantUsable
  <1>1. ASSUME HttpInv, pc # "idle", error # "HttpRequestDenied"
        PROVE  ~Http!IsV6Literal(request.host) /\ \E g \in grants : Http!Named(request, g)
    <2>1. dest # None /\ dest = Http!Authorize(request)
      BY <1>1 DEF HttpInv, Asked
    <2>2. /\ dest \in grants /\ Http!Named(request, dest)
          /\ ~Http!IsV6Literal(request.host)
      BY <2>1, GrantedIs DEF Http!Named
    <2> QED BY <2>2
  <1>2. ASSUME HttpInv, pc # "idle", error = "HttpRequestDenied", Http!WellFormed(request),
               ~Http!IsV6Literal(request.host), NEW g \in grants, Http!Named(request, g)
        PROVE  FALSE
    <2>a. /\ request.method # "CONNECT" /\ request.user # "user:password"
          /\ request.port # Garbled
          /\ request.host.form = "ip" => request.host.ip.v # 6
      BY <1>2 DEF Http!WellFormed, Http!IsV6Literal
    <2>0. None \notin Nat /\ None \notin Http!Errors /\ error # None
      BY <1>2 DEF Http!HttpAssumption, Http!Errors
    <2>1. /\ grants # None /\ request \in Requests /\ Http!Authorize(request) = None
      BY <1>2, <2>0 DEF HttpInv, HttpTypes, Asked
    <2>2. PICK list \in GrantLists : \E i \in DOMAIN list : g = Http!Canonicalize(list[i])
      BY <1>2, <2>1 DEF HttpInv, Frozen, Configured
    <2>3. PICK i \in DOMAIN list : g = Http!Canonicalize(list[i])
      BY <2>2
    <2> DEFINE c == list[i]
    <2>4. g # None
      BY <1>2, <2>1 DEF HttpInv, Frozen, Configured
    <2>5. c.scheme \in {"http", "https"}
      BY DEF Http!HttpAssumption
    <2> HIDE DEF c
    <2>6. /\ g.scheme = c.scheme /\ g.port # 0
          /\ \/ /\ c.host.form = "ip" /\ Http!PermittedLiteral(c.host.ip)
                /\ g.host = [ip |-> c.host.ip]
             \/ c.host.form = "name" /\ g.host = [dns |-> c.host.name]
          /\ g = [scheme |-> g.scheme, host |-> g.host, port |-> g.port]
      BY <2>3, <2>4, CanonicalIs DEF c
    <2> DEFINE r == request
               port == IF r.port \in Nat THEN r.port ELSE Http!DefaultPort(r.scheme)
    <2>7. g.scheme = r.scheme /\ g.port = port
      BY <1>2 DEF Http!Named
    <2>8. \/ /\ r.host.form = "ip" /\ Http!PermittedLiteral(r.host.ip) /\ r.host.ip.v # 6
             /\ g.host = [ip |-> r.host.ip]
          \/ r.host.form = "name" /\ g.host = [dns |-> r.host.name]
      <3>1. CASE c.host.form = "ip" /\ g.host = [ip |-> c.host.ip]
        <4>1. "dns" \notin DOMAIN g.host /\ g.host.ip = c.host.ip
          BY <3>1
        <4>2. r.host.form = "ip" /\ r.host.ip = c.host.ip
          BY <1>2, <4>1 DEF Http!Named
        <4>3. Http!PermittedLiteral(c.host.ip)
          BY <2>6, <3>1
        <4> QED BY <2>a, <3>1, <4>2, <4>3
      <3>2. CASE c.host.form = "name" /\ g.host = [dns |-> c.host.name]
        <4>1. "dns" \in DOMAIN g.host /\ g.host.dns = c.host.name
          BY <3>2
        <4>2. r.host.form = "name" /\ r.host.name = c.host.name
          BY <1>2, <4>1 DEF Http!Named
        <4> QED BY <3>2, <4>2
      <3> QED BY <2>6, <3>1, <3>2
    <2>9. Http!AuthorityHost(r) = r.host
      BY <2>8 DEF Http!AuthorityHost
    <2>10. Http!CanonicalHost(r.host) = g.host /\ g.host # None
      <3>1. Http!CanonicalHost(r.host) = g.host
        BY <2>8 DEF Http!CanonicalHost
      <3>2. Http!CanonicalHost(c.host) # None
        BY <2>3, <2>4 DEF Http!Canonicalize, c
      <3>3. Http!CanonicalHost(c.host) = g.host
        BY <2>6 DEF Http!CanonicalHost
      <3> QED BY <3>1, <3>2, <3>3
    <2> DEFINE opt == IF r.port \in Nat THEN r.port ELSE None
               d == [scheme |-> r.scheme, host |-> Http!AuthorityHost(r),
                     port |-> IF opt = None THEN Http!DefaultPort(r.scheme) ELSE opt]
    <2>11. port # None /\ d.port = port /\ d.scheme = r.scheme /\ d.host = r.host
      BY <2>0, <2>9 DEF Http!DefaultPort
    <2>12. Http!Canonicalize(d) = [scheme |-> r.scheme, host |-> g.host, port |-> port]
      <3> HIDE DEF d, port, r
      <3> QED BY <2>6, <2>7, <2>10, <2>11 DEF Http!Canonicalize
    <2>13. Http!Canonicalize(d) \in grants
      BY <2>6, <2>7, <2>12
    <2>14. ~(Http!ExplicitPort(r) /\ opt = None)
      <3>1. r.port \in Nat \cup {None}
        BY <2>1, <2>a DEF Http!HttpAssumption
      <3>2. r.user # "user:password"
        BY <2>a
      <3> QED BY <2>0, <3>1, <3>2 DEF Http!ExplicitPort
    <2>15. Http!Authorize(r) = Http!Canonicalize(d)
      BY <2>5, <2>6, <2>7, <2>a, <2>13, <2>14 DEF Http!Authorize
    <2>16. Http!Canonicalize(d) # None
      BY <1>2, <2>1, <2>13 DEF HttpInv, Frozen, Configured
    <2> QED BY <2>1, <2>15, <2>16
  <1>3. ASSUME HttpInv PROVE Http!GrantUsable
    BY <1>1, <1>2, <1>3 DEF Http!GrantUsable
  <1> QED BY <1>3, HttpInvHolds, PTL


\* A read times out only when the peer was silent: a frame that waits for a
\* slow reader is read, however long ago the interval ended (poll_frame).
THEOREM HttpTimeoutMeansSilence ==
  ASSUME Http!HttpAssumption
  PROVE  Http!Spec => [][Http!ReadTimeoutMeansSilence]_(Http!vars)
  <1>1. ASSUME HttpInv, Http!Next PROVE Http!ReadTimeoutMeansSilence
    <2> SUFFICES ASSUME pc = "body", error' = "ConnectionReadTimeout" PROVE frames = 0
      BY DEF Http!ReadTimeoutMeansSilence
    <2>1. error = None /\ None \notin Http!Errors /\ "ConnectionReadTimeout" \in Http!Errors
          /\ sent \in Nat /\ frames \in 0 .. sent
      BY <1>1 DEF HttpInv, HttpTypes, Http!HttpAssumption, Http!Errors
    <2>2. ~(Http!SendRequest \/ Http!SocketAddrLiteral \/ Http!SocketAddrDns \/ Http!DnsError
            \/ Http!Connected \/ Http!TlsDone \/ Http!HandshakeDone \/ Http!ResponseHead
            \/ Http!TimesOut \/ Http!Forget)
      BY DEF Http!SendRequest, Http!SocketAddrLiteral, Http!SocketAddrDns, Http!DnsError,
             Http!Connected, Http!TlsDone, Http!HandshakeDone, Http!ResponseHead,
             Http!TimesOut, Http!Forget
    <2>3. ~(Http!TransportFails \/ Http!Tick \/ Http!PeerSends \/ Http!BodyEnds)
      BY <2>1 DEF Http!TransportFails, Http!Fail, Http!Tick, Http!PeerSends, Http!BodyEnds
    <2>4. Http!PollFrame
      BY <1>1, <2>2, <2>3 DEF Http!Next
    <2> QED BY <2>1, <2>4 DEF Http!PollFrame
  <1>2. HttpInv /\ [Http!Next]_(Http!vars) => [Http!ReadTimeoutMeansSilence]_(Http!vars)
    BY <1>1
  <1>3. HttpInv /\ [Http!Next]_(Http!vars) => HttpInv'
    BY HttpStep
  <1>4. Http!Init => HttpInv
    BY HttpInvInit
  <1> QED BY <1>2, <1>3, <1>4, PTL DEF Http!Spec

\* The client keeps its types: no timer runs beyond its bound, no frame is read
\* that was not sent, and an error ends the request.
THEOREM HttpTypeCorrect == ASSUME Http!HttpAssumption PROVE Http!Spec => []Http!HttpTypeOK
  <1>1. ASSUME HttpInv PROVE Http!HttpTypeOK
    BY <1>1 DEF HttpInv, HttpTypes, Granting, Http!HttpTypeOK
  <1> QED BY <1>1, HttpInvHolds, PTL
=============================================================================
