--------------------------- MODULE ComponentCache ---------------------------
(***************************************************************************)
(* The two-tier cache of compiled components (engine/cache.rs), shared by  *)
(* the launcher and by the hot-swap preparations of several nodes: memory, *)
(* then disk, then Cranelift.  The memory lock is held for a lookup and    *)
(* for an insertion, not in between, and the disk tier is plain files.     *)
(*                                                                         *)
(* A component is a number no other component has (an Arc); a file is      *)
(* "good" when a compatible engine serialized all of it, "stale" when an   *)
(* incompatible one did, "torn" when it holds only part of that.           *)
(***************************************************************************)
EXTENDS Integers, FiniteSets

CONSTANTS
    Thread,     \* callers of compile_cached
    Binary,     \* the binaries they ask for, by their blake3 hash
    Bad,        \* the binaries that do not compile
    HasDisk,    \* whether the cache has a directory (with_cache_dir)
    Others,     \* whether other processes use that directory
    Restarts,   \* whether the process may die and start again
    MaxMade     \* bound on the components made

ASSUME CacheAssumption ==
    /\ Bad \subseteq Binary
    /\ {HasDisk, Others, Restarts} \subseteq BOOLEAN
    /\ MaxMade \in Nat

VARIABLES
    memory,     \* memory[b]: the component of b in the memory tier
    disk,       \* disk[b]: b's .cwasm file
    at,         \* at[t]: where thread t is in get_or_compile
    bin,        \* bin[t]: the binary it asks for
    seen,       \* seen[t]: the file it has read
    comp,       \* comp[t]: the component it has made or was given
    made,       \* how many components were made
    compiles    \* compiles[b]: how often this process compiled b

vars == <<memory, disk, at, bin, seen, comp, made, compiles>>

Comp == 1..MaxMade
NoComp == 0
Failed == -1

Memo == INSTANCE CompileMemo WITH
    table <- memory,
    answers <- [t \in Thread |-> IF at[t] = "done" THEN <<bin[t], comp[t]>> ELSE <<>>]

File == {"none", "torn", "stale", "good"}

Init ==
    /\ memory = [b \in Binary |-> NoComp]
    /\ disk = [b \in Binary |-> "none"]
    /\ at = [t \in Thread |-> "idle"]
    /\ bin \in [Thread -> Binary]
    /\ seen = [t \in Thread |-> "none"]
    /\ comp = [t \in Thread |-> NoComp]
    /\ made = 0
    /\ compiles = [b \in Binary |-> 0]

Goes(t, place) == at' = [at EXCEPT ![t] = place]

\* WaferEngine::compile_cached, ComponentCache::get_or_compile.
Request(t, b) ==
    /\ at[t] = "idle"
    /\ Goes(t, "lookup")
    /\ bin' = [bin EXCEPT ![t] = b]
    /\ UNCHANGED <<memory, disk, seen, comp, made, compiles>>

\* The memory tier, under its lock.
LookupMemory(t) ==
    /\ at[t] = "lookup"
    /\ \/ /\ memory[bin[t]] # NoComp
          /\ comp' = [comp EXCEPT ![t] = memory[bin[t]]]
          /\ Goes(t, "done")
       \/ /\ memory[bin[t]] = NoComp
          /\ Goes(t, IF HasDisk THEN "read" ELSE "compile")
          /\ UNCHANGED comp
    /\ UNCHANGED <<memory, disk, bin, seen, made, compiles>>

\* try_load_from_disk: a file that is not there or cannot be read is a miss.
ReadDisk(t) ==
    /\ at[t] = "read"
    /\ \/ /\ disk[bin[t]] # "none"
          /\ seen' = [seen EXCEPT ![t] = disk[bin[t]]]
          /\ Goes(t, "deserialize")
       \/ Goes(t, "compile") /\ UNCHANGED seen
    /\ UNCHANGED <<memory, disk, bin, comp, made, compiles>>

Make(t, place) ==
    /\ made < MaxMade
    /\ made' = made + 1
    /\ comp' = [comp EXCEPT ![t] = made + 1]
    /\ Goes(t, place)

\* Component::deserialize.  What is not all of serialize()'s output is outside
\* its contract: it may be refused or taken.
Accept(t) ==
    /\ at[t] = "deserialize"
    /\ seen[t] \in {"good", "torn"}
    /\ Make(t, "insert")
    /\ UNCHANGED <<memory, disk, bin, seen, compiles>>

\* A refused file is removed, as well as that goes.
Evict(t) ==
    /\ at[t] = "deserialize"
    /\ seen[t] \in {"stale", "torn"}
    /\ disk' \in {disk, [disk EXCEPT ![bin[t]] = "none"]}
    /\ Goes(t, "compile")
    /\ UNCHANGED <<memory, bin, seen, comp, made, compiles>>

\* Component::new
CompileFails(t) ==
    /\ at[t] = "compile"
    /\ bin[t] \in Bad
    /\ comp' = [comp EXCEPT ![t] = Failed]
    /\ Goes(t, "done")
    /\ UNCHANGED <<memory, disk, bin, seen, made, compiles>>

Compile(t) ==
    /\ at[t] = "compile"
    /\ bin[t] \notin Bad
    /\ Make(t, IF HasDisk THEN "open" ELSE "insert")
    /\ compiles' = [compiles EXCEPT ![bin[t]] = @ + 1]
    /\ UNCHANGED <<memory, disk, bin, seen>>

\* try_save_to_disk: the file is created or truncated, then filled; no failure
\* of it matters to the caller.
SaveOpen(t) ==
    /\ at[t] = "open"
    /\ \/ disk' = [disk EXCEPT ![bin[t]] = "torn"] /\ Goes(t, "write")
       \/ Goes(t, "insert") /\ UNCHANGED disk
    /\ UNCHANGED <<memory, bin, seen, comp, made, compiles>>

SaveWrite(t) ==
    /\ at[t] = "write"
    /\ disk' = [disk EXCEPT ![bin[t]] =
                   CASE @ = "none" -> "none" [] @ = "stale" -> "torn" [] OTHER -> "good"]
    /\ Goes(t, "insert")
    /\ UNCHANGED <<memory, bin, seen, comp, made, compiles>>

\* Fault: a component another thread has put in the map is replaced.
InsertOver(t) ==
    /\ at[t] = "insert"
    /\ memory' = [memory EXCEPT ![bin[t]] = comp[t]]
    /\ Goes(t, "done")
    /\ UNCHANGED <<disk, bin, seen, comp, made, compiles>>

\* entry().or_insert_with(): the first component of a binary stays, and a
\* thread that comes second is given it in place of its own.
Insert(t) ==
    /\ at[t] = "insert"
    /\ \/ /\ memory[bin[t]] = NoComp
          /\ memory' = [memory EXCEPT ![bin[t]] = comp[t]]
          /\ UNCHANGED comp
       \/ /\ memory[bin[t]] # NoComp
          /\ comp' = [comp EXCEPT ![t] = memory[bin[t]]]
          /\ UNCHANGED memory
    /\ Goes(t, "done")
    /\ UNCHANGED <<disk, bin, seen, made, compiles>>

\* The caller goes on with its answer.
Take(t) ==
    /\ at[t] = "done"
    /\ Goes(t, "idle")
    /\ UNCHANGED <<memory, disk, bin, seen, comp, made, compiles>>

\* External: another process at work in the same directory.
OtherProcess(b) ==
    /\ HasDisk /\ Others
    /\ \E f \in File : disk' = [disk EXCEPT ![b] = f]
    /\ UNCHANGED <<memory, at, bin, seen, comp, made, compiles>>

\* External: the process dies and starts again; files stay as they are.
Restart ==
    /\ Restarts
    /\ memory' = [b \in Binary |-> NoComp]
    /\ at' = [t \in Thread |-> "idle"]
    /\ compiles' = [b \in Binary |-> 0]
    /\ UNCHANGED <<disk, bin, seen, comp, made>>

Step(t) ==
    \/ LookupMemory(t) \/ ReadDisk(t) \/ Accept(t) \/ Evict(t) \/ CompileFails(t) \/ Compile(t)
    \/ SaveOpen(t) \/ SaveWrite(t) \/ Insert(t) \/ Take(t)

Next ==
    \/ \E t \in Thread : Step(t) \/ \E b \in Binary : Request(t, b)
    \/ \E b \in Binary : OtherProcess(b)
    \/ Restart

Spec == Init /\ [][Next]_vars

\* The blocking pool runs its threads, and Cranelift and the disk return.
FairSpec == Spec /\ \A t \in Thread : WF_vars(Step(t))

-----------------------------------------------------------------------------
(* Properties *)

\* The state has its type.
CacheTypeOK ==
    /\ memory \in [Binary -> Comp \cup {NoComp}]
    /\ disk \in [Binary -> File]
    /\ at \in [Thread -> {"idle", "lookup", "read", "deserialize", "compile", "open", "write",
                          "insert", "done"}]
    /\ bin \in [Thread -> Binary]
    /\ seen \in [Thread -> File]
    /\ comp \in [Thread -> Comp \cup {NoComp, Failed}]
    /\ made \in 0..MaxMade
    /\ compiles \in [Binary -> Nat]

\* get_or_compile keeps the promise of CompileMemo, however lookups, compiles
\* and insertions of several threads interleave, and whatever is on disk.
ImplementsMemo == Memo!Spec

\* docs/learn/wasmtime-in-context.md "WAFER does it once per distinct binary".
CompileOnce == \A b \in Binary : compiles[b] <= 1

\* try_load_from_disk's SAFETY comment: "These bytes were produced by our own
\* serialize()".
DeserializesOwnOutput == \A t \in Thread : at[t] = "deserialize" => seen[t] # "torn"

=============================================================================
