------------------------ MODULE ComponentCacheProofs ------------------------
(***************************************************************************)
(* The component cache implements CompileMemo, for any threads, binaries   *)
(* and directory contents.  The step that matters is Insert: the thread    *)
(* that finds another's component in the map answers with that one.        *)
(***************************************************************************)
EXTENDS ComponentCache, TLAPS

\* A thread on its way to the map holds a component.
Ready == \A t \in Thread : at[t] \in {"open", "write", "insert"} => comp[t] \in Comp

CacheInv == CacheTypeOK /\ Ready

LEMMA CacheInit == Init => CacheInv
  BY CacheAssumption DEF Init, CacheInv, CacheTypeOK, Ready, File, Comp, NoComp, Failed

\* Every step keeps the state's type and hands only made components on.
LEMMA CacheStep == CacheInv /\ [Next]_vars => CacheInv'
<1> SUFFICES ASSUME CacheInv, [Next]_vars PROVE CacheInv'
  OBVIOUS
<1> USE CacheAssumption DEF CacheInv, CacheTypeOK, Ready, File, Comp, NoComp, Failed, Goes
<1>1. ASSUME NEW t \in Thread, NEW b \in Binary, Request(t, b) PROVE CacheInv'
  BY <1>1 DEF Request
<1>2. ASSUME NEW t \in Thread, LookupMemory(t) PROVE CacheInv'
  BY <1>2 DEF LookupMemory
<1>3. ASSUME NEW t \in Thread, ReadDisk(t) PROVE CacheInv'
  BY <1>3 DEF ReadDisk
<1>4. ASSUME NEW t \in Thread, Accept(t) PROVE CacheInv'
  BY <1>4 DEF Accept, Make
<1>5. ASSUME NEW t \in Thread, Evict(t) PROVE CacheInv'
  BY <1>5 DEF Evict
<1>6. ASSUME NEW t \in Thread, CompileFails(t) PROVE CacheInv'
  BY <1>6 DEF CompileFails
<1>7. ASSUME NEW t \in Thread, Compile(t) PROVE CacheInv'
  BY <1>7 DEF Compile, Make
<1>8. ASSUME NEW t \in Thread, SaveOpen(t) PROVE CacheInv'
  BY <1>8 DEF SaveOpen
<1>9. ASSUME NEW t \in Thread, SaveWrite(t) PROVE CacheInv'
  BY <1>9 DEF SaveWrite
<1>10. ASSUME NEW t \in Thread, Insert(t) PROVE CacheInv'
  BY <1>10 DEF Insert
<1>11. ASSUME NEW t \in Thread, Take(t) PROVE CacheInv'
  BY <1>11 DEF Take
<1>12. ASSUME NEW b \in Binary, OtherProcess(b) PROVE CacheInv'
  BY <1>12 DEF OtherProcess
<1>13. CASE Restart
  BY <1>13 DEF Restart
<1>14. CASE UNCHANGED vars
  BY <1>14 DEF vars
<1> QED
  BY <1>1, <1>2, <1>3, <1>4, <1>5, <1>6, <1>7, <1>8, <1>9, <1>10, <1>11, <1>12, <1>13, <1>14
     DEF Next, Step

\* The cache's state always has its type, and what is inserted was made.
THEOREM CacheTypeCorrect == Spec => []CacheTypeOK
<1>1. Spec => []CacheInv
  BY CacheInit, CacheStep, PTL DEF Spec
<1> QED
  BY <1>1, PTL DEF CacheInv

\* What the callers have been told, as CompileMemo sees it.
Told == [t \in Thread |-> IF at[t] = "done" THEN <<bin[t], comp[t]>> ELSE <<>>]

\* Only thread t's part of the state may change.
Only(t) ==
    \A u \in Thread \ {t} : at'[u] = at[u] /\ comp'[u] = comp[u] /\ bin'[u] = bin[u]

\* A step in which no thread starts or stops being answered, and which leaves
\* the memory tier alone, is a stutter.
LEMMA Silent ==
    ASSUME NEW t \in Thread, at[t] # "done", at'[t] # "done", Only(t), memory' = memory
    PROVE  UNCHANGED <<memory, Told>>
<1>1. \A u \in Thread :
        (IF at'[u] = "done" THEN <<bin'[u], comp'[u]>> ELSE <<>>)
        = (IF at[u] = "done" THEN <<bin[u], comp[u]>> ELSE <<>>)
  BY DEF Only
<1> QED
  BY <1>1 DEF Told

\* A step that answers one thread changes what that thread was told only.
LEMMA Tells ==
    ASSUME NEW t \in Thread, at'[t] = "done", Only(t)
    PROVE  Told' = [Told EXCEPT ![t] = <<bin'[t], comp'[t]>>]
  BY DEF Told, Only

\* Answering a thread with a component the map holds, or held nothing against,
\* is CompileMemo's Answer.
LEMMA AnswersMemo ==
    ASSUME CacheInv, NEW t \in Thread, at'[t] = "done", Only(t), bin'[t] = bin[t],
           comp'[t] \in Comp, memory[bin[t]] \in {NoComp, comp'[t]},
           memory' = [memory EXCEPT ![bin[t]] = comp'[t]]
    PROVE  Memo!Next
<1>1. PICK b \in Binary : bin[t] = b
  BY DEF CacheInv, CacheTypeOK
<1>2. Told' = [Told EXCEPT ![t] = <<b, comp'[t]>>]
  BY <1>1, Tells
<1>3. Memo!Answer(t, b)
  BY <1>1, <1>2 DEF Memo!Answer, Told, Memo!NoComp, NoComp, Comp
<1> QED
  BY <1>3 DEF Memo!Next

\* Each step of the cache is a step of the memo table or a stutter.
LEMMA MemoStep == CacheInv /\ [Next]_vars => [Memo!Next]_(Memo!vars)
<1> SUFFICES ASSUME CacheInv, [Next]_vars PROVE Memo!Next \/ UNCHANGED <<memory, Told>>
  BY DEF Memo!vars, Told
<1> USE DEF Goes
<1>1. ASSUME NEW t \in Thread, NEW b \in Binary, Request(t, b)
      PROVE UNCHANGED <<memory, Told>>
  BY <1>1, Silent DEF Request, Only, CacheInv, CacheTypeOK
<1>2. ASSUME NEW t \in Thread, LookupMemory(t)
      PROVE Memo!Next \/ UNCHANGED <<memory, Told>>
  <2>1. Only(t) /\ at[t] # "done" /\ bin'[t] = bin[t]
    BY <1>2 DEF LookupMemory, Only, CacheInv, CacheTypeOK
  <2>2. CASE memory[bin[t]] = NoComp
    <3>1. at'[t] # "done" /\ memory' = memory
      BY <1>2, <2>2 DEF LookupMemory, CacheInv, CacheTypeOK
    <3> QED
      BY <2>1, <3>1, Silent
  <2>3. CASE memory[bin[t]] # NoComp
    <3>1. at'[t] = "done" /\ comp'[t] = memory[bin[t]] /\ memory[bin[t]] \in Comp
      BY <1>2, <2>3 DEF LookupMemory, CacheInv, CacheTypeOK
    <3>2. memory' = [memory EXCEPT ![bin[t]] = comp'[t]]
      BY <1>2, <3>1 DEF LookupMemory, CacheInv, CacheTypeOK
    <3> QED
      BY <2>1, <3>1, <3>2, AnswersMemo
  <2> QED
    BY <2>2, <2>3
<1>3. ASSUME NEW t \in Thread, Insert(t)
      PROVE Memo!Next
  <2>1. Only(t) /\ bin'[t] = bin[t] /\ at'[t] = "done" /\ comp[t] \in Comp
    BY <1>3 DEF Insert, Only, CacheInv, CacheTypeOK, Ready
  <2>2. CASE memory[bin[t]] = NoComp
    BY <1>3, <2>1, <2>2, AnswersMemo DEF Insert
  <2>3. CASE memory[bin[t]] # NoComp
    <3>1. comp'[t] = memory[bin[t]] /\ memory[bin[t]] \in Comp
      BY <1>3, <2>3 DEF Insert, CacheInv, CacheTypeOK
    <3>2. memory' = [memory EXCEPT ![bin[t]] = comp'[t]]
      BY <1>3, <2>3, <3>1 DEF Insert, CacheInv, CacheTypeOK
    <3> QED
      BY <2>1, <3>1, <3>2, AnswersMemo
  <2> QED
    BY <2>2, <2>3
<1>4. ASSUME NEW t \in Thread, ReadDisk(t) PROVE UNCHANGED <<memory, Told>>
  BY <1>4, Silent DEF ReadDisk, Only, CacheInv, CacheTypeOK
<1>5. ASSUME NEW t \in Thread, Accept(t) PROVE UNCHANGED <<memory, Told>>
  BY <1>5, Silent DEF Accept, Make, Only, CacheInv, CacheTypeOK
<1>6. ASSUME NEW t \in Thread, Evict(t) PROVE UNCHANGED <<memory, Told>>
  BY <1>6, Silent DEF Evict, Only, CacheInv, CacheTypeOK
<1>7. ASSUME NEW t \in Thread, CompileFails(t) PROVE Memo!Next
  <2> PICK b \in Binary : bin[t] = b
    BY DEF CacheInv, CacheTypeOK
  <2>1. Only(t) /\ at'[t] = "done" /\ bin'[t] = b /\ comp'[t] = Failed
    BY <1>7 DEF CompileFails, Only, CacheInv, CacheTypeOK
  <2>2. Told' = [Told EXCEPT ![t] = <<b, Failed>>]
    BY <2>1, Tells
  <2>3. Memo!Refuse(t, b)
    BY <1>7, <2>2 DEF CompileFails, Memo!Refuse, Told, Memo!Failed, Failed
  <2> QED
    BY <2>3 DEF Memo!Next
<1>8. ASSUME NEW t \in Thread, Compile(t) PROVE UNCHANGED <<memory, Told>>
  <2>1. at[t] # "done" /\ at'[t] # "done" /\ Only(t) /\ memory' = memory
    BY <1>8 DEF Compile, Make, Only, CacheInv, CacheTypeOK
  <2> QED
    BY <2>1, Silent
<1>9. ASSUME NEW t \in Thread, SaveOpen(t) PROVE UNCHANGED <<memory, Told>>
  BY <1>9, Silent DEF SaveOpen, Only, CacheInv, CacheTypeOK
<1>10. ASSUME NEW t \in Thread, SaveWrite(t) PROVE UNCHANGED <<memory, Told>>
  BY <1>10, Silent DEF SaveWrite, Only, CacheInv, CacheTypeOK
<1>11. ASSUME NEW t \in Thread, Take(t) PROVE Memo!Next
  <2>1. Told' = [Told EXCEPT ![t] = <<>>]
    BY <1>11 DEF Take, Told, CacheInv, CacheTypeOK
  <2>2. Memo!Forget(t)
    BY <1>11, <2>1 DEF Take, Memo!Forget, Told, Memo!NoAnswer
  <2> QED
    BY <2>2 DEF Memo!Next
<1>12. ASSUME NEW b \in Binary, OtherProcess(b) PROVE UNCHANGED <<memory, Told>>
  BY <1>12 DEF OtherProcess, Told
<1>13. CASE Restart
  <2>1. Told' = [t \in Thread |-> <<>>]
    BY <1>13 DEF Restart, Told
  <2> QED
    BY <1>13, <2>1 DEF Restart, Memo!Next, Memo!Restart, Told, Memo!NoAnswer, Memo!NoComp, NoComp
<1>14. CASE UNCHANGED vars
  BY <1>14 DEF vars, Told
<1> QED
  BY <1>1, <1>2, <1>3, <1>4, <1>5, <1>6, <1>7, <1>8, <1>9, <1>10, <1>11, <1>12, <1>13, <1>14
     DEF Next, Step

LEMMA MemoInit == Init => Memo!Init
  BY DEF Init, Memo!Init, Memo!NoComp, NoComp, Memo!NoAnswer

\* get_or_compile implements the memo table, whatever the interleaving, the
\* directory's contents and the restarts.
THEOREM CacheRefinesMemo == Spec => ImplementsMemo
<1>1. Spec => []CacheInv
  BY CacheInit, CacheStep, PTL DEF Spec
<1> QED
  BY <1>1, MemoInit, MemoStep, PTL DEF Spec, ImplementsMemo, Memo!Spec

=============================================================================
