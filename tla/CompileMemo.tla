---------------------------- MODULE CompileMemo ----------------------------
(***************************************************************************)
(* What the component cache promises its callers: within the life of one   *)
(* process each binary has at most one component, and whoever asks for the *)
(* binary is given that component, whether it was the first to ask or not. *)
(***************************************************************************)
EXTENDS Integers

CONSTANTS
    Thread,   \* the callers
    Binary,   \* the binaries they ask for
    Comp      \* the components, numbered from 1

NoComp == 0
Failed == -1
NoAnswer == <<>>

VARIABLES
    table,    \* table[b]: the component of binary b, or NoComp
    answers   \* answers[t]: what thread t was last told

vars == <<table, answers>>

Init ==
    /\ table = [b \in Binary |-> NoComp]
    /\ answers = [t \in Thread |-> NoAnswer]

\* A caller is answered with the binary's component, now made if need be.
Answer(t, b) ==
    \E c \in Comp :
        /\ table[b] \in {NoComp, c}
        /\ table' = [table EXCEPT ![b] = c]
        /\ answers' = [answers EXCEPT ![t] = <<b, c>>]

\* The binary does not compile.
Refuse(t, b) ==
    /\ answers' = [answers EXCEPT ![t] = <<b, Failed>>]
    /\ UNCHANGED table

Forget(t) ==
    /\ answers' = [answers EXCEPT ![t] = NoAnswer]
    /\ UNCHANGED table

Restart == table' = [b \in Binary |-> NoComp] /\ answers' = [t \in Thread |-> NoAnswer]

Next ==
    \/ \E t \in Thread : Forget(t) \/ \E b \in Binary : Answer(t, b) \/ Refuse(t, b)
    \/ Restart

Spec == Init /\ [][Next]_vars

=============================================================================
