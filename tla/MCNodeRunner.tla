---------------------------- MODULE MCNodeRunner ----------------------------
(* Small instances of NodeRunner for TLC. *)
EXTENDS NodeRunner, TLC

CONSTANTS m1, m2, m3, r1, r2

\* Retries end in a skip, timeouts go to the DLQ, one of two may be buffered.
MixedPolicy ==
    [bad_input |-> "skip", timed_out |-> "dlq", retry_buffer_capacity |-> 1,
     retries |-> [c \in Retryable |-> 1],
     exhausted |-> [c \in Retryable |-> IF c = "dependency_failed" THEN "skip" ELSE "dlq"]]

\* Every terminal action tears the node down; two retries, room for both.
StrictPolicy ==
    [bad_input |-> "teardown", timed_out |-> "teardown", retry_buffer_capacity |-> 2,
     retries |-> [c \in Retryable |-> IF c = "dependency_failed" THEN 2 ELSE 0],
     exhausted |-> [c \in Retryable |-> "teardown"]]

TwoMsgs == {m1, m2}
OneReq == {r1}
TwoReqs == {r1, r2}

Symmetry == Permutations({m1, m2}) \cup Permutations({r1, r2})
=============================================================================
