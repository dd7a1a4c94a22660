----------------------------- MODULE MCHotSwap -----------------------------
(* Small instances of HotSwap for TLC. *)
EXTENDS HotSwap, TLC

CONSTANTS m1, m2, r1, r2

\* No retries: the protocol under test is the replacement's.
NoRetryPolicy ==
    [bad_input |-> "skip", timed_out |-> "skip", retry_buffer_capacity |-> 0,
     retries |-> [c \in Retryable |-> 0], exhausted |-> [c \in Retryable |-> "teardown"]]

\* Every terminal action tears the node down, after one retry at most.
StrictPolicy ==
    [bad_input |-> "teardown", timed_out |-> "teardown", retry_buffer_capacity |-> 1,
     retries |-> [c \in Retryable |-> IF c = "dependency_failed" THEN 1 ELSE 0],
     exhausted |-> [c \in Retryable |-> "teardown"]]

OneMsg == {m1}
TwoMsgs == {m1, m2}
OneReq == {r1}
TwoReqs == {r1, r2}

Symmetry == Permutations({m1, m2}) \cup Permutations({r1, r2})
=============================================================================
