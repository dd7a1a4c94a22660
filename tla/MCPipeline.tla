----------------------------- MODULE MCPipeline -----------------------------
(* Small instances of Pipeline for TLC. *)
EXTENDS Pipeline, TLC

CONSTANTS s, p, k

\* A source that feeds a sink directly and through a node: fan-out and fan-in.
ThreeNodes == {s, p, k}
WasmKind == (s :> "source") @@ (p :> "wasm") @@ (k :> "sink")
RouterKind == (s :> "source") @@ (p :> "router") @@ (k :> "sink")
Diamond == {<<s, p>>, <<p, k>>, <<s, k>>}
MixedOverflow == (<<s, p>> :> "slow") @@ (<<p, k>> :> "slow") @@ (<<s, k>> :> "drop")
Chain == {<<s, p>>, <<p, k>>}
ChainOverflow == (<<s, p>> :> "dead-letter") @@ (<<p, k>> :> "drop")
One == [n \in ThreeNodes |-> 1]
=============================================================================
