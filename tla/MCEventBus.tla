----------------------------- MODULE MCEventBus -----------------------------
EXTENDS EventBus

Row(block, at, kind) == [kind |-> kind, at |-> at, block |-> block]

(* A swap; then, in one second, a block that creates a pool and a block    *)
(* with a deposit.                                                         *)
ThreeBlocks == <<
  Row(1, 1, "reserves"), Row(1, 1, "swap"),
  Row(2, 2, "pool"), Row(2, 2, "reserves"),
  Row(3, 2, "reserves"), Row(3, 2, "liquidity")>>
=============================================================================
