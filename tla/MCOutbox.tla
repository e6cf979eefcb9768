------------------------------ MODULE MCOutbox ------------------------------
(* Instances of Outbox for TLC.                                            *)
EXTENDS Outbox, TLC

CONSTANTS p1, p2

Everything == {"crash", "shutdown", "flushFails", "slowBoot", "refusal"}
Unrefused == Everything \ {"refusal"}
Replicas == Permutations({p1, p2})
=============================================================================
