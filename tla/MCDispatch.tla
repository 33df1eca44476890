----------------------------- MODULE MCDispatch -----------------------------
EXTENDS Dispatch, TLC

CONSTANTS m1, m2, p1, p2

(* Two messages that share a partition, as two messages of one channel do. *)
OnePartition == [m \in Messages |-> p1]
(* One message in each of two partitions, as on two channels. *)
TwoPartitions == [m \in Messages |-> IF m = m1 THEN p1 ELSE p2]
(* Two messages of one partition may be exchanged; no liveness is checked with it. *)
Symmetry == Permutations({m1, m2})
=============================================================================
