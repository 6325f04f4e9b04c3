---------------------------- MODULE MCScheduler ----------------------------
(* Small instances of Scheduler for TLC. *)
EXTENDS Scheduler, TLC

CONSTANTS n1, n2, n3, single, staged

ThreeNodes == {n1, n2, n3}
TwoModels  == {single, staged}

(* A small node that is idle, a big one that is busier, and one that has   *)
(* no GPU at all.                                                          *)
ThreeReports == {[gpus |-> 1, total |-> 8, free |-> 8],
                 [gpus |-> 2, total |-> 32, free |-> 9],
                 [gpus |-> 0, total |-> 0, free |-> 0]}

(* A model on two GPUs of one node; one on a GPU of each of two nodes.     *)
TwoWants == (single :> [need |-> 8, tp |-> 2, pp |-> 1])
            @@ (staged :> [need |-> 8, tp |-> 0, pp |-> 2])

SchedSymmetry == Permutations(Nodes)
=============================================================================
