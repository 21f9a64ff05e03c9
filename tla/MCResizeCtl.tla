---------------------------- MODULE MCResizeCtl ----------------------------
(* Instances of ResizeCtl small enough for TLC. *)
EXTENDS ResizeCtl, TLC

CONSTANTS t1, t2, t3

TwoThreads == {t1, t2}
ThreeThreads == {t1, t2, t3}
Symmetry == Permutations(Threads)

OneDoubling == {1, 2}
TwoDoublings == {1, 2, 4}

FewElements == -1..2
OneElement == 0..1

(* What map.rs:371 asserts, `assert!(now_garbage.is_null())`: a thread that has
   allocated the next table finds next_table null.  With three threads it may not,
   after one of them has joined a resize late. *)
NextTableFree == \A t \in Threads : pc[t] = "TransferAllocate" => nextTable = Null
=============================================================================
