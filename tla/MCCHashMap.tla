----------------------------- MODULE MCCHashMap -----------------------------
(* Instances of CHashMap small enough for TLC. *)
EXTENDS CHashMap

CONSTANTS t1, t2, k1, k2, v1, v2

TwoThreads == {t1, t2}
TwoKeys == {k1, k2}
OneValue == {v1}
TwoValues == {v1, v2}

(* One key in each half of a bin of a table of two, whose doubling is two
   claims *)
SplitOfTwo == (k1 :> 0) @@ (k2 :> 2)
WideDoubling == {2, 4}

Counts == -2..3

(* Enough to start a resize, help with it and come to its bins *)
InsertsGetRemove ==
    [op : {"insert"}, key : Keys, val : Values] \cup [op : {"get", "remove"}, key : {k1}]

(* Every operation.  Both keys are put with v1; what changes the value of one
   puts v2, and a retain rejects v1, so that it meets values changed since. *)
AllCalls ==
    [op : {"get"}, key : Keys]
        \cup [op : {"insert"}, key : Keys, val : {v1}]
        \cup [op : {"insert", "try_insert"}, key : {k1}, val : {v2}]
        \cup [op : {"remove"}, key : {k1}]
        \cup [op : {"compute_if_present"}, key : {k2}, val : {v2, None}]
        \cup [op : {"iter", "clear"}]
        \cup [op : {"retain", "retain_force"}, val : {v1}]

Symmetry == Permutations(Threads)
=============================================================================
