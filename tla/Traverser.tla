----------------------------- MODULE Traverser ------------------------------
(***************************************************************************)
(* Where NodeIter stands between two bins.  A table is its length; `size`  *)
(* is the length of the table the iteration began with.  Each bin of that  *)
(* table is visited in the newest table it has moved to, in which it has   *)
(* become several: the stack says which table sent the iterator on.        *)
(***************************************************************************)
EXTENDS Naturals, Sequences, FiniteSetsExt

WalkFrom(table) ==
    [table |-> table, index |-> 0, base |-> 0, size |-> table, stack |-> <<>>]

(* The bin at index has moved to a longer table. *)
Descend(w, next) ==
    [w EXCEPT !.table = next, !.stack = <<[table |-> w.table, index |-> w.index]>> \o @]

(* Mutant: back from a longer table, its other images are left out. *)
AdvanceOnce(w) ==
    [WalkFrom(w.size) EXCEPT !.base = w.base + 1, !.index = w.base + 1]

(* recover_state, and the same step of next when there is nothing to recover:
   on to the next image of the bin in the table just visited or, in none there,
   back through the tables that sent the iterator on; in the end, to the next
   bin of the first one. *)
Advance(w) ==
    LET levels == <<[table |-> w.table, index |-> w.index]>> \o w.stack
        Shorter(j) == IF j = Len(levels) THEN w.size ELSE levels[j + 1].table
        Next(j) == levels[j].index + Shorter(j)
        open == {j \in DOMAIN levels : Next(j) < levels[j].table}
    IN IF open = {}
       THEN [w EXCEPT !.table = levels[Len(levels)].table, !.stack = <<>>,
                      !.base = @ + 1, !.index = w.base + 1]
       ELSE LET j == Min(open) IN
            [w EXCEPT !.table = levels[j].table, !.index = Next(j),
                      !.stack = SubSeq(levels, j + 1, Len(levels))]

Exhausted(w) == w.base >= w.size \/ w.index >= w.table
=============================================================================
