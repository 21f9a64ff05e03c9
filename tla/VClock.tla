------------------------------- MODULE VClock -------------------------------
(***************************************************************************)
(* Vector clocks.  A VClock maps the actors it has heard of to a positive  *)
(* counter; here it maps every actor to a natural number, 0 for those it   *)
(* does not hold.  The partial order of clocks is Covers.                  *)
(***************************************************************************)
EXTENDS Naturals

CONSTANT Actors

Clocks == [Actors -> Nat]

NoClock == [a \in Actors |-> 0]

(* x >= y *)
Covers(x, y) == \A a \in Actors : x[a] >= y[a]

(* x < y *)
Before(x, y) == x # y /\ Covers(y, x)

Concurrent(x, y) == ~Covers(x, y) /\ ~Covers(y, x)

(* The dot of the actor's next event *)
Inc(x, a) == [actor |-> a, counter |-> x[a] + 1]

ClockApply(x, dot) ==
    IF x[dot.actor] < dot.counter THEN [x EXCEPT ![dot.actor] = dot.counter] ELSE x

ClockMerge(x, y) == [a \in Actors |-> IF x[a] < y[a] THEN y[a] ELSE x[a]]

(* What x knows that y does not: reset_remove, and clone_without *)
ClockReset(x, y) == [a \in Actors |-> IF y[a] >= x[a] THEN 0 ELSE x[a]]

(* The dots of both *)
Intersection(x, y) == [a \in Actors |-> IF x[a] = y[a] THEN x[a] ELSE 0]
=============================================================================
