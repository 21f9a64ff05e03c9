----------------------------- MODULE Registers ------------------------------
(***************************************************************************)
(* The small CRDTs: counters, registers and the grow-only set.  A counter  *)
(* moves by `steps`, which its operations carry here to say what they mean;*)
(* the code ships the dot alone.                                           *)
(***************************************************************************)
EXTENDS VClock, Integers, FiniteSetsExt

CONSTANTS
    Values,
    Steps       \* the steps of inc_many

(* A step is unsigned, and actors are ordered: they make the markers of
   LWWReg unique. *)
ASSUME StepsAssumption == Steps \subseteq Nat
ASSUME ActorsAssumption == Actors \subseteq Int

(* GCounter: an operation is a dot as many counters ahead as there are steps. *)
GCounterApply(s, op) == ClockApply(s, op.dot)
IncMany(s, a, steps) ==
    [dot |-> [actor |-> a, counter |-> steps + s[a]], steps |-> steps]
GCounterOps(s, a) == {IncMany(s, a, n) : n \in Steps}
GCounterRead(s) == MapThenSumSet(LAMBDA a : s[a], Actors)

(* PNCounter: what was added and what was taken away *)
PNCounterNew == [p |-> NoClock, n |-> NoClock]

PNCounterApply(s, op) ==
    IF op.dir = "pos" THEN [s EXCEPT !.p = GCounterApply(@, op)]
    ELSE [s EXCEPT !.n = GCounterApply(@, op)]

PNCounterMerge(s, o) == [p |-> ClockMerge(s.p, o.p), n |-> ClockMerge(s.n, o.n)]
PNCounterOps(s, a) ==
    {[dir |-> "pos", dot |-> x.dot, steps |-> x.steps] : x \in GCounterOps(s.p, a)}
        \cup {[dir |-> "neg", dot |-> x.dot, steps |-> x.steps] : x \in GCounterOps(s.n, a)}
PNCounterRead(s) == GCounterRead(s.p) - GCounterRead(s.n)
PNCounterMeaning(ops) ==
    MapThenSumSet(LAMBDA op : IF op.dir = "pos" THEN op.steps ELSE 0 - op.steps, ops)

-----------------------------------------------------------------------------
(* LWWReg: a value and its marker.  Markers grow and are unique, which is the
   user's duty: here a counter above every marker the actor knows, made unique
   by the actor.  The register begins with the default marker. *)
MarkerBefore(x, y) == x.n < y.n \/ (x.n = y.n /\ x.actor < y.actor)
LWWRegNew(v) == [val |-> v, marker |-> [n |-> 0, actor |-> 0]]

LWWRegUpdate(s, o) == IF MarkerBefore(s.marker, o.marker) THEN o ELSE s
LWWRegOps(s, a) == [val : Values, marker : {[n |-> s.marker.n + 1, actor |-> a]}]
LWWRegMeaning(start, ops) ==
    (CHOOSE x \in ops \cup {start} :
        \A y \in ops \cup {start} : x = y \/ MarkerBefore(y.marker, x.marker)).val

-----------------------------------------------------------------------------
(* MVReg: the values put with concurrent clocks *)
MVRegRead(s) == {x.val : x \in s}
MVRegClock(s) == [a \in Actors |-> Max({x.clock[a] : x \in s} \cup {0})]

(* write, on the clock of read *)
MVRegOps(s, a) ==
    [clock : {ClockApply(MVRegClock(s), Inc(MVRegClock(s), a))}, val : Values]

(* Put keeps the entries whose clock is above its own and no other: the ones
   that are concurrent with it go. *)
MVRegApply(s, op) ==
    LET kept == {x \in s : Before(op.clock, x.clock)} IN
    IF op.clock = NoClock THEN s
    ELSE IF kept = {} THEN {op} ELSE kept

(* Mutant: what the other side has overwritten stays. *)
MVRegMergeUnion(s, o) == s \cup o

MVRegMerge(s, o) ==
    LET ours == {x \in s : ~ \E y \in o : Before(x.clock, y.clock)} IN
    ours \cup {y \in o : \A x \in ours : ~Before(y.clock, x.clock) /\ y.clock # x.clock}

(* Every value of the register is concurrent with the others. *)
MVRegSound(s) == \A x, y \in s : x = y \/ Concurrent(x.clock, y.clock)

MVRegMeaning(ops) ==
    {x.val : x \in {p \in ops : ~ \E q \in ops : Before(p.clock, q.clock)}}
=============================================================================
