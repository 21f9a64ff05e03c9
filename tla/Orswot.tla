------------------------------- MODULE Orswot -------------------------------
(***************************************************************************)
(* The observed-remove set without tombstones.                             *)
(*                                                                         *)
(* A member that is not in `entries` has the clock NoClock: an entry whose *)
(* clock is empty is always removed.  `deferred` is the set of the pairs   *)
(* of a removal's clock and a member it removes.                           *)
(***************************************************************************)
EXTENDS VClock

CONSTANT Members

OrswotNew ==
    [clock |-> NoClock, entries |-> [m \in Members |-> NoClock], deferred |-> {}]

(* read *)
OrswotRead(s) == {m \in Members : s.entries[m] # NoClock}

(* apply_rm of every removal in R: what a removal has seen of a member goes,
   and a removal that has seen more than the set is kept for later. *)
ApplyRemovals(s, R) ==
    [s EXCEPT
        !.entries = [m \in Members |-> [a \in Actors |->
            IF \E r \in R : r.member = m /\ r.clock[a] >= s.entries[m][a]
            THEN 0 ELSE s.entries[m][a]]],
        !.deferred = @ \cup {r \in R : ~Covers(s.clock, r.clock)}]

(* Mutant: a removal that came early is forgotten once it was tried. *)
ApplyDeferredNot(s) == [s EXCEPT !.deferred = {}]

ApplyDeferred(s) == ApplyRemovals([s EXCEPT !.deferred = {}], s.deferred)

Removals(clock, members) == [clock : {clock}, member : members]

OrswotAdd(s, op) ==
    IF s.clock[op.dot.actor] >= op.dot.counter
    THEN s
    ELSE ApplyDeferred(
            [s EXCEPT
                !.entries = [m \in Members |->
                    IF m \in op.members THEN ClockApply(@[m], op.dot) ELSE @[m]],
                !.clock = ClockApply(@, op.dot)])

OrswotApply(s, op) ==
    IF op.type = "add" THEN OrswotAdd(s, op)
    ELSE ApplyRemovals(s, Removals(op.clock, op.members))

(* Mutant: an entry that both sets have stays as it is on either side. *)
MergedEntryUnion(s, o, m) == ClockMerge(s.entries[m], o.entries[m])

(* The dots of a member that both know, and those that one side knows and the
   other has never seen.  Of a member that is in one set only, these are the
   dots the other set has not seen. *)
MergedEntry(s, o, m) ==
    ClockMerge(Intersection(s.entries[m], o.entries[m]),
               ClockMerge(ClockReset(o.entries[m], s.clock),
                          ClockReset(s.entries[m], o.clock)))

OrswotMerge(s, o) ==
    LET merged == ApplyRemovals([s EXCEPT !.entries = [m \in Members |-> MergedEntry(s, o, m)]],
                                o.deferred)
    IN ApplyDeferred([merged EXCEPT !.clock = ClockMerge(@, o.clock)])

(* reset_remove of what is deferred: of two removals whose clocks become equal
   the one that the hash map yields last stays, here any one for all. *)
ResetDeferred(deferred, clock) ==
    LET After(r) == ClockReset(r.clock, clock)
        Stays(c) == CHOOSE x \in {r.clock : r \in deferred} : ClockReset(x, clock) = c
    IN {[r EXCEPT !.clock = After(r)] :
            r \in {x \in deferred : After(x) # NoClock /\ x.clock = Stays(After(x))}}

OrswotReset(s, clock) ==
    [clock |-> ClockReset(s.clock, clock),
     entries |-> [m \in Members |-> ClockReset(s.entries[m], clock)],
     deferred |-> ResetDeferred(s.deferred, clock)]

(* The operations an actor may issue: to add members, with the dot that
   derive_add_ctx takes from the clock of the set; to remove them, with the
   clock of what was read, a member or the whole set. *)
OrswotOps(s, a) ==
    [type : {"add"}, dot : {Inc(s.clock, a)}, members : (SUBSET Members) \ {{}}]
        \cup {[type |-> "rm", clock |-> s.entries[m], members |-> {m}] : m \in OrswotRead(s)}
        \cup [type : {"rm"}, clock : {s.clock}, members : (SUBSET Members) \ {{}}]

-----------------------------------------------------------------------------
(* The set has seen what its members have, and of a removal it keeps it has
   not seen everything. *)
OrswotSound(s) ==
    /\ \A m \in Members : Covers(s.clock, s.entries[m])
    /\ \A r \in s.deferred : ~Covers(s.clock, r.clock)

(* A member is in the set if it was added and no removal has seen that: an
   addition wins over a removal that is concurrent with it. *)
OrswotMeaning(ops) ==
    {m \in Members :
        \E add \in ops :
            /\ add.type = "add" /\ m \in add.members
            /\ ~ \E rm \in ops : /\ rm.type = "rm" /\ m \in rm.members
                                 /\ rm.clock[add.dot.actor] >= add.dot.counter}
=============================================================================
