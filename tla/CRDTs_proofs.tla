---------------------------- MODULE CRDTs_proofs ----------------------------
(***************************************************************************)
(* Why the replicas of a CRDT converge, for any number of actors and       *)
(* operations.  The state of a replica is a function of the operations it  *)
(* has seen and of nothing else (Reflects): not of their order, of how     *)
(* often they came, nor of whether they came as operations or as a merged  *)
(* state.  First come the clocks and the data types, then the histories.   *)
(***************************************************************************)
EXTENDS Replication, FiniteSetTheorems, TLAPS

(* partial_cmp is a partial order. *)
THEOREM CoversIsOrder ==
    ASSUME NEW x \in Clocks, NEW y \in Clocks, NEW z \in Clocks
    PROVE  /\ Covers(x, x)
           /\ Covers(x, y) /\ Covers(y, z) => Covers(x, z)
           /\ Covers(x, y) /\ Covers(y, x) => x = y
<1>0. \A a \in Actors : x[a] \in Nat /\ y[a] \in Nat /\ z[a] \in Nat
    BY DEF Clocks
<1>1. Covers(x, x)
    <2>1. ASSUME NEW a \in Actors PROVE x[a] >= x[a]
        BY <1>0
    <2> QED BY <2>1 DEF Covers
<1>2. Covers(x, y) /\ Covers(y, z) => Covers(x, z)
    <2>1. SUFFICES ASSUME Covers(x, y), Covers(y, z), NEW a \in Actors
                   PROVE  x[a] >= z[a]
        BY DEF Covers
    <2>2. x[a] >= y[a] /\ y[a] >= z[a]
        BY <2>1 DEF Covers
    <2> QED BY <1>0, <2>2
<1>3. Covers(x, y) /\ Covers(y, x) => x = y
    <2>1. SUFFICES ASSUME Covers(x, y), Covers(y, x) PROVE x = y
        OBVIOUS
    <2>2. ASSUME NEW a \in Actors PROVE x[a] = y[a]
        <3>1. x[a] >= y[a] /\ y[a] >= x[a]
            BY <2>1 DEF Covers
        <3> QED BY <1>0, <3>1
    <2>3. /\ x = [a \in Actors |-> x[a]]
          /\ y = [a \in Actors |-> y[a]]
        BY DEF Clocks
    <2> QED BY <2>2, <2>3
<1> QED BY <1>1, <1>2, <1>3

(* The operations on clocks give clocks. *)
LEMMA ClockOperations ==
    ASSUME NEW x \in Clocks, NEW y \in Clocks
    PROVE  /\ ClockMerge(x, y) \in Clocks
           /\ ClockReset(x, y) \in Clocks
           /\ Intersection(x, y) \in Clocks
           /\ NoClock \in Clocks
BY DEF ClockMerge, ClockReset, Intersection, NoClock, Clocks

(* merge is the least clock that covers both: it forgets nothing and invents
   nothing. *)
THEOREM MergeIsLeastUpperBound ==
    ASSUME NEW x \in Clocks, NEW y \in Clocks, NEW z \in Clocks
    PROVE  /\ Covers(ClockMerge(x, y), x)
           /\ Covers(ClockMerge(x, y), y)
           /\ Covers(z, x) /\ Covers(z, y) => Covers(z, ClockMerge(x, y))
BY DEF ClockMerge, Covers, Clocks

(* What makes the exchange of states converge in whatever order: merging
   clocks is commutative, associative and idempotent. *)
THEOREM MergeIsJoin ==
    ASSUME NEW x \in Clocks, NEW y \in Clocks, NEW z \in Clocks
    PROVE  /\ ClockMerge(x, y) = ClockMerge(y, x)
           /\ ClockMerge(ClockMerge(x, y), z) = ClockMerge(x, ClockMerge(y, z))
           /\ ClockMerge(x, x) = x
<1>1. ClockMerge(x, y) = ClockMerge(y, x)
    BY DEF ClockMerge, Clocks
<1>2. ClockMerge(ClockMerge(x, y), z) = ClockMerge(x, ClockMerge(y, z))
    <2>1. \A a \in Actors :
             ClockMerge(ClockMerge(x, y), z)[a] = ClockMerge(x, ClockMerge(y, z))[a]
        BY DEF ClockMerge, Clocks
    <2> QED BY <2>1 DEF ClockMerge
<1>3. ClockMerge(x, x) = x
    BY DEF ClockMerge, Clocks
<1> QED BY <1>1, <1>2, <1>3

-----------------------------------------------------------------------------
(* States of the set *)
States ==
    [clock : Clocks, entries : [Members -> Clocks], deferred : SUBSET [clock : Clocks, member : Members]]

(* merge has one branch for members that both sets have and one for those
   that one of them lacks; MergedEntry is both: of a member the other set
   lacks, what the other set has seen goes, and nothing is left if it has seen
   all of it. *)
THEOREM MergedEntryOfAbsent ==
    ASSUME NEW s \in States, NEW o \in States, NEW m \in Members,
           o.entries[m] = NoClock
    PROVE  /\ MergedEntry(s, o, m) = ClockReset(s.entries[m], o.clock)
           /\ Covers(o.clock, s.entries[m]) => MergedEntry(s, o, m) = NoClock
<1> DEFINE e == s.entries[m]
<1>1. e \in Clocks /\ o.clock \in Clocks /\ s.clock \in Clocks
    BY DEF States
<1>2. MergedEntry(s, o, m)
        = ClockMerge(Intersection(e, NoClock),
                     ClockMerge(ClockReset(NoClock, s.clock), ClockReset(e, o.clock)))
    BY DEF MergedEntry
<1> HIDE DEF e
<1>3. Intersection(e, NoClock) = NoClock
    BY <1>1 DEF Intersection, NoClock, Clocks
<1>4. ClockReset(NoClock, s.clock) = NoClock
    BY <1>1 DEF ClockReset, NoClock, Clocks
<1>5. ASSUME NEW x \in Clocks PROVE ClockMerge(NoClock, x) = x
    BY <1>5 DEF ClockMerge, NoClock, Clocks
<1>6. ClockReset(e, o.clock) \in Clocks
    BY <1>1, ClockOperations
<1>7. MergedEntry(s, o, m) = ClockReset(e, o.clock)
    BY <1>2, <1>3, <1>4, <1>5, <1>6
<1>8. Covers(o.clock, e) => ClockReset(e, o.clock) = NoClock
    BY <1>1 DEF Covers, ClockReset, NoClock, Clocks
<1> QED BY <1>7, <1>8 DEF e

(* Which set is merged into which does not matter to a member's clock. *)
THEOREM MergedEntryCommutes ==
    ASSUME NEW s \in States, NEW o \in States, NEW m \in Members
    PROVE  MergedEntry(s, o, m) = MergedEntry(o, s, m)
<1> DEFINE x == ClockReset(o.entries[m], s.clock)
           y == ClockReset(s.entries[m], o.clock)
<1>1. /\ s.entries[m] \in Clocks /\ o.entries[m] \in Clocks
      /\ s.clock \in Clocks /\ o.clock \in Clocks
    BY DEF States
<1>2. Intersection(s.entries[m], o.entries[m]) = Intersection(o.entries[m], s.entries[m])
    BY <1>1 DEF Intersection, Clocks
<1>3. x \in Clocks /\ y \in Clocks
    BY <1>1, ClockOperations
<1>4. ClockMerge(x, y) = ClockMerge(y, x)
    BY <1>3, MergeIsJoin
<1> QED BY <1>2, <1>4 DEF MergedEntry

(* Merging a set with itself changes no member's clock: what was merged may
   arrive twice. *)
THEOREM MergedEntryIdempotent ==
    ASSUME NEW s \in States, OrswotSound(s), NEW m \in Members
    PROVE  MergedEntry(s, s, m) = s.entries[m]
<1> DEFINE e == s.entries[m]
<1>1. e \in Clocks /\ s.clock \in Clocks /\ Covers(s.clock, e)
    BY DEF States, OrswotSound
<1>2. MergedEntry(s, s, m)
        = ClockMerge(Intersection(e, e), ClockMerge(ClockReset(e, s.clock), ClockReset(e, s.clock)))
    BY DEF MergedEntry
<1> HIDE DEF e
<1>3. Intersection(e, e) = e
    BY <1>1 DEF Intersection, Clocks
<1>4. ClockReset(e, s.clock) = NoClock
    BY <1>1 DEF ClockReset, Covers, NoClock, Clocks
<1>5. ClockMerge(e, ClockMerge(NoClock, NoClock)) = e
    BY <1>1 DEF ClockMerge, NoClock, Clocks
<1> QED BY <1>2, <1>3, <1>4, <1>5 DEF e

(* The merged clock still covers the merged entries: no member outlives what
   the set has seen. *)
THEOREM MergedEntryCovered ==
    ASSUME NEW s \in States, NEW o \in States, OrswotSound(s), OrswotSound(o),
           NEW m \in Members
    PROVE  Covers(ClockMerge(s.clock, o.clock), MergedEntry(s, o, m))
<1> DEFINE e == s.entries[m]  f == o.entries[m]
<1>1. /\ e \in Clocks /\ f \in Clocks /\ s.clock \in Clocks /\ o.clock \in Clocks
      /\ Covers(s.clock, e) /\ Covers(o.clock, f)
    BY DEF States, OrswotSound
<1>2. SUFFICES ASSUME NEW a \in Actors
               PROVE ClockMerge(s.clock, o.clock)[a] >= MergedEntry(s, o, m)[a]
    BY DEF Covers
<1>3. /\ s.clock[a] \in Nat /\ o.clock[a] \in Nat /\ e[a] \in Nat /\ f[a] \in Nat
      /\ s.clock[a] >= e[a] /\ o.clock[a] >= f[a]
    BY <1>1 DEF Clocks, Covers
<1>4. MergedEntry(s, o, m)[a] \in {0, e[a], f[a]}
    BY <1>3 DEF MergedEntry, ClockMerge, ClockReset, Intersection
<1> QED BY <1>3, <1>4 DEF ClockMerge

-----------------------------------------------------------------------------
(* Clocks of sets of dots *)

(* x is the clock of a set of dots: it misses none and invents none. *)
IsClockOf(x, dots) ==
    /\ x \in Clocks
    /\ \A d \in dots : d.counter <= x[d.actor]
    /\ \A a \in Actors : x[a] = 0 \/ \E d \in dots : d.actor = a /\ d.counter = x[a]

AreDots(dots) == \A d \in dots : d.actor \in Actors /\ d.counter \in Nat

(* What of a clock no clock of C has seen *)
Without(x, C) == [a \in Actors |-> IF \E c \in C : c[a] >= x[a] THEN 0 ELSE x[a]]

LEMMA ClockOfNone == IsClockOf(NoClock, {})
BY DEF IsClockOf, NoClock, Clocks

(* A set of dots has one clock. *)
LEMMA ClockOfIsUnique ==
    ASSUME NEW dots, NEW x, NEW y, IsClockOf(x, dots), IsClockOf(y, dots)
    PROVE  x = y
<1>1. ASSUME NEW a \in Actors PROVE x[a] = y[a]
    <2>1. x[a] \in Nat /\ y[a] \in Nat
        BY DEF IsClockOf, Clocks
    <2>2. x[a] # 0 => x[a] <= y[a]
        BY DEF IsClockOf
    <2>3. y[a] # 0 => y[a] <= x[a]
        BY DEF IsClockOf
    <2> QED BY <2>1, <2>2, <2>3
<1> QED BY <1>1 DEF IsClockOf, Clocks

(* apply *)
LEMMA ClockOfOneMore ==
    ASSUME NEW dots, NEW x, IsClockOf(x, dots), NEW d, AreDots({d}), AreDots(dots)
    PROVE  IsClockOf(ClockApply(x, d), dots \cup {d})
<1> DEFINE y == ClockApply(x, d)
<1>1. d.actor \in Actors /\ d.counter \in Nat /\ x \in Clocks
    BY DEF AreDots, IsClockOf
<1>2. y \in Clocks
    BY <1>1 DEF ClockApply, Clocks
<1>3. \A a \in Actors : x[a] \in Nat /\ y[a] \in Nat /\ x[a] <= y[a]
    BY <1>1 DEF ClockApply, Clocks
<1>4. d.counter <= y[d.actor]
    BY <1>1 DEF ClockApply, Clocks
<1>5. ASSUME NEW e \in dots PROVE e.counter <= y[e.actor]
    <2>1. e.actor \in Actors /\ e.counter \in Nat /\ e.counter <= x[e.actor]
        BY DEF AreDots, IsClockOf
    <2> QED BY <2>1, <1>3
<1>6. ASSUME NEW a \in Actors, y[a] # 0
      PROVE \E e \in dots \cup {d} : e.actor = a /\ e.counter = y[a]
    <2>1. y[a] = x[a] \/ (a = d.actor /\ y[a] = d.counter)
        BY <1>1 DEF ClockApply, Clocks
    <2> QED BY <2>1, <1>6 DEF IsClockOf
<1> HIDE DEF y
<1>7. IsClockOf(y, dots \cup {d})
    BY <1>2, <1>4, <1>5, <1>6 DEF IsClockOf
<1> QED BY <1>7 DEF y

(* merge *)
LEMMA ClockOfBoth ==
    ASSUME NEW D, NEW E, NEW x, NEW y, IsClockOf(x, D), IsClockOf(y, E),
           AreDots(D), AreDots(E)
    PROVE  IsClockOf(ClockMerge(x, y), D \cup E)
<1> DEFINE z == ClockMerge(x, y)
<1>1. x \in Clocks /\ y \in Clocks
    BY DEF IsClockOf
<1>2. z \in Clocks
    BY <1>1, ClockOperations
<1>3. \A a \in Actors : /\ x[a] \in Nat /\ y[a] \in Nat /\ z[a] \in Nat
                        /\ x[a] <= z[a] /\ y[a] <= z[a]
                        /\ z[a] = x[a] \/ z[a] = y[a]
    BY <1>1 DEF ClockMerge, Clocks
<1> HIDE DEF z
<1>4. ASSUME NEW d \in D \cup E PROVE d.counter <= z[d.actor]
    <2>1. d.actor \in Actors /\ d.counter \in Nat
        BY DEF AreDots
    <2>2. d.counter <= x[d.actor] \/ d.counter <= y[d.actor]
        BY DEF IsClockOf
    <2> QED BY <2>1, <2>2, <1>3
<1>5. ASSUME NEW a \in Actors, z[a] # 0
      PROVE \E d \in D \cup E : d.actor = a /\ d.counter = z[a]
    <2>1. z[a] = x[a] \/ z[a] = y[a]
        BY <1>3
    <2> QED BY <2>1, <1>5 DEF IsClockOf
<1>6. IsClockOf(z, D \cup E)
    BY <1>2, <1>4, <1>5 DEF IsClockOf
<1> QED BY <1>6 DEF z

-----------------------------------------------------------------------------
(* GCounter and PNCounter: the clocks of their operations *)

DotsOf(ops) == {op.dot : op \in ops}

Positive(ops) == {op \in ops : op.dir = "pos"}
Negative(ops) == {op \in ops : op.dir # "pos"}

GCounterReflects(s, ops) == IsClockOf(s, DotsOf(ops))

PNCounterReflects(s, ops) ==
    /\ s = [p |-> s.p, n |-> s.n]
    /\ GCounterReflects(s.p, Positive(ops))
    /\ GCounterReflects(s.n, Negative(ops))

LEMMA GCounterApplies ==
    ASSUME NEW s, NEW ops, NEW op, AreDots(DotsOf(ops)), AreDots({op.dot}),
           GCounterReflects(s, ops)
    PROVE  GCounterReflects(GCounterApply(s, op), ops \cup {op})
<1>1. DotsOf(ops \cup {op}) = DotsOf(ops) \cup {op.dot}
    BY DEF DotsOf
<1> QED BY <1>1, ClockOfOneMore DEF GCounterReflects, GCounterApply

LEMMA GCounterMerges ==
    ASSUME NEW s, NEW t, NEW S, NEW T, AreDots(DotsOf(S)), AreDots(DotsOf(T)),
           GCounterReflects(s, S), GCounterReflects(t, T)
    PROVE  GCounterReflects(ClockMerge(s, t), S \cup T)
<1>1. DotsOf(S \cup T) = DotsOf(S) \cup DotsOf(T)
    BY DEF DotsOf
<1> QED BY <1>1, ClockOfBoth DEF GCounterReflects

LEMMA PNCounterApplies ==
    ASSUME NEW s, NEW ops, NEW op, AreDots(DotsOf(ops)), AreDots({op.dot}),
           PNCounterReflects(s, ops)
    PROVE  PNCounterReflects(PNCounterApply(s, op), ops \cup {op})
<1> DEFINE t == PNCounterApply(s, op)
<1>1. s = [p |-> s.p, n |-> s.n]
    BY DEF PNCounterReflects
<1>2. AreDots(DotsOf(Positive(ops))) /\ AreDots(DotsOf(Negative(ops)))
    BY DEF AreDots, DotsOf, Positive, Negative
<1>3. CASE op.dir = "pos"
    <2>1. t = [p |-> GCounterApply(s.p, op), n |-> s.n]
        BY <1>1, <1>3 DEF PNCounterApply
    <2>2. Positive(ops \cup {op}) = Positive(ops) \cup {op} /\ Negative(ops \cup {op}) = Negative(ops)
        BY <1>3 DEF Positive, Negative
    <2>3. GCounterReflects(GCounterApply(s.p, op), Positive(ops) \cup {op})
        BY <1>2, GCounterApplies DEF PNCounterReflects
    <2> QED BY <2>1, <2>2, <2>3 DEF PNCounterReflects
<1>4. CASE op.dir # "pos"
    <2>1. t = [p |-> s.p, n |-> GCounterApply(s.n, op)]
        BY <1>1, <1>4 DEF PNCounterApply
    <2>2. Negative(ops \cup {op}) = Negative(ops) \cup {op} /\ Positive(ops \cup {op}) = Positive(ops)
        BY <1>4 DEF Positive, Negative
    <2>3. GCounterReflects(GCounterApply(s.n, op), Negative(ops) \cup {op})
        BY <1>2, GCounterApplies DEF PNCounterReflects
    <2> QED BY <2>1, <2>2, <2>3 DEF PNCounterReflects
<1> QED BY <1>3, <1>4

LEMMA PNCounterMerges ==
    ASSUME NEW s, NEW t, NEW S, NEW T, AreDots(DotsOf(S)), AreDots(DotsOf(T)),
           PNCounterReflects(s, S), PNCounterReflects(t, T)
    PROVE  PNCounterReflects(PNCounterMerge(s, t), S \cup T)
<1>1. /\ AreDots(DotsOf(Positive(S))) /\ AreDots(DotsOf(Negative(S)))
      /\ AreDots(DotsOf(Positive(T))) /\ AreDots(DotsOf(Negative(T)))
    BY DEF AreDots, DotsOf, Positive, Negative
<1>2. /\ Positive(S \cup T) = Positive(S) \cup Positive(T)
      /\ Negative(S \cup T) = Negative(S) \cup Negative(T)
    BY DEF Positive, Negative
<1>3. GCounterReflects(ClockMerge(s.p, t.p), Positive(S) \cup Positive(T))
    BY <1>1, GCounterMerges DEF PNCounterReflects
<1>4. GCounterReflects(ClockMerge(s.n, t.n), Negative(S) \cup Negative(T))
    BY <1>1, GCounterMerges DEF PNCounterReflects
<1> QED BY <1>2, <1>3, <1>4 DEF PNCounterReflects, PNCounterMerge

LEMMA PNCounterIsUnique ==
    ASSUME NEW s, NEW t, NEW ops, PNCounterReflects(s, ops), PNCounterReflects(t, ops)
    PROVE  s = t
<1>1. s.p = t.p /\ s.n = t.n
    BY ClockOfIsUnique DEF PNCounterReflects, GCounterReflects
<1> QED BY <1>1 DEF PNCounterReflects

-----------------------------------------------------------------------------
(* LWWReg: the newest of its operations *)

Markers == [n : Nat, actor : Int]

LWWRegStart == LWWRegNew(Default)
LWWRegKnown(ops) == ops \cup {LWWRegStart}

(* Unique markers, the default one below them *)
AreUpdates(ops) ==
    /\ \A x \in LWWRegKnown(ops) : x.marker \in Markers
    /\ \A x, y \in LWWRegKnown(ops) : x.marker = y.marker => x = y

LWWRegReflects(s, ops) ==
    /\ s \in LWWRegKnown(ops)
    /\ \A x \in LWWRegKnown(ops) : x = s \/ MarkerBefore(x.marker, s.marker)

(* Markers are a total order. *)
LEMMA MarkersAreOrdered ==
    ASSUME NEW x \in Markers, NEW y \in Markers, NEW z \in Markers
    PROVE  /\ x = y \/ MarkerBefore(x, y) \/ MarkerBefore(y, x)
           /\ ~(MarkerBefore(x, y) /\ MarkerBefore(y, x))
           /\ MarkerBefore(x, y) /\ MarkerBefore(y, z) => MarkerBefore(x, z)
BY DEF Markers, MarkerBefore

LEMMA LWWRegMerges ==
    ASSUME NEW s, NEW t, NEW S, NEW T, AreUpdates(S \cup T),
           LWWRegReflects(s, S), LWWRegReflects(t, T)
    PROVE  LWWRegReflects(LWWRegUpdate(s, t), S \cup T)
<1> DEFINE all == LWWRegKnown(S \cup T)
           u == LWWRegUpdate(s, t)
<1>1. all = LWWRegKnown(S) \cup LWWRegKnown(T)
    BY DEF LWWRegKnown
<1>2. \A x \in all : x.marker \in Markers
    BY DEF AreUpdates
<1>3. s \in all /\ t \in all
    BY <1>1 DEF LWWRegReflects
<1>4. u = IF MarkerBefore(s.marker, t.marker) THEN t ELSE s
    BY DEF LWWRegUpdate
<1> HIDE DEF u
<1>5. /\ u \in all
      /\ u = s \/ MarkerBefore(s.marker, u.marker)
      /\ u = t \/ MarkerBefore(t.marker, u.marker)
    BY <1>2, <1>3, <1>4, MarkersAreOrdered DEF AreUpdates
<1>6. ASSUME NEW x \in all PROVE x = u \/ MarkerBefore(x.marker, u.marker)
    <2>1. x = s \/ x = t \/ MarkerBefore(x.marker, s.marker) \/ MarkerBefore(x.marker, t.marker)
        BY <1>1 DEF LWWRegReflects
    <2>2. u.marker \in Markers /\ s.marker \in Markers /\ t.marker \in Markers /\ x.marker \in Markers
        BY <1>2, <1>3, <1>5
    <2> QED BY <1>5, <2>1, <2>2, MarkersAreOrdered
<1>7. LWWRegReflects(u, S \cup T)
    BY <1>5, <1>6 DEF LWWRegReflects
<1> QED BY <1>7 DEF u

LEMMA LWWRegIsUnique ==
    ASSUME NEW s, NEW t, NEW ops, AreUpdates(ops), LWWRegReflects(s, ops), LWWRegReflects(t, ops)
    PROVE  s = t
<1>1. /\ s.marker \in Markers /\ t.marker \in Markers
      /\ s = t \/ MarkerBefore(s.marker, t.marker)
      /\ s = t \/ MarkerBefore(t.marker, s.marker)
    BY DEF LWWRegReflects, AreUpdates
<1> QED BY <1>1, MarkersAreOrdered

LEMMA LWWRegStarts == LWWRegReflects(LWWRegStart, {})
BY DEF LWWRegReflects, LWWRegKnown

(* An update is the merge with the state it stands for. *)
LEMMA LWWRegApplies ==
    ASSUME NEW s, NEW ops, NEW op, AreUpdates(ops \cup {op}), op.marker.n # 0, LWWRegReflects(s, ops)
    PROVE  LWWRegReflects(LWWRegUpdate(s, op), ops \cup {op})
<1>1. LWWRegStart \in LWWRegKnown(ops \cup {op}) /\ op \in LWWRegKnown(ops \cup {op})
    BY DEF LWWRegKnown
<1>2. LWWRegStart.marker = [n |-> 0, actor |-> 0]
    BY DEF LWWRegStart, LWWRegNew
<1>3. MarkerBefore(LWWRegStart.marker, op.marker)
    BY <1>1, <1>2 DEF AreUpdates, MarkerBefore, Markers
<1>4. LWWRegReflects(op, {op})
    BY <1>3 DEF LWWRegReflects, LWWRegKnown
<1> QED BY <1>4, LWWRegMerges

(* What is read of the register is the newest of the updates. *)
LEMMA LWWRegMeans ==
    ASSUME NEW s, NEW ops, AreUpdates(ops), LWWRegReflects(s, ops)
    PROVE  LWWRegMeaning(LWWRegStart, ops) = s.val
<1> DEFINE Newest(x) == \A y \in ops \cup {LWWRegStart} : x = y \/ MarkerBefore(y.marker, x.marker)
           newest == CHOOSE x \in ops \cup {LWWRegStart} : Newest(x)
<1>1. s \in ops \cup {LWWRegStart} /\ Newest(s)
    BY DEF LWWRegReflects, LWWRegKnown
<1>2. newest \in ops \cup {LWWRegStart} /\ Newest(newest)
    BY <1>1
<1>3. LWWRegReflects(newest, ops)
    BY <1>2 DEF LWWRegReflects, LWWRegKnown
<1>4. newest = s
    BY <1>3, LWWRegIsUnique
<1>5. LWWRegMeaning(LWWRegStart, ops) = newest.val
    BY DEF LWWRegMeaning
<1> QED BY <1>4, <1>5

-----------------------------------------------------------------------------
(* MVReg: the operations that no other has seen *)

ArePuts(ops) ==
    /\ \A x \in ops : x.clock \in Clocks
    /\ \A x, y \in ops : x.clock = y.clock => x = y

(* Without a bound on how many operations there are: whatever the state lacks
   is below something that it has. *)
MVRegReflects(s, ops) ==
    /\ s \subseteq ops
    /\ \A x, y \in s : ~Before(x.clock, y.clock)
    /\ \A x \in ops : \E y \in s : x = y \/ Before(x.clock, y.clock)

LEMMA BeforeIsOrder ==
    ASSUME NEW x \in Clocks, NEW y \in Clocks, NEW z \in Clocks
    PROVE  /\ ~(Before(x, y) /\ Before(y, x))
           /\ Before(x, y) /\ Before(y, z) => Before(x, z)
BY CoversIsOrder DEF Before

LEMMA MVRegIsUnique ==
    ASSUME NEW s, NEW t, NEW ops, ArePuts(ops), MVRegReflects(s, ops), MVRegReflects(t, ops)
    PROVE  s = t
<1>1. ASSUME NEW u, NEW v, MVRegReflects(u, ops), MVRegReflects(v, ops), NEW x \in u PROVE x \in v
    <2>1. PICK y \in v : x = y \/ Before(x.clock, y.clock)
        BY <1>1 DEF MVRegReflects
    <2>2. PICK z \in u : y = z \/ Before(y.clock, z.clock)
        BY <1>1 DEF MVRegReflects
    <2>3. x.clock \in Clocks /\ y.clock \in Clocks /\ z.clock \in Clocks
        BY <1>1 DEF MVRegReflects, ArePuts
    <2>4. ~Before(x.clock, z.clock)
        BY <1>1 DEF MVRegReflects
    <2> QED BY <2>1, <2>2, <2>3, <2>4, BeforeIsOrder
<1> QED BY <1>1

(* merge: what either side lacks is below what one of them has. *)
LEMMA MVRegMerges ==
    ASSUME NEW s, NEW t, NEW S, NEW T, ArePuts(S \cup T), MVRegReflects(s, S), MVRegReflects(t, T)
    PROVE  MVRegReflects(MVRegMerge(s, t), S \cup T)
<1> DEFINE ours == {x \in s : ~ \E y \in t : Before(x.clock, y.clock)}
           theirs == {y \in t : \A x \in ours : ~Before(y.clock, x.clock) /\ y.clock # x.clock}
<1>1. MVRegMerge(s, t) = ours \cup theirs
    BY DEF MVRegMerge
<1>2. s \subseteq S /\ t \subseteq T /\ ours \subseteq s /\ theirs \subseteq t
    BY DEF MVRegReflects
<1>3. \A x \in S \cup T : x.clock \in Clocks
    BY DEF ArePuts
<1>4. ASSUME NEW x \in s PROVE \E y \in ours \cup theirs : x = y \/ Before(x.clock, y.clock)
    <2>1. CASE x \in ours
        BY <2>1
    <2>2. CASE x \notin ours
        <3>1. PICK y \in t : Before(x.clock, y.clock)
            BY <2>2
        <3>2. ASSUME NEW z \in ours PROVE ~Before(y.clock, z.clock) /\ y.clock # z.clock
            <4>1. z \in s /\ ~Before(x.clock, z.clock)
                BY <1>2 DEF MVRegReflects
            <4>2. x.clock \in Clocks /\ y.clock \in Clocks /\ z.clock \in Clocks
                BY <1>2, <1>3, <4>1
            <4> QED BY <3>1, <4>1, <4>2, BeforeIsOrder
        <3> QED BY <3>1, <3>2
    <2> QED BY <2>1, <2>2
<1>5. ASSUME NEW x \in t PROVE \E y \in ours \cup theirs : x = y \/ Before(x.clock, y.clock)
    <2>1. CASE x \in theirs
        BY <2>1
    <2>2. CASE x \notin theirs
        <3>1. PICK y \in ours : Before(x.clock, y.clock) \/ x.clock = y.clock
            BY <2>2
        <3>2. x.clock = y.clock => x = y
            BY <1>2 DEF ArePuts
        <3> QED BY <3>1, <3>2
    <2> QED BY <2>1, <2>2
<1>6. ASSUME NEW x \in S \cup T PROVE \E y \in ours \cup theirs : x = y \/ Before(x.clock, y.clock)
    <2>1. PICK z \in s \cup t : x = z \/ Before(x.clock, z.clock)
        BY DEF MVRegReflects
    <2>2. PICK y \in ours \cup theirs : z = y \/ Before(z.clock, y.clock)
        BY <1>4, <1>5
    <2>3. x.clock \in Clocks /\ y.clock \in Clocks /\ z.clock \in Clocks
        BY <1>2, <1>3
    <2> QED BY <2>1, <2>2, <2>3, BeforeIsOrder
<1>7. ASSUME NEW x \in ours \cup theirs, NEW y \in ours \cup theirs PROVE ~Before(x.clock, y.clock)
    <2>1. x \in s /\ y \in s => ~Before(x.clock, y.clock)
        BY DEF MVRegReflects
    <2>2. x \in t /\ y \in t => ~Before(x.clock, y.clock)
        BY DEF MVRegReflects
    <2>3. x \in ours /\ y \in theirs => ~Before(x.clock, y.clock)
        BY <1>2
    <2>4. x \in theirs /\ y \in ours => ~Before(x.clock, y.clock)
        OBVIOUS
    <2> QED BY <1>2, <2>1, <2>2, <2>3, <2>4
<1> HIDE DEF ours, theirs
<1> QED BY <1>1, <1>2, <1>6, <1>7 DEF MVRegReflects

(* A bounded set of numbers has a maximum: the one that clock() takes. *)
LEMMA MaximumExists ==
    ASSUME NEW S \in SUBSET Nat, S # {}, NEW bound \in Nat, \A n \in S : n <= bound
    PROVE  Max(S) \in S /\ \A n \in S : n <= Max(S)
<1> DEFINE Above(n) == {m \in S : m > n}
           tails == {Above(n) : n \in S}
<1>1. tails \subseteq FiniteSubsetsOf(S) /\ tails # {}
    <2>1. IsFiniteSet(S)
        BY FS_BoundedSetOfNaturals
    <2>2. \A n \in S : IsFiniteSet(Above(n))
        BY <2>1, FS_Subset
    <2> QED BY <2>2 DEF FiniteSubsetsOf
<1>2. PICK tail \in tails : \A other \in tails : <<other, tail>> \notin StrictSubsetOrdering(S)
    BY <1>1, FS_StrictSubsetOrderingWellFounded, WFMin
<1>3. PICK n \in S : tail = Above(n)
    OBVIOUS
<1>4. ASSUME NEW m \in S, m > n PROVE FALSE
    <2>1. Above(m) \subseteq Above(n)
        <3>1. \A k \in S : k \in Nat /\ (k > m => k > n)
            BY <1>4
        <3> QED BY <3>1
    <2>2. m \in Above(n) /\ m \notin Above(m)
        BY <1>4
    <2>3. <<Above(m), Above(n)>> \in StrictSubsetOrdering(S)
        BY <2>1, <2>2 DEF StrictSubsetOrdering
    <2>4. Above(m) \in tails
        OBVIOUS
    <2> QED BY <1>2, <1>3, <2>3, <2>4
<1>5. \A m \in S : n >= m
    BY <1>4
<1>6. \E x \in S : \A m \in S : x >= m
    BY <1>5
<1>7. Max(S) \in S /\ \A m \in S : Max(S) >= m
    BY <1>6 DEF Max
<1> QED BY <1>7

(* clock() covers the values of the register and no more than what is known. *)
LEMMA MVRegClockCovers ==
    ASSUME NEW s, \A x \in s : x.clock \in Clocks,
           NEW bound \in Clocks, \A x \in s : Covers(bound, x.clock)
    PROVE  /\ MVRegClock(s) \in Clocks
           /\ Covers(bound, MVRegClock(s))
           /\ \A x \in s : Covers(MVRegClock(s), x.clock)
<1>1. ASSUME NEW a \in Actors
      PROVE /\ MVRegClock(s)[a] \in Nat
            /\ MVRegClock(s)[a] <= bound[a]
            /\ \A x \in s : x.clock[a] <= MVRegClock(s)[a]
    <2> DEFINE counters == {x.clock[a] : x \in s} \cup {0}
    <2>1. bound[a] \in Nat /\ \A x \in s : x.clock[a] \in Nat /\ x.clock[a] <= bound[a]
        BY DEF Clocks, Covers
    <2>2. counters \in SUBSET Nat /\ counters # {} /\ \A n \in counters : n <= bound[a]
        BY <2>1
    <2>3. Max(counters) \in counters /\ \A n \in counters : n <= Max(counters)
        BY <2>1, <2>2, MaximumExists
    <2>4. MVRegClock(s)[a] = Max(counters)
        BY DEF MVRegClock
    <2> HIDE DEF counters
    <2>5. MVRegClock(s)[a] \in Nat /\ MVRegClock(s)[a] <= bound[a]
        BY <2>2, <2>3, <2>4
    <2>6. \A x \in s : x.clock[a] \in counters
        BY DEF counters
    <2> QED BY <2>3, <2>4, <2>5, <2>6
<1>2. MVRegClock(s) \in Clocks
    BY <1>1 DEF MVRegClock, Clocks
<1>3. Covers(bound, MVRegClock(s))
    <2>1. ASSUME NEW a \in Actors PROVE bound[a] >= MVRegClock(s)[a]
        BY <1>1 DEF Clocks
    <2> QED BY <2>1 DEF Covers
<1>4. ASSUME NEW x \in s PROVE Covers(MVRegClock(s), x.clock)
    <2>1. ASSUME NEW a \in Actors PROVE MVRegClock(s)[a] >= x.clock[a]
        BY <1>1 DEF Clocks
    <2> QED BY <2>1 DEF Covers
<1> QED BY <1>2, <1>3, <1>4

(* A value put by the actor itself takes the place of all that it has read,
   and its clock is new. *)
LEMMA MVRegPuts ==
    ASSUME NEW s, NEW ops, ArePuts(ops), MVRegReflects(s, ops),
           NEW bound \in Clocks, \A x \in ops : Covers(bound, x.clock),
           NEW a \in Actors, bound[a] = 0 \/ \E x \in ops : x.clock[a] = bound[a],
           NEW op \in MVRegOps(s, a)
    PROVE  /\ op.clock \in Clocks
           /\ op.clock[a] = bound[a] + 1
           /\ \A b \in Actors \ {a} : op.clock[b] <= bound[b]
           /\ MVRegReflects(MVRegApply(s, op), ops \cup {op})
<1> DEFINE c == MVRegClock(s)
<1>1. s \subseteq ops /\ \A x \in ops : x.clock \in Clocks
    BY DEF MVRegReflects, ArePuts
<1>2. c \in Clocks /\ Covers(bound, c) /\ \A x \in s : Covers(c, x.clock)
    BY <1>1, MVRegClockCovers
<1>3. op.clock = ClockApply(c, Inc(c, a))
    BY DEF MVRegOps
<1> HIDE DEF c
<1>4. \A b \in Actors : c[b] \in Nat /\ bound[b] \in Nat /\ c[b] <= bound[b]
    BY <1>2 DEF Clocks, Covers
<1>5. op.clock = [c EXCEPT ![a] = c[a] + 1]
    BY <1>2, <1>3, <1>4 DEF ClockApply, Inc
<1>6. op.clock \in Clocks /\ op.clock[a] = c[a] + 1 /\ \A b \in Actors \ {a} : op.clock[b] = c[b]
    BY <1>2, <1>5 DEF Clocks
<1>7. c[a] = bound[a]
    <2>1. CASE bound[a] = 0
        BY <1>4, <2>1
    <2>2. CASE \E x \in ops : x.clock[a] = bound[a]
        <3>1. PICK x \in ops : x.clock[a] = bound[a]
            BY <2>2
        <3>2. PICK y \in s : x = y \/ Before(x.clock, y.clock)
            BY DEF MVRegReflects
        <3>3. /\ x.clock[a] \in Nat /\ y.clock[a] \in Nat
              /\ x.clock[a] <= y.clock[a] /\ y.clock[a] <= c[a]
            BY <1>1, <1>2, <3>2 DEF Before, Covers, Clocks
        <3> QED BY <1>4, <3>1, <3>3
    <2> QED BY <2>1, <2>2
<1>8. ASSUME NEW x \in s PROVE Before(x.clock, op.clock)
    <2>1. x.clock \in Clocks /\ Covers(c, x.clock)
        BY <1>1, <1>2
    <2>2. Covers(op.clock, c)
        <3>1. ASSUME NEW b \in Actors PROVE op.clock[b] >= c[b]
            BY <1>4, <1>6
        <3> QED BY <3>1 DEF Covers
    <2>3. Covers(op.clock, x.clock)
        BY <1>2, <1>6, <2>1, <2>2, CoversIsOrder
    <2>4. x.clock[a] # op.clock[a]
        BY <1>4, <1>6, <2>1 DEF Covers, Clocks
    <2> QED BY <2>3, <2>4 DEF Before
<1>9. MVRegApply(s, op) = {op}
    <2>1. op.clock # NoClock
        BY <1>4, <1>6 DEF NoClock
    <2>2. {x \in s : Before(op.clock, x.clock)} = {}
        BY <1>1, <1>6, <1>8, BeforeIsOrder
    <2> QED BY <2>1, <2>2 DEF MVRegApply
<1>10. ASSUME NEW x \in ops PROVE Before(x.clock, op.clock)
    <2>1. PICK y \in s : x = y \/ Before(x.clock, y.clock)
        BY DEF MVRegReflects
    <2>2. Before(y.clock, op.clock) /\ x.clock \in Clocks /\ y.clock \in Clocks
        BY <1>1, <1>8
    <2> QED BY <1>6, <2>1, <2>2, BeforeIsOrder
<1>11. ~Before(op.clock, op.clock)
    BY DEF Before
<1>12. MVRegReflects({op}, ops \cup {op})
    BY <1>10, <1>11 DEF MVRegReflects
<1> QED BY <1>4, <1>6, <1>7, <1>9, <1>12

(* What is read is the values that no other put has seen, and they are
   concurrent. *)
LEMMA MVRegMeans ==
    ASSUME NEW s, NEW ops, ArePuts(ops), MVRegReflects(s, ops)
    PROVE  MVRegSound(s) /\ MVRegRead(s) = MVRegMeaning(ops)
<1>1. s \subseteq ops /\ \A x \in ops : x.clock \in Clocks
    BY DEF MVRegReflects, ArePuts
<1>2. MVRegSound(s)
    <2>1. ASSUME NEW x \in s, NEW y \in s, x # y PROVE ~Covers(x.clock, y.clock)
        BY <1>1, <2>1 DEF ArePuts, MVRegReflects, Before
    <2> QED BY <2>1 DEF MVRegSound, Concurrent
<1>3. s = {p \in ops : ~ \E q \in ops : Before(p.clock, q.clock)}
    <2>1. ASSUME NEW p \in s, NEW q \in ops PROVE ~Before(p.clock, q.clock)
        <3>1. PICK r \in s : q = r \/ Before(q.clock, r.clock)
            BY DEF MVRegReflects
        <3>2. ~Before(p.clock, r.clock)
            BY DEF MVRegReflects
        <3>3. p.clock \in Clocks /\ q.clock \in Clocks /\ r.clock \in Clocks
            BY <1>1
        <3> QED BY <3>1, <3>2, <3>3, BeforeIsOrder
    <2>2. ASSUME NEW p \in ops, ~ \E q \in ops : Before(p.clock, q.clock) PROVE p \in s
        BY <1>1, <2>2 DEF MVRegReflects
    <2> QED BY <1>1, <2>1, <2>2
<1> QED BY <1>2, <1>3 DEF MVRegRead, MVRegMeaning

-----------------------------------------------------------------------------
(* Orswot: of each actor's newest addition of a member, what no removal has
   seen; and the removals that have seen more than the set. *)

AddsIn(ops) == {op \in ops : op.type = "add"}
AddsOf(ops, m) == {op \in AddsIn(ops) : m \in op.members}
RemovalClocks(ops, m) == {op.clock : op \in {r \in ops : r.type = "rm" /\ m \in r.members}}
Removed(ops) == {r \in [clock : Clocks, member : Members] : r.clock \in RemovalClocks(ops, r.member)}

AreOrswotOps(ops) ==
    \A op \in ops :
        /\ op.type \in {"add", "rm"} /\ op.members \subseteq Members
        /\ op.type = "add" => op.dot.actor \in Actors /\ op.dot.counter \in Nat \ {0}
        /\ op.type = "rm" => op.clock \in Clocks

(* Of each actor, what was seen is what came first. *)
CameFirst(ops, all) ==
    /\ ops \subseteq all
    /\ \A x \in AddsIn(ops), y \in AddsIn(all) :
           y.dot.actor = x.dot.actor /\ y.dot.counter <= x.dot.counter => y \in ops

EntryReflects(e, ops, m) ==
    \E x \in Clocks : IsClockOf(x, DotsOf(AddsOf(ops, m))) /\ e = Without(x, RemovalClocks(ops, m))

OrswotReflects(s, ops) ==
    /\ s \in States
    /\ IsClockOf(s.clock, DotsOf(AddsIn(ops)))
    /\ \A m \in Members : EntryReflects(s.entries[m], ops, m)
    /\ s.deferred = {r \in Removed(ops) : ~Covers(s.clock, r.clock)}

LEMMA OrswotStarts == OrswotReflects(OrswotNew, {})
<1>1. DotsOf(AddsIn({})) = {} /\ Removed({}) = {}
    BY DEF DotsOf, AddsIn, Removed, RemovalClocks
<1>2. ASSUME NEW m \in Members PROVE EntryReflects(NoClock, {}, m)
    <2>1. DotsOf(AddsOf({}, m)) = {} /\ RemovalClocks({}, m) = {}
        BY DEF DotsOf, AddsOf, AddsIn, RemovalClocks
    <2>2. Without(NoClock, {}) = NoClock
        BY DEF Without, NoClock
    <2> QED BY <2>1, <2>2, ClockOfNone DEF EntryReflects, IsClockOf
<1>3. OrswotNew \in States
    BY DEF OrswotNew, States, NoClock, Clocks
<1> QED BY <1>1, <1>2, <1>3, ClockOfNone DEF OrswotReflects, OrswotNew

(* What is in the set is a function of the operations. *)
LEMMA OrswotIsUnique ==
    ASSUME NEW s, NEW t, NEW ops, OrswotReflects(s, ops), OrswotReflects(t, ops)
    PROVE  s = t
<1>1. s.clock = t.clock
    BY ClockOfIsUnique DEF OrswotReflects
<1>2. s.deferred = t.deferred
    BY <1>1 DEF OrswotReflects
<1>3. ASSUME NEW m \in Members PROVE s.entries[m] = t.entries[m]
    BY ClockOfIsUnique DEF OrswotReflects, EntryReflects
<1>4. s \in States /\ t \in States
    BY DEF OrswotReflects
<1>5. s.entries = t.entries
    BY <1>3, <1>4 DEF States
<1> QED BY <1>1, <1>2, <1>4, <1>5 DEF States

(* A state is one when its fields are what they should be. *)
LEMMA OrswotReflectsFields ==
    ASSUME NEW t, NEW ops, AreOrswotOps(ops),
           t \in [clock : {t.clock}, entries : {t.entries}, deferred : {t.deferred}],
           t.entries = [m \in Members |-> t.entries[m]],
           IsClockOf(t.clock, DotsOf(AddsIn(ops))),
           \A m \in Members : EntryReflects(t.entries[m], ops, m),
           t.deferred = {r \in Removed(ops) : ~Covers(t.clock, r.clock)}
    PROVE  OrswotReflects(t, ops)
<1>1. t.clock \in Clocks
    BY DEF IsClockOf
<1>2. ASSUME NEW m \in Members PROVE t.entries[m] \in Clocks
    <2>1. PICK x \in Clocks : t.entries[m] = Without(x, RemovalClocks(ops, m))
        BY DEF EntryReflects
    <2>2. \A a \in Actors : x[a] \in Nat
        BY DEF Clocks
    <2>3. Without(x, RemovalClocks(ops, m)) \in Clocks
        BY <2>2 DEF Without, Clocks
    <2> QED BY <2>1, <2>3
<1>3. t.entries \in [Members -> Clocks]
    BY <1>2
<1>4. t.deferred \in SUBSET [clock : Clocks, member : Members]
    BY DEF Removed
<1>5. t \in States
    BY <1>1, <1>3, <1>4 DEF States
<1> QED BY <1>5 DEF OrswotReflects

LEMMA AddsAreDots ==
    ASSUME NEW ops, AreOrswotOps(ops)
    PROVE  AreDots(DotsOf(AddsIn(ops))) /\ \A m : AreDots(DotsOf(AddsOf(ops, m)))
BY DEF AreOrswotOps, AreDots, DotsOf, AddsIn, AddsOf

LEMMA RemovalsAreClocks ==
    ASSUME NEW ops, AreOrswotOps(ops), NEW m
    PROVE  RemovalClocks(ops, m) \subseteq Clocks
BY DEF AreOrswotOps, RemovalClocks

(* To take out what was seen by C, and then what was seen by D *)
LEMMA WithoutMore ==
    ASSUME NEW x \in Clocks, NEW C \in SUBSET Clocks, NEW D \in SUBSET Clocks
    PROVE  [a \in Actors |-> IF \E d \in D : d[a] >= Without(x, C)[a] THEN 0 ELSE Without(x, C)[a]]
             = Without(x, C \cup D)
<1>1. ASSUME NEW a \in Actors
      PROVE  (IF \E d \in D : d[a] >= Without(x, C)[a] THEN 0 ELSE Without(x, C)[a])
               = Without(x, C \cup D)[a]
    <2>1. x[a] \in Nat /\ \A c \in C \cup D : c[a] \in Nat
        BY DEF Clocks
    <2>2. CASE \E c \in C : c[a] >= x[a]
        BY <2>1, <2>2 DEF Without
    <2>3. CASE ~ \E c \in C : c[a] >= x[a]
        BY <2>1, <2>3 DEF Without
    <2> QED BY <2>2, <2>3
<1> QED BY <1>1 DEF Without

(* apply_rm, field by field *)
LEMMA RemovalsApplied ==
    ASSUME NEW s \in States, NEW R
    PROVE  ApplyRemovals(s, R) =
             [clock |-> s.clock,
              entries |-> [m \in Members |-> [a \in Actors |->
                  IF \E r \in R : r.member = m /\ r.clock[a] >= s.entries[m][a]
                  THEN 0 ELSE s.entries[m][a]]],
              deferred |-> s.deferred \cup {r \in R : ~Covers(s.clock, r.clock)}]
<1> DEFINE entries == [m \in Members |-> [a \in Actors |->
                          IF \E r \in R : r.member = m /\ r.clock[a] >= s.entries[m][a]
                          THEN 0 ELSE s.entries[m][a]]]
           more == {r \in R : ~Covers(s.clock, r.clock)}
           all == s.deferred \cup more
           mid == [s EXCEPT !.entries = entries]
           E == [Members -> Clocks]
           D == SUBSET [clock : Clocks, member : Members]
<1>1. ApplyRemovals(s, R) = [s EXCEPT !.entries = entries, !.deferred = all]
    BY DEF ApplyRemovals
<1>2. s \in [clock : Clocks, entries : E, deferred : D]
    BY DEF States
<1> HIDE DEF entries, more, E, D
<1>3. mid = [clock |-> s.clock, entries |-> entries, deferred |-> s.deferred]
    BY <1>2
<1>4. [s EXCEPT !.entries = entries, !.deferred = all] = [mid EXCEPT !.deferred = all]
    OBVIOUS
<1> HIDE DEF mid, all
<1>5. mid \in [clock : Clocks, entries : {entries}, deferred : D]
    BY <1>2, <1>3
<1>6. [mid EXCEPT !.deferred = all]
        = [clock |-> mid.clock, entries |-> mid.entries, deferred |-> all]
    BY <1>5
<1>7. mid.clock = s.clock /\ mid.entries = entries
    BY <1>3
<1> QED BY <1>1, <1>4, <1>6, <1>7 DEF all, more, entries

(* apply of a removal *)
LEMMA OrswotRemoves ==
    ASSUME NEW s, NEW ops, NEW op, op.type = "rm", AreOrswotOps(ops \cup {op}), OrswotReflects(s, ops)
    PROVE  OrswotReflects(OrswotApply(s, op), ops \cup {op})
<1> DEFINE R == Removals(op.clock, op.members)
           t == ApplyRemovals(s, R)
           both == ops \cup {op}
<1>1. OrswotApply(s, op) = t
    BY DEF OrswotApply
<1>2. op.members \subseteq Members /\ op.clock \in Clocks /\ AreOrswotOps(ops)
    BY DEF AreOrswotOps
<1>3. /\ t.clock = s.clock
      /\ t.entries = [m \in Members |-> [a \in Actors |->
                          IF \E r \in R : r.member = m /\ r.clock[a] >= s.entries[m][a]
                          THEN 0 ELSE s.entries[m][a]]]
      /\ t.deferred = s.deferred \cup {r \in R : ~Covers(s.clock, r.clock)}
      /\ t \in [clock : {t.clock}, entries : {t.entries}, deferred : {t.deferred}]
    <2> HIDE DEF R
    <2> QED BY RemovalsApplied DEF OrswotReflects
<1> HIDE DEF t
<1>4. AddsIn(both) = AddsIn(ops) /\ \A m : AddsOf(both, m) = AddsOf(ops, m)
    BY DEF AddsIn, AddsOf
<1>5. ASSUME NEW m
      PROVE RemovalClocks(both, m) = RemovalClocks(ops, m) \cup (IF m \in op.members THEN {op.clock} ELSE {})
    BY DEF RemovalClocks
<1>6. Removed(both) = Removed(ops) \cup R
    <2>1. R = {r \in [clock : Clocks, member : Members] : r.clock = op.clock /\ r.member \in op.members}
        BY <1>2 DEF Removals
    <2> HIDE DEF R, both
    <2> QED BY <1>5, <2>1 DEF Removed
<1>7. t.deferred = {r \in Removed(both) : ~Covers(t.clock, r.clock)}
    BY <1>3, <1>6 DEF OrswotReflects
<1>8. ASSUME NEW m \in Members PROVE EntryReflects(t.entries[m], both, m)
    <2> DEFINE D == IF m \in op.members THEN {op.clock} ELSE {}
               C == RemovalClocks(ops, m)
    <2>1. PICK x \in Clocks : IsClockOf(x, DotsOf(AddsOf(ops, m))) /\ s.entries[m] = Without(x, C)
        BY DEF OrswotReflects, EntryReflects
    <2>2. D \in SUBSET Clocks /\ C \in SUBSET Clocks
        BY <1>2, RemovalsAreClocks
    <2>3. ASSUME NEW a
          PROVE (\E r \in R : r.member = m /\ r.clock[a] >= s.entries[m][a])
                  <=> \E d \in D : d[a] >= s.entries[m][a]
        <3>1. ASSUME NEW r \in R, r.member = m PROVE r.clock \in D
            BY <3>1 DEF Removals
        <3>2. ASSUME NEW d \in D PROVE \E r \in R : r.member = m /\ r.clock = d
            <4>1. m \in op.members /\ d = op.clock
                OBVIOUS
            <4>2. [clock |-> d, member |-> m] \in R
                BY <4>1 DEF Removals
            <4> QED BY <4>2
        <3> HIDE DEF D, R
        <3> QED BY <3>1, <3>2
    <2> HIDE DEF D, C, R
    <2>4. t.entries[m] = [a \in Actors |-> IF \E d \in D : d[a] >= Without(x, C)[a]
                                            THEN 0 ELSE Without(x, C)[a]]
        BY <1>3, <2>1, <2>3
    <2>5. t.entries[m] = Without(x, C \cup D)
        BY <2>2, <2>4, WithoutMore
    <2> QED BY <1>4, <1>5, <2>1, <2>5 DEF EntryReflects, C, D
<1>9. OrswotReflects(t, both)
    <2> HIDE DEF both, R
    <2>1. t.entries = [m \in Members |-> t.entries[m]]
        BY <1>3
    <2>2. AreOrswotOps(both) /\ IsClockOf(t.clock, DotsOf(AddsIn(both)))
        BY <1>3, <1>4 DEF OrswotReflects, both
    <2> QED BY <1>3, <1>7, <1>8, <2>1, <2>2, OrswotReflectsFields
<1> QED BY <1>1, <1>9

(* apply_deferred, field by field *)
LEMMA DeferredApplied ==
    ASSUME NEW s \in States
    PROVE  ApplyDeferred(s) =
             [clock |-> s.clock,
              entries |-> [m \in Members |-> [a \in Actors |->
                  IF \E r \in s.deferred : r.member = m /\ r.clock[a] >= s.entries[m][a]
                  THEN 0 ELSE s.entries[m][a]]],
              deferred |-> {r \in s.deferred : ~Covers(s.clock, r.clock)}]
<1> DEFINE t == [s EXCEPT !.deferred = {}]
           R == s.deferred
           E == [Members -> Clocks]
           D == SUBSET [clock : Clocks, member : Members]
<1>1. s \in [clock : Clocks, entries : E, deferred : D]
    BY DEF States
<1>2. {} \in D
    OBVIOUS
<1> HIDE DEF E, D
<1>3. t = [clock |-> s.clock, entries |-> s.entries, deferred |-> {}]
    BY <1>1
<1>4. t \in [clock : Clocks, entries : E, deferred : D]
    BY <1>1, <1>2, <1>3
<1>5. t \in States
    BY <1>4 DEF E, D, States
<1>6. ApplyDeferred(s) = ApplyRemovals(t, R)
    BY DEF ApplyDeferred
<1>7. t.clock = s.clock /\ t.entries = s.entries /\ t.deferred = {}
    BY <1>3
<1> HIDE DEF t, R
<1> DEFINE entries(u) == [m \in Members |-> [a \in Actors |->
                            IF \E r \in R : r.member = m /\ r.clock[a] >= u.entries[m][a]
                            THEN 0 ELSE u.entries[m][a]]]
           late(u) == {r \in R : ~Covers(u.clock, r.clock)}
<1>8. ApplyRemovals(t, R)
        = [clock |-> t.clock, entries |-> entries(t), deferred |-> t.deferred \cup late(t)]
    BY <1>5, RemovalsApplied
<1>9. entries(t) = entries(s)
    BY <1>7
<1>10. t.deferred \cup late(t) = late(s)
    BY <1>7
<1> HIDE DEF entries, late
<1>11. ApplyRemovals(t, R) = [clock |-> s.clock, entries |-> entries(s), deferred |-> late(s)]
    BY <1>7, <1>8, <1>9, <1>10
<1> QED BY <1>6, <1>11 DEF R, entries, late

(* What the set has of a member it has seen. *)
LEMMA EntryCovered ==
    ASSUME NEW ops, AreOrswotOps(ops), NEW m, NEW c, NEW x,
           IsClockOf(c, DotsOf(AddsIn(ops))), IsClockOf(x, DotsOf(AddsOf(ops, m)))
    PROVE  Covers(c, x)
<1>1. DotsOf(AddsOf(ops, m)) \subseteq DotsOf(AddsIn(ops))
    BY DEF DotsOf, AddsOf, AddsIn
<1>2. ASSUME NEW a \in Actors PROVE c[a] >= x[a]
    <2>1. c[a] \in Nat /\ x[a] \in Nat
        BY DEF IsClockOf, Clocks
    <2>2. CASE x[a] = 0
        BY <2>1, <2>2
    <2>3. CASE x[a] # 0
        <3>1. PICK d \in DotsOf(AddsOf(ops, m)) : d.actor = a /\ d.counter = x[a]
            BY <2>3 DEF IsClockOf
        <3>2. d.counter <= c[d.actor]
            BY <1>1, <3>1 DEF IsClockOf
        <3> QED BY <2>1, <3>1, <3>2
    <2> QED BY <2>2, <2>3
<1> QED BY <1>2 DEF Covers

(* The removals that wait for a member are those that know more than the set. *)
LEMMA DeferredOf ==
    ASSUME NEW s, NEW ops, AreOrswotOps(ops), OrswotReflects(s, ops), NEW m \in Members
    PROVE  {r.clock : r \in {d \in s.deferred : d.member = m}}
             = {c \in RemovalClocks(ops, m) : ~Covers(s.clock, c)}
<1>1. s.deferred = {r \in Removed(ops) : ~Covers(s.clock, r.clock)}
    BY DEF OrswotReflects
<1>2. RemovalClocks(ops, m) \subseteq Clocks
    BY RemovalsAreClocks
<1>3. ASSUME NEW c \in RemovalClocks(ops, m) PROVE [clock |-> c, member |-> m] \in Removed(ops)
    BY <1>2 DEF Removed
<1>4. ASSUME NEW r \in Removed(ops) PROVE r.clock \in RemovalClocks(ops, r.member)
    BY DEF Removed
<1> DEFINE left == {r.clock : r \in {d \in s.deferred : d.member = m}}
           right == {c \in RemovalClocks(ops, m) : ~Covers(s.clock, c)}
<1>5. left \subseteq right
    BY <1>1, <1>4
<1>6. ASSUME NEW c \in right PROVE c \in left
    <2>1. [clock |-> c, member |-> m] \in s.deferred
        BY <1>1, <1>3
    <2> QED BY <2>1
<1> QED BY <1>5, <1>6

(* apply of an addition: removals that came early are made up for. *)
LEMMA OrswotAdds ==
    ASSUME NEW s, NEW ops, NEW op, op.type = "add", AreOrswotOps(ops \cup {op}), OrswotReflects(s, ops),
           s.clock[op.dot.actor] < op.dot.counter
    PROVE  OrswotReflects(OrswotApply(s, op), ops \cup {op})
<1> DEFINE b == op.dot.actor
           clock == ClockApply(s.clock, op.dot)
           entries == [m \in Members |-> IF m \in op.members THEN ClockApply(s.entries[m], op.dot)
                                         ELSE s.entries[m]]
           mid == [s EXCEPT !.entries = entries]
           added == [mid EXCEPT !.clock = clock]
           t == ApplyDeferred(added)
           both == ops \cup {op}
           E == [Members -> Clocks]
           D == SUBSET [clock : Clocks, member : Members]
<1>1. /\ b \in Actors /\ op.dot.counter \in Nat \ {0} /\ op.members \subseteq Members
      /\ AreOrswotOps(ops) /\ AreOrswotOps(both)
    BY DEF AreOrswotOps
<1>2. s.clock \in Clocks /\ s.entries \in E /\ s \in [clock : Clocks, entries : E, deferred : D]
    BY DEF OrswotReflects, States
<1>3. OrswotApply(s, op) = t
    <2>1. s.clock[b] \in Nat
        BY <1>1, <1>2 DEF Clocks
    <2>2. ~(s.clock[b] >= op.dot.counter)
        BY <1>1, <2>1
    <2>3. OrswotAdd(s, op) = ApplyDeferred([s EXCEPT !.entries = entries, !.clock = clock])
        BY <2>2 DEF OrswotAdd
    <2> HIDE DEF entries, clock
    <2> QED BY <2>3 DEF OrswotApply
<1>4. clock \in Clocks /\ entries \in E
    <2>1. ASSUME NEW x \in Clocks PROVE ClockApply(x, op.dot) \in Clocks
        BY <1>1 DEF ClockApply, Clocks
    <2> QED BY <1>2, <2>1
<1>5. added \in States /\ added = [clock |-> clock, entries |-> entries, deferred |-> s.deferred]
    <2> HIDE DEF entries, clock, E, D
    <2>1. mid = [clock |-> s.clock, entries |-> entries, deferred |-> s.deferred]
        BY <1>2
    <2>2. mid \in [clock : Clocks, entries : E, deferred : D]
        BY <1>2, <1>4, <2>1
    <2>3. mid.entries = entries /\ mid.deferred = s.deferred
        BY <2>1
    <2> HIDE DEF mid
    <2>4. added = [clock |-> clock, entries |-> mid.entries, deferred |-> mid.deferred]
        BY <2>2
    <2>5. added = [clock |-> clock, entries |-> entries, deferred |-> s.deferred]
        BY <2>3, <2>4
    <2> HIDE DEF added
    <2>6. added \in [clock : Clocks, entries : E, deferred : D]
        BY <1>2, <1>4, <2>5
    <2> QED BY <2>5, <2>6 DEF States, E, D
<1> HIDE DEF added
<1>6. /\ t.clock = clock
      /\ t.entries = [m \in Members |-> [a \in Actors |->
                          IF \E r \in s.deferred : r.member = m /\ r.clock[a] >= entries[m][a]
                          THEN 0 ELSE entries[m][a]]]
      /\ t.deferred = {r \in s.deferred : ~Covers(clock, r.clock)}
      /\ t \in [clock : {t.clock}, entries : {t.entries}, deferred : {t.deferred}]
    <2>1. added.clock = clock /\ added.entries = entries /\ added.deferred = s.deferred
        BY <1>5
    <2> HIDE DEF entries, clock
    <2> DEFINE left(u) == [m \in Members |-> [a \in Actors |->
                             IF \E r \in u.deferred : r.member = m /\ r.clock[a] >= u.entries[m][a]
                             THEN 0 ELSE u.entries[m][a]]]
               late(u) == {r \in u.deferred : ~Covers(u.clock, r.clock)}
               left1 == [m \in Members |-> [a \in Actors |->
                             IF \E r \in s.deferred : r.member = m /\ r.clock[a] >= entries[m][a]
                             THEN 0 ELSE entries[m][a]]]
               late1 == {r \in s.deferred : ~Covers(clock, r.clock)}
    <2>2. t = [clock |-> added.clock, entries |-> left(added), deferred |-> late(added)]
        BY <1>5, DeferredApplied
    <2>3. left(added) = left1 /\ late(added) = late1
        BY <2>1
    <2> HIDE DEF left, late, left1, late1, t
    <2>4. t = [clock |-> clock, entries |-> left1, deferred |-> late1]
        BY <2>1, <2>2, <2>3
    <2> QED BY <2>4 DEF left1, late1
<1> HIDE DEF t, E, D
<1>7. IsClockOf(t.clock, DotsOf(AddsIn(both)))
    <2>1. DotsOf(AddsIn(both)) = DotsOf(AddsIn(ops)) \cup {op.dot}
        BY DEF DotsOf, AddsIn
    <2>2. AreDots({op.dot}) /\ AreDots(DotsOf(AddsIn(ops)))
        BY <1>1, AddsAreDots DEF AreDots
    <2>3. IsClockOf(s.clock, DotsOf(AddsIn(ops)))
        BY DEF OrswotReflects
    <2>4. IsClockOf(clock, DotsOf(AddsIn(ops)) \cup {op.dot})
        BY <2>2, <2>3, ClockOfOneMore
    <2> HIDE DEF clock
    <2> QED BY <1>6, <2>1, <2>4
<1>8. Covers(clock, s.clock)
    BY <1>1, <1>2 DEF Covers, ClockApply, Clocks
<1>9. \A m : RemovalClocks(both, m) = RemovalClocks(ops, m)
    BY DEF RemovalClocks
<1>10. t.deferred = {r \in Removed(both) : ~Covers(t.clock, r.clock)}
    <2>1. Removed(both) = Removed(ops)
        BY <1>9 DEF Removed
    <2>2. ASSUME NEW r \in Removed(ops), Covers(s.clock, r.clock) PROVE Covers(clock, r.clock)
        <3>1. r.clock \in Clocks
            BY DEF Removed
        <3> QED BY <1>2, <1>4, <1>8, <2>2, <3>1, CoversIsOrder
    <2> QED BY <1>6, <2>1, <2>2 DEF OrswotReflects
<1>11. ASSUME NEW m \in Members PROVE EntryReflects(t.entries[m], both, m)
    <2> DEFINE C == RemovalClocks(ops, m)
               late == {c \in C : ~Covers(s.clock, c)}
    <2>1. PICK x \in Clocks : IsClockOf(x, DotsOf(AddsOf(ops, m))) /\ s.entries[m] = Without(x, C)
        BY DEF OrswotReflects, EntryReflects
    <2> DEFINE y == IF m \in op.members THEN ClockApply(x, op.dot) ELSE x
    <2>2. IsClockOf(y, DotsOf(AddsOf(both, m)))
        <3>1. DotsOf(AddsOf(both, m)) = DotsOf(AddsOf(ops, m)) \cup (IF m \in op.members THEN {op.dot} ELSE {})
            BY DEF DotsOf, AddsOf, AddsIn
        <3>2. AreDots({op.dot}) /\ AreDots(DotsOf(AddsOf(ops, m)))
            BY <1>1, AddsAreDots DEF AreDots
        <3>3. CASE m \in op.members
            BY <2>1, <3>1, <3>2, <3>3, ClockOfOneMore
        <3>4. CASE m \notin op.members
            BY <2>1, <3>1, <3>4
        <3> QED BY <3>3, <3>4
    <2>3. C \subseteq Clocks
        BY <1>1, RemovalsAreClocks
    <2>4. Covers(s.clock, x)
        BY <1>1, <2>1, EntryCovered DEF OrswotReflects
    <2>5. {r.clock : r \in {d \in s.deferred : d.member = m}} = late
        BY <1>1, DeferredOf
    <2>6. ASSUME NEW a \in Actors PROVE t.entries[m][a] = Without(y, C)[a]
        <3>1. t.entries[m][a] = IF \E c \in late : c[a] >= entries[m][a] THEN 0 ELSE entries[m][a]
            <4>1. (\E r \in s.deferred : r.member = m /\ r.clock[a] >= entries[m][a])
                     <=> \E c \in late : c[a] >= entries[m][a]
                BY <2>5
            <4> QED BY <1>6, <4>1
        <3>2. /\ x[a] \in Nat /\ s.clock[a] \in Nat /\ x[a] <= s.clock[a]
              /\ \A c \in C : c[a] \in Nat
              /\ Without(x, C)[a] = IF \E c \in C : c[a] >= x[a] THEN 0 ELSE x[a]
            BY <1>2, <2>3, <2>4 DEF Clocks, Covers, Without
        <3>3. CASE m \in op.members /\ a = b
            <4>1. y[a] = op.dot.counter /\ entries[m][a] = op.dot.counter
                <5>1. s.entries[m][a] \in Nat /\ s.entries[m][a] < op.dot.counter
                    BY <1>1, <2>1, <3>2, <3>3
                <5>2. s.entries[m] \in Clocks
                    BY <1>2 DEF E
                <5> QED BY <1>1, <3>2, <3>3, <5>1, <5>2 DEF ClockApply, Clocks
            <4>2. \A c \in C : c[a] >= op.dot.counter => c \in late
                <5>1. ASSUME NEW c \in C, c[a] >= op.dot.counter PROVE ~(s.clock[a] >= c[a])
                    BY <1>1, <3>2, <3>3, <5>1
                <5> QED BY <5>1 DEF Covers
            <4> QED BY <3>1, <4>1, <4>2 DEF Without
        <3>4. CASE ~(m \in op.members /\ a = b)
            <4>1. y[a] = x[a] /\ entries[m][a] = Without(x, C)[a]
                <5>1. s.entries[m] \in Clocks
                    BY <1>2 DEF E
                <5> QED BY <1>1, <2>1, <3>4, <5>1 DEF ClockApply, Clocks
            <4>2. Without(y, C)[a] = Without(x, C)[a]
                BY <4>1 DEF Without
            <4> HIDE DEF y, entries, C
            <4>3. CASE \E c \in C : c[a] >= x[a]
                BY <3>1, <3>2, <4>1, <4>2, <4>3
            <4>4. CASE ~ \E c \in C : c[a] >= x[a]
                BY <3>1, <3>2, <4>1, <4>2, <4>4
            <4> QED BY <4>3, <4>4
        <3> QED BY <3>3, <3>4
    <2>7. t.entries[m] = Without(y, C)
        BY <1>6, <2>6 DEF Without
    <2> HIDE DEF y, C
    <2> QED BY <1>9, <2>2, <2>7 DEF EntryReflects, IsClockOf, C
<1>12. t.entries = [m \in Members |-> t.entries[m]]
    BY <1>6
<1> HIDE DEF both
<1> QED BY <1>1, <1>3, <1>6, <1>7, <1>10, <1>11, <1>12, OrswotReflectsFields DEF both

(* apply, of what is new as of what was seen before *)
LEMMA OrswotApplies ==
    ASSUME NEW s, NEW ops, NEW all, NEW op \in all, AreOrswotOps(all), CameFirst(ops, all),
           OrswotReflects(s, ops)
    PROVE  OrswotReflects(OrswotApply(s, op), ops \cup {op})
<1>1. ops \subseteq all /\ AreOrswotOps(ops \cup {op})
    BY DEF CameFirst, AreOrswotOps
<1>2. CASE op.type = "rm"
    BY <1>1, <1>2, OrswotRemoves
<1>3. CASE op.type = "add"
    <2>1. op.dot.actor \in Actors /\ op.dot.counter \in Nat \ {0} /\ op \in AddsIn(all)
        BY <1>3 DEF AreOrswotOps, AddsIn
    <2>2. s.clock[op.dot.actor] \in Nat
        BY <2>1 DEF OrswotReflects, States, Clocks
    <2>3. CASE s.clock[op.dot.actor] < op.dot.counter
        BY <1>1, <1>3, <2>3, OrswotAdds
    <2>4. CASE s.clock[op.dot.actor] >= op.dot.counter
        <3>1. PICK d \in DotsOf(AddsIn(ops)) : d.actor = op.dot.actor /\ d.counter = s.clock[op.dot.actor]
            BY <2>1, <2>2, <2>4 DEF OrswotReflects, IsClockOf
        <3>2. PICK x \in AddsIn(ops) : x.dot = d
            BY <3>1 DEF DotsOf
        <3>3. op \in ops
            BY <2>1, <2>2, <2>4, <3>1, <3>2 DEF CameFirst
        <3>4. OrswotApply(s, op) = s
            BY <1>3, <2>4 DEF OrswotApply, OrswotAdd
        <3>5. ops \cup {op} = ops
            BY <3>3
        <3> QED BY <3>4, <3>5
    <2> QED BY <2>1, <2>2, <2>3, <2>4
<1> QED BY <1>2, <1>3 DEF AreOrswotOps

(* Of two replicas' additions of a member, the one that knows more of an actor
   has what the other has, and beyond that only what the other has not seen. *)
LEMMA NewestAddition ==
    ASSUME NEW all, AreOrswotOps(all), NEW S, NEW T, CameFirst(S, all), CameFirst(T, all), NEW m,
           NEW c, NEW d, IsClockOf(c, DotsOf(AddsIn(S))), IsClockOf(d, DotsOf(AddsIn(T))),
           NEW x, NEW y, IsClockOf(x, DotsOf(AddsOf(S, m))), IsClockOf(y, DotsOf(AddsOf(T, m))),
           NEW a \in Actors, c[a] <= d[a]
    PROVE  x[a] <= y[a] /\ (y[a] = x[a] \/ y[a] > c[a])
<1>1. AreOrswotOps(S) /\ AreOrswotOps(T)
    BY DEF AreOrswotOps, CameFirst
<1>2. c[a] \in Nat /\ d[a] \in Nat /\ x[a] \in Nat /\ y[a] \in Nat
    BY DEF IsClockOf, Clocks
<1>3. x[a] <= c[a] /\ y[a] <= d[a]
    <2>1. Covers(c, x) /\ Covers(d, y)
        BY <1>1, EntryCovered
    <2> QED BY <1>2, <2>1 DEF Covers
<1>4. ASSUME NEW P, NEW Q, CameFirst(P, all), CameFirst(Q, all), NEW e, NEW p, NEW q,
             IsClockOf(e, DotsOf(AddsIn(Q))),
             IsClockOf(p, DotsOf(AddsOf(P, m))), IsClockOf(q, DotsOf(AddsOf(Q, m))),
             p[a] <= e[a]
      PROVE  p[a] <= q[a]
    <2>1. p[a] \in Nat /\ q[a] \in Nat /\ e[a] \in Nat
        BY <1>4 DEF IsClockOf, Clocks
    <2>2. SUFFICES ASSUME p[a] # 0 PROVE p[a] <= q[a]
        BY <2>1
    <2>3. PICK f \in DotsOf(AddsOf(P, m)) : f.actor = a /\ f.counter = p[a]
        BY <1>4, <2>2 DEF IsClockOf
    <2>4. PICK u \in AddsOf(P, m) : u.dot = f
        BY DEF DotsOf
    <2>5. e[a] # 0
        BY <1>4, <2>1, <2>2
    <2>6. PICK g \in DotsOf(AddsIn(Q)) : g.actor = a /\ g.counter = e[a]
        BY <1>4, <2>5 DEF IsClockOf
    <2>7. PICK v \in AddsIn(Q) : v.dot = g
        BY DEF DotsOf
    <2>8. u \in AddsIn(all) /\ m \in u.members
        BY <1>4 DEF AddsOf, AddsIn, CameFirst
    <2>9. u \in Q
        BY <1>4, <2>3, <2>4, <2>6, <2>7, <2>8 DEF CameFirst
    <2>10. f \in DotsOf(AddsOf(Q, m))
        BY <2>4, <2>8, <2>9 DEF DotsOf, AddsOf, AddsIn
    <2> QED BY <1>4, <2>3, <2>10 DEF IsClockOf
<1>5. x[a] <= y[a]
    BY <1>2, <1>3, <1>4
<1>6. y[a] <= c[a] => y[a] <= x[a]
    BY <1>4
<1> QED BY <1>2, <1>5, <1>6

(* What merge does to the counter that a member has of one actor: x and y are
   the newest additions each side has seen, of as many as v <= w additions by
   this actor; C and D are the removals. *)
LEMMA MergedCounter ==
    ASSUME NEW v \in Nat, NEW w \in Nat, v <= w,
           NEW x \in Nat, NEW y \in Nat, x <= v, y <= w, x <= y, y = x \/ y > v,
           NEW C \in SUBSET Nat, NEW D \in SUBSET Nat,
           NEW lateC \in SUBSET C, \A n \in C : n > v => n \in lateC,
           NEW lateD \in SUBSET D, \A n \in D : n > w => n \in lateD,
           NEW p \in Nat, p = IF \E n \in C : n >= x THEN 0 ELSE x,
           NEW q \in Nat, q = IF \E n \in D : n >= y THEN 0 ELSE y,
           NEW z \in Nat, z = IF y > v THEN q ELSE IF p = q THEN p ELSE 0
    PROVE  (IF \E n \in lateC \cup lateD : n >= z THEN 0 ELSE z)
             = IF \E n \in C \cup D : n >= y THEN 0 ELSE y
<1>1. CASE y > v
    <2>1. z = q
        BY <1>1
    <2>2. CASE \E n \in D : n >= y
        BY <2>1, <2>2
    <2>3. CASE ~ \E n \in D : n >= y
        <3>1. z = y
            BY <2>1, <2>3
        <3>2. \A n \in C : n >= y => n \in lateC
            BY <1>1
        <3> QED BY <2>3, <3>1, <3>2
    <2> QED BY <2>2, <2>3
<1>2. CASE y <= v
    <2>1. y = x
        BY <1>2
    <2>2. CASE (\E n \in D : n >= y) \/ \E n \in C : n >= y
        <3>1. p = 0 \/ q = 0
            BY <2>1, <2>2
        <3>2. z = 0
            BY <1>2, <3>1
        <3> QED BY <2>2, <3>2
    <2>3. CASE ~((\E n \in D : n >= y) \/ \E n \in C : n >= y)
        <3>1. p = y /\ q = y /\ z = y
            BY <1>2, <2>1, <2>3
        <3> QED BY <2>3, <3>1
    <2> QED BY <2>2, <2>3
<1> QED BY <1>1, <1>2

LEMMA MergedEntryAt ==
    ASSUME NEW s \in States, NEW o \in States, NEW m \in Members, NEW a \in Actors
    PROVE  LET p == s.entries[m][a]  q == o.entries[m][a]
               z == MergedEntry(s, o, m)[a]
           IN /\ z \in Nat
              /\ z = IF ~(s.clock[a] >= q) THEN (IF ~(o.clock[a] >= p) /\ q < p THEN p ELSE q)
                     ELSE IF ~(o.clock[a] >= p) THEN p
                     ELSE IF p = q THEN p ELSE 0
<1> DEFINE p == s.entries[m][a]  q == o.entries[m][a]
<1>1. p \in Nat /\ q \in Nat /\ s.clock[a] \in Nat /\ o.clock[a] \in Nat
    BY DEF States, Clocks
<1> DEFINE i == IF p = q THEN p ELSE 0
           j == IF s.clock[a] >= q THEN 0 ELSE q
           k == IF o.clock[a] >= p THEN 0 ELSE p
           l == IF j < k THEN k ELSE j
<1>2. MergedEntry(s, o, m)[a] = IF i < l THEN l ELSE i
    BY DEF MergedEntry, ClockMerge, ClockReset, Intersection
<1> HIDE DEF p, q
<1>3. i \in Nat /\ j \in Nat /\ k \in Nat /\ l \in Nat
    BY <1>1
<1> QED BY <1>1, <1>2, <1>3 DEF p, q

(* merge, field by field *)
LEMMA MergeApplied ==
    ASSUME NEW s \in States, NEW o \in States
    PROVE  LET t == OrswotMerge(s, o)
               deferred == s.deferred \cup {r \in o.deferred : ~Covers(s.clock, r.clock)}
           IN /\ t.clock = ClockMerge(s.clock, o.clock)
              /\ t.deferred = {r \in deferred : ~Covers(t.clock, r.clock)}
              /\ t \in [clock : {t.clock}, entries : {t.entries}, deferred : {t.deferred}]
              /\ \A m \in Members : t.entries[m] = [a \in Actors |-> t.entries[m][a]]
              /\ t.entries = [m \in Members |-> t.entries[m]]
              /\ \A m \in Members, a \in Actors :
                     t.entries[m][a] =
                        IF \E r \in s.deferred \cup o.deferred :
                              r.member = m /\ r.clock[a] >= MergedEntry(s, o, m)[a]
                        THEN 0 ELSE MergedEntry(s, o, m)[a]
<1> DEFINE E == [Members -> Clocks]
           D == SUBSET [clock : Clocks, member : Members]
           entries == [m \in Members |-> MergedEntry(s, o, m)]
           joined == [s EXCEPT !.entries = entries]
           merged == ApplyRemovals(joined, o.deferred)
           clock == ClockMerge(s.clock, o.clock)
           moved == [merged EXCEPT !.clock = clock]
           t == OrswotMerge(s, o)
           deferred == s.deferred \cup {r \in o.deferred : ~Covers(s.clock, r.clock)}
           left == [m \in Members |-> [a \in Actors |->
                      IF \E r \in o.deferred : r.member = m /\ r.clock[a] >= entries[m][a]
                      THEN 0 ELSE entries[m][a]]]
<1>1. /\ s \in [clock : Clocks, entries : E, deferred : D] /\ s.clock \in Clocks
      /\ o.clock \in Clocks /\ s.deferred \in D /\ o.deferred \in D /\ deferred \in D
    BY DEF States
<1>2. entries \in E
    <2>1. ASSUME NEW m \in Members PROVE MergedEntry(s, o, m) \in Clocks
        BY <1>1, ClockOperations DEF MergedEntry, States
    <2> QED BY <2>1
<1>3. clock \in Clocks
    BY <1>1, ClockOperations
<1>4. t = ApplyDeferred(moved)
    <2>1. merged.clock = s.clock
        <3> HIDE DEF E, D, entries
        <3>1. joined = [clock |-> s.clock, entries |-> entries, deferred |-> s.deferred]
            BY <1>1
        <3>2. joined \in States /\ joined.clock = s.clock
            BY <1>1, <1>2, <3>1 DEF States, E, D
        <3> HIDE DEF joined
        <3> QED BY <3>2, RemovalsApplied
    <2>2. t = ApplyDeferred([merged EXCEPT !.clock = ClockMerge(merged.clock, o.clock)])
        BY DEF OrswotMerge
    <2> HIDE DEF merged
    <2> QED BY <2>1, <2>2
<1> HIDE DEF E, D, entries, clock
<1>5. joined = [clock |-> s.clock, entries |-> entries, deferred |-> s.deferred]
    BY <1>1
<1>6. joined \in States /\ joined.clock = s.clock /\ joined.entries = entries /\ joined.deferred = s.deferred
    BY <1>1, <1>2, <1>5 DEF States, E, D
<1> HIDE DEF joined
<1>7. merged.clock = s.clock /\ merged.entries = left /\ merged.deferred = deferred
    BY <1>6, RemovalsApplied
<1>8. merged = [clock |-> merged.clock, entries |-> merged.entries, deferred |-> merged.deferred]
    BY <1>6, RemovalsApplied
<1>9. left \in E
    <2>1. ASSUME NEW m \in Members
          PROVE [a \in Actors |-> IF \E r \in o.deferred : r.member = m /\ r.clock[a] >= entries[m][a]
                                  THEN 0 ELSE entries[m][a]] \in Clocks
        BY <1>2 DEF E, Clocks
    <2> QED BY <2>1 DEF E
<1> HIDE DEF merged, left, deferred
<1>10. merged \in [clock : Clocks, entries : E, deferred : D]
    BY <1>1, <1>7, <1>8, <1>9
<1>11. moved = [clock |-> clock, entries |-> merged.entries, deferred |-> merged.deferred]
    BY <1>10
<1>12. moved \in States /\ moved.clock = clock /\ moved.entries = left /\ moved.deferred = deferred
    BY <1>1, <1>3, <1>7, <1>9, <1>11 DEF States, E, D
<1> HIDE DEF moved
<1> DEFINE kept(u) == [m \in Members |-> [a \in Actors |->
                         IF \E r \in u.deferred : r.member = m /\ r.clock[a] >= u.entries[m][a]
                         THEN 0 ELSE u.entries[m][a]]]
           late(u) == {r \in u.deferred : ~Covers(u.clock, r.clock)}
<1>13. t = [clock |-> clock, entries |-> kept(moved), deferred |-> late(moved)]
    BY <1>4, <1>12, DeferredApplied
<1>14. late(moved) = {r \in deferred : ~Covers(clock, r.clock)}
    BY <1>12
<1>15. ASSUME NEW m \in Members, NEW a \in Actors
       PROVE  kept(moved)[m][a] = IF \E r \in deferred : r.member = m /\ r.clock[a] >= left[m][a]
                                  THEN 0 ELSE left[m][a]
    BY <1>12
<1>16. ASSUME NEW m \in Members, NEW a \in Actors
       PROVE  kept(moved)[m][a] =
                 IF \E r \in s.deferred \cup o.deferred :
                       r.member = m /\ r.clock[a] >= MergedEntry(s, o, m)[a]
                 THEN 0 ELSE MergedEntry(s, o, m)[a]
    <2> DEFINE z == MergedEntry(s, o, m)[a]
    <2>1. /\ entries[m][a] = z
          /\ left[m][a] = IF \E r \in o.deferred : r.member = m /\ r.clock[a] >= z THEN 0 ELSE z
        BY DEF left, entries
    <2>2. \A r \in deferred : r \in s.deferred \cup o.deferred
        BY DEF deferred
    <2>3. \A r \in s.deferred : r \in deferred
        BY DEF deferred
    <2> HIDE DEF z, kept
    <2>4. CASE \E r \in o.deferred : r.member = m /\ r.clock[a] >= z
        BY <1>15, <2>1, <2>4 DEF z
    <2>5. CASE ~ \E r \in o.deferred : r.member = m /\ r.clock[a] >= z
        BY <1>15, <2>1, <2>2, <2>3, <2>5 DEF z
    <2> QED BY <2>4, <2>5
<1>17. /\ kept(moved) = [m \in Members |-> kept(moved)[m]]
       /\ \A m \in Members : kept(moved)[m] = [a \in Actors |-> kept(moved)[m][a]]
    OBVIOUS
<1> HIDE DEF kept, late, t
<1>18. t.clock = clock /\ t.entries = kept(moved) /\ t.deferred = late(moved)
    BY <1>13
<1>19. t \in [clock : {t.clock}, entries : {t.entries}, deferred : {t.deferred}]
    BY <1>13
<1> QED BY <1>14, <1>16, <1>17, <1>18, <1>19 DEF t, clock, deferred

(* merge: the merged state is that of a replica that applied what either has
   applied. *)
LEMMA OrswotMerges ==
    ASSUME NEW s, NEW o, NEW S, NEW T, NEW all, AreOrswotOps(all), CameFirst(S, all), CameFirst(T, all),
           OrswotReflects(s, S), OrswotReflects(o, T)
    PROVE  OrswotReflects(OrswotMerge(s, o), S \cup T)
<1> DEFINE t == OrswotMerge(s, o)
           both == S \cup T
           deferred == s.deferred \cup {r \in o.deferred : ~Covers(s.clock, r.clock)}
<1>1. /\ s \in States /\ o \in States /\ s.clock \in Clocks /\ o.clock \in Clocks
      /\ AreOrswotOps(S) /\ AreOrswotOps(T) /\ AreOrswotOps(both)
    BY DEF OrswotReflects, States, AreOrswotOps, CameFirst
<1>2. /\ t.clock = ClockMerge(s.clock, o.clock)
      /\ t.deferred = {r \in deferred : ~Covers(t.clock, r.clock)}
      /\ t \in [clock : {t.clock}, entries : {t.entries}, deferred : {t.deferred}]
      /\ \A m \in Members : t.entries[m] = [a \in Actors |-> t.entries[m][a]]
      /\ t.entries = [m \in Members |-> t.entries[m]]
      /\ \A m \in Members, a \in Actors :
             t.entries[m][a] =
                IF \E r \in s.deferred \cup o.deferred :
                      r.member = m /\ r.clock[a] >= MergedEntry(s, o, m)[a]
                THEN 0 ELSE MergedEntry(s, o, m)[a]
    BY <1>1, MergeApplied
<1> HIDE DEF t
<1>3. IsClockOf(t.clock, DotsOf(AddsIn(both)))
    <2>1. DotsOf(AddsIn(both)) = DotsOf(AddsIn(S)) \cup DotsOf(AddsIn(T))
        BY DEF DotsOf, AddsIn
    <2>2. /\ IsClockOf(s.clock, DotsOf(AddsIn(S))) /\ AreDots(DotsOf(AddsIn(S)))
          /\ IsClockOf(o.clock, DotsOf(AddsIn(T))) /\ AreDots(DotsOf(AddsIn(T)))
        BY <1>1, AddsAreDots DEF OrswotReflects
    <2>3. IsClockOf(ClockMerge(s.clock, o.clock), DotsOf(AddsIn(S)) \cup DotsOf(AddsIn(T)))
        BY <2>2, ClockOfBoth
    <2>4. t.clock = ClockMerge(s.clock, o.clock)
        BY <1>2
    <2> QED BY <2>1, <2>3, <2>4
<1>4. Covers(t.clock, s.clock) /\ Covers(t.clock, o.clock) /\ t.clock \in Clocks
    <2>1. t.clock = ClockMerge(s.clock, o.clock)
        BY <1>2
    <2>2. s.clock \in Clocks /\ o.clock \in Clocks
        BY <1>1
    <2>3. /\ Covers(ClockMerge(s.clock, o.clock), s.clock)
          /\ Covers(ClockMerge(s.clock, o.clock), o.clock)
          /\ ClockMerge(s.clock, o.clock) \in Clocks
        BY <2>2, MergeIsLeastUpperBound, ClockOperations
    <2> QED BY <2>1, <2>3
<1>5. ASSUME NEW m PROVE RemovalClocks(both, m) = RemovalClocks(S, m) \cup RemovalClocks(T, m)
    BY DEF RemovalClocks
<1>6. t.deferred = {r \in Removed(both) : ~Covers(t.clock, r.clock)}
    <2>1. Removed(both) = Removed(S) \cup Removed(T)
        BY <1>5 DEF Removed
    <2>2. ASSUME NEW r \in Removed(both), Covers(s.clock, r.clock) \/ Covers(o.clock, r.clock)
          PROVE  Covers(t.clock, r.clock)
        <3>1. r.clock \in Clocks
            BY DEF Removed
        <3> QED BY <1>1, <1>4, <2>2, <3>1, CoversIsOrder
    <2>3. s.deferred = {r \in Removed(S) : ~Covers(s.clock, r.clock)}
        BY DEF OrswotReflects
    <2>4. o.deferred = {r \in Removed(T) : ~Covers(o.clock, r.clock)}
        BY DEF OrswotReflects
    <2> HIDE DEF both
    <2>5. ASSUME NEW r \in t.deferred PROVE r \in Removed(both) /\ ~Covers(t.clock, r.clock)
        BY <1>2, <2>1, <2>3, <2>4
    <2>6. ASSUME NEW r \in Removed(both), ~Covers(t.clock, r.clock) PROVE r \in t.deferred
        <3>1. ~Covers(s.clock, r.clock) /\ ~Covers(o.clock, r.clock)
            BY <2>2, <2>6
        <3>2. r \in s.deferred \/ r \in o.deferred
            BY <2>1, <2>3, <2>4, <3>1
        <3> QED BY <1>2, <2>6, <3>1, <3>2
    <2> QED BY <2>5, <2>6
<1>7. ASSUME NEW m \in Members PROVE EntryReflects(t.entries[m], both, m)
    <2> DEFINE C == RemovalClocks(S, m)
               D == RemovalClocks(T, m)
               lateC == {c \in C : ~Covers(s.clock, c)}
               lateD == {c \in D : ~Covers(o.clock, c)}
    <2>1. PICK x \in Clocks : IsClockOf(x, DotsOf(AddsOf(S, m))) /\ s.entries[m] = Without(x, C)
        BY DEF OrswotReflects, EntryReflects
    <2>2. PICK y \in Clocks : IsClockOf(y, DotsOf(AddsOf(T, m))) /\ o.entries[m] = Without(y, D)
        BY DEF OrswotReflects, EntryReflects
    <2>3. IsClockOf(ClockMerge(x, y), DotsOf(AddsOf(both, m)))
        <3>1. DotsOf(AddsOf(both, m)) = DotsOf(AddsOf(S, m)) \cup DotsOf(AddsOf(T, m))
            BY DEF DotsOf, AddsOf, AddsIn
        <3>2. AreDots(DotsOf(AddsOf(S, m))) /\ AreDots(DotsOf(AddsOf(T, m)))
            BY <1>1, AddsAreDots
        <3>3. IsClockOf(ClockMerge(x, y), DotsOf(AddsOf(S, m)) \cup DotsOf(AddsOf(T, m)))
            BY <2>1, <2>2, <3>2, ClockOfBoth
        <3> QED BY <3>1, <3>3
    <2>4. C \subseteq Clocks /\ D \subseteq Clocks
        BY <1>1, RemovalsAreClocks
    <2>5. /\ {r.clock : r \in {d \in s.deferred : d.member = m}} = lateC
          /\ {r.clock : r \in {d \in o.deferred : d.member = m}} = lateD
        BY <1>1, DeferredOf
    <2>6. Covers(s.clock, x) /\ Covers(o.clock, y)
        BY <1>1, <2>1, <2>2, EntryCovered DEF OrswotReflects
    <2>7. ASSUME NEW a \in Actors PROVE t.entries[m][a] = Without(ClockMerge(x, y), C \cup D)[a]
        <3> DEFINE at(K) == {c[a] : c \in K}
                   v == s.clock[a]
                   w == o.clock[a]
                   p == s.entries[m][a]
                   q == o.entries[m][a]
                   z == MergedEntry(s, o, m)[a]
                   newest == IF x[a] < y[a] THEN y[a] ELSE x[a]
        <3>1. /\ v \in Nat /\ w \in Nat /\ x[a] \in Nat /\ y[a] \in Nat /\ p \in Nat /\ q \in Nat
              /\ x[a] <= v /\ y[a] <= w
            BY <1>1, <2>6 DEF States, Clocks, Covers
        <3>2. at(C) \in SUBSET Nat /\ at(D) \in SUBSET Nat
            BY <2>4 DEF Clocks
        <3>3. /\ at(lateC) \in SUBSET at(C) /\ \A n \in at(C) : n > v => n \in at(lateC)
              /\ at(lateD) \in SUBSET at(D) /\ \A n \in at(D) : n > w => n \in at(lateD)
            <4>1. ASSUME NEW c \in C, c[a] > v PROVE c \in lateC
                <5>1. ~(v >= c[a])
                    BY <2>4, <3>1, <4>1 DEF Clocks
                <5> QED BY <5>1 DEF Covers
            <4>2. ASSUME NEW c \in D, c[a] > w PROVE c \in lateD
                <5>1. ~(w >= c[a])
                    BY <2>4, <3>1, <4>2 DEF Clocks
                <5> QED BY <5>1 DEF Covers
            <4> HIDE DEF C, D, lateC, lateD, v, w
            <4>3. lateC \subseteq C /\ lateD \subseteq D
                BY DEF lateC, lateD
            <4> QED BY <4>1, <4>2, <4>3
        <3>4. /\ p = IF \E n \in at(C) : n >= x[a] THEN 0 ELSE x[a]
              /\ q = IF \E n \in at(D) : n >= y[a] THEN 0 ELSE y[a]
            BY <2>1, <2>2 DEF Without
        <3>5. /\ z \in Nat
              /\ z = IF ~(v >= q) THEN (IF ~(w >= p) /\ q < p THEN p ELSE q)
                     ELSE IF ~(w >= p) THEN p
                     ELSE IF p = q THEN p ELSE 0
            BY <1>1, MergedEntryAt
        <3>6. t.entries[m][a] = IF \E n \in at(lateC) \cup at(lateD) : n >= z THEN 0 ELSE z
            <4>1. (\E r \in s.deferred \cup o.deferred : r.member = m /\ r.clock[a] >= z)
                     <=> \E n \in at(lateC) \cup at(lateD) : n >= z
                <5> HIDE DEF z
                <5>1. ASSUME NEW r \in s.deferred \cup o.deferred, r.member = m
                      PROVE  r.clock \in lateC \cup lateD
                    BY <2>5, <5>1
                <5>2. ASSUME NEW c \in lateC \cup lateD
                      PROVE  \E r \in s.deferred \cup o.deferred : r.member = m /\ r.clock = c
                    BY <2>5
                <5> HIDE DEF lateC, lateD
                <5> QED BY <5>1, <5>2
            <4> QED BY <1>2, <4>1
        <3>7. Without(ClockMerge(x, y), C \cup D)[a]
                = IF \E n \in at(C) \cup at(D) : n >= newest THEN 0 ELSE newest
            BY DEF Without, ClockMerge
        <3>8. /\ v <= w => x[a] <= y[a] /\ (y[a] = x[a] \/ y[a] > v)
              /\ w <= v => y[a] <= x[a] /\ (x[a] = y[a] \/ x[a] > w)
            BY <2>1, <2>2, NewestAddition DEF OrswotReflects
        <3> HIDE DEF at, v, w, p, q, z, C, D, lateC, lateD
        <3>9. CASE v <= w
            <4>1. newest = y[a]
                BY <3>1, <3>8, <3>9
            <4>2. z = IF y[a] > v THEN q ELSE IF p = q THEN p ELSE 0
                BY <3>1, <3>4, <3>5, <3>8, <3>9
            <4>3. (IF \E n \in at(lateC) \cup at(lateD) : n >= z THEN 0 ELSE z)
                     = IF \E n \in at(C) \cup at(D) : n >= y[a] THEN 0 ELSE y[a]
                BY <3>1, <3>2, <3>3, <3>4, <3>5, <3>8, <3>9, <4>2, MergedCounter
            <4> QED BY <3>6, <3>7, <4>1, <4>3
        <3>10. CASE w <= v
            <4>1. newest = x[a]
                BY <3>1, <3>8, <3>10
            <4>2. z = IF x[a] > w THEN p ELSE IF q = p THEN q ELSE 0
                BY <3>1, <3>4, <3>5, <3>8, <3>10
            <4>3. (IF \E n \in at(lateD) \cup at(lateC) : n >= z THEN 0 ELSE z)
                     = IF \E n \in at(D) \cup at(C) : n >= x[a] THEN 0 ELSE x[a]
                BY <3>1, <3>2, <3>3, <3>4, <3>5, <3>8, <3>10, <4>2, MergedCounter
            <4>4. at(lateD) \cup at(lateC) = at(lateC) \cup at(lateD) /\ at(D) \cup at(C) = at(C) \cup at(D)
                OBVIOUS
            <4> QED BY <3>6, <3>7, <4>1, <4>3, <4>4
        <3> QED BY <3>1, <3>9, <3>10
    <2>8. t.entries[m] = Without(ClockMerge(x, y), C \cup D)
        BY <1>2, <2>7 DEF Without
    <2> HIDE DEF C, D
    <2> QED BY <1>5, <2>3, <2>8 DEF EntryReflects, IsClockOf, C, D
<1>8. AreOrswotOps(both)
    BY <1>1
<1>9. /\ t \in [clock : {t.clock}, entries : {t.entries}, deferred : {t.deferred}]
      /\ t.entries = [m \in Members |-> t.entries[m]]
    BY <1>2
<1> HIDE DEF both, deferred
<1>10. OrswotReflects(t, both)
    BY <1>3, <1>6, <1>7, <1>8, <1>9, OrswotReflectsFields
<1> QED BY <1>10 DEF t, both

(* A member is read if one of its additions was seen by no removal. *)
LEMMA OrswotMeans ==
    ASSUME NEW s, NEW ops, AreOrswotOps(ops), OrswotReflects(s, ops)
    PROVE  OrswotSound(s) /\ OrswotRead(s) = OrswotMeaning(ops)
<1>1. OrswotSound(s)
    <2>1. ASSUME NEW m \in Members PROVE Covers(s.clock, s.entries[m])
        <3>1. PICK x \in Clocks : /\ IsClockOf(x, DotsOf(AddsOf(ops, m)))
                                  /\ s.entries[m] = Without(x, RemovalClocks(ops, m))
            BY DEF OrswotReflects, EntryReflects
        <3>2. Covers(s.clock, x) /\ s.clock \in Clocks
            BY <3>1, EntryCovered DEF OrswotReflects, States
        <3>3. ASSUME NEW a \in Actors PROVE s.clock[a] >= s.entries[m][a]
            BY <3>1, <3>2 DEF Without, Covers, Clocks
        <3> QED BY <3>3 DEF Covers
    <2>2. \A r \in s.deferred : ~Covers(s.clock, r.clock)
        BY DEF OrswotReflects
    <2> QED BY <2>1, <2>2 DEF OrswotSound
<1>2. ASSUME NEW m \in Members PROVE m \in OrswotRead(s) <=> m \in OrswotMeaning(ops)
    <2> DEFINE C == RemovalClocks(ops, m)
               Alive(add) == /\ add.type = "add" /\ m \in add.members
                             /\ ~ \E rm \in ops : /\ rm.type = "rm" /\ m \in rm.members
                                                  /\ rm.clock[add.dot.actor] >= add.dot.counter
    <2>1. PICK x \in Clocks : IsClockOf(x, DotsOf(AddsOf(ops, m))) /\ s.entries[m] = Without(x, C)
        BY DEF OrswotReflects, EntryReflects
    <2>2. C \subseteq Clocks
        BY RemovalsAreClocks
    <2>3. \A add \in ops : Alive(add) <=> /\ add \in AddsOf(ops, m)
                                          /\ ~ \E c \in C : c[add.dot.actor] >= add.dot.counter
        BY DEF AddsOf, AddsIn, RemovalClocks
    <2>4. m \in OrswotMeaning(ops) <=> \E add \in ops : Alive(add)
        BY DEF OrswotMeaning
    <2>5. m \in OrswotRead(s) <=> \E a \in Actors : Without(x, C)[a] # 0
        <3>1. OrswotRead(s) = {n \in Members : s.entries[n] # NoClock}
            BY DEF OrswotRead
        <3>2. Without(x, C) = NoClock <=> \A a \in Actors : Without(x, C)[a] = 0
            BY DEF Without, NoClock
        <3> QED BY <2>1, <3>1, <3>2
    <2> HIDE DEF Alive, C
    <2>6. ASSUME NEW a \in Actors, Without(x, C)[a] # 0 PROVE \E add \in ops : Alive(add)
        <3>1. x[a] # 0 /\ ~ \E c \in C : c[a] >= x[a]
            BY <2>6 DEF Without
        <3>2. PICK d \in DotsOf(AddsOf(ops, m)) : d.actor = a /\ d.counter = x[a]
            BY <2>1, <3>1 DEF IsClockOf
        <3>3. PICK add \in AddsOf(ops, m) : add.dot = d
            BY DEF DotsOf
        <3>4. add \in ops
            BY DEF AddsOf, AddsIn
        <3> QED BY <2>3, <3>1, <3>2, <3>3, <3>4
    <2>7. ASSUME NEW add \in ops, Alive(add) PROVE \E a \in Actors : Without(x, C)[a] # 0
        <3> DEFINE a == add.dot.actor
        <3>1. add \in AddsOf(ops, m) /\ ~ \E c \in C : c[a] >= add.dot.counter
            BY <2>3, <2>7
        <3>2. a \in Actors /\ add.dot.counter \in Nat \ {0} /\ add.dot \in DotsOf(AddsOf(ops, m))
            BY <3>1 DEF AddsOf, AddsIn, AreOrswotOps, DotsOf
        <3> HIDE DEF a
        <3>3. add.dot.counter <= x[a] /\ x[a] \in Nat
            BY <2>1, <3>2 DEF IsClockOf, Clocks, a
        <3>4. ~ \E c \in C : c[a] >= x[a]
            <4>1. \A c \in C : c[a] \in Nat
                BY <2>2, <3>2 DEF Clocks
            <4> QED BY <3>1, <3>2, <3>3, <4>1
        <3>5. Without(x, C)[a] = x[a]
            BY <3>2, <3>4 DEF Without
        <3> QED BY <3>2, <3>3, <3>5
    <2> QED BY <2>4, <2>5, <2>6, <2>7
<1>3. OrswotRead(s) \subseteq Members /\ OrswotMeaning(ops) \subseteq Members
    BY DEF OrswotRead, OrswotMeaning
<1> QED BY <1>1, <1>2, <1>3

-----------------------------------------------------------------------------
(* The data types together *)

(* Operations converge for these, and states for them and MVReg, whose
   operations do not (MVRegApply). *)
ConvergingKinds ==
    {"gset", "glist", "gcounter", "pncounter", "lwwreg", "orswot"} \cup ({"mvreg"} \ OpKinds)

(* The state that follows from a set of operations *)
Reflects(k, s, ops) ==
    /\ k \in {"gset", "glist"} => s = ops
    /\ k = "gcounter" => GCounterReflects(s, ops)
    /\ k = "pncounter" => PNCounterReflects(s, ops)
    /\ k = "lwwreg" => LWWRegReflects(s, ops)
    /\ k = "mvreg" => MVRegReflects(s, ops)
    /\ k = "orswot" => OrswotReflects(s, ops)

AreOps(k, ops) ==
    /\ k \in {"gcounter", "pncounter"} => AreDots(DotsOf(ops))
    /\ k = "lwwreg" => AreUpdates(ops) /\ \A op \in ops : op.marker.n # 0
    /\ k = "mvreg" => ArePuts(ops)
    /\ k = "orswot" => AreOrswotOps(ops)

(* What a replica may have seen of all the operations *)
MaySee(k, ops, all) ==
    /\ ops \subseteq all
    /\ k = "orswot" => CameFirst(ops, all)

(* A new replica has seen nothing. *)
LEMMA NewReflects ==
    ASSUME NEW k \in ConvergingKinds
    PROVE  Reflects(k, KindNew(k), {})
<1>1. CASE k \in {"gset", "glist"}
    BY <1>1 DEF Reflects, KindNew, Maps, GListNew
<1>2. DotsOf({}) = {} /\ Positive({}) = {} /\ Negative({}) = {}
    BY DEF DotsOf, Positive, Negative
<1>3. CASE k = "gcounter"
    BY <1>2, <1>3, ClockOfNone DEF Reflects, GCounterReflects, KindNew, Maps
<1>4. CASE k = "pncounter"
    <2>1. PNCounterReflects(PNCounterNew, {})
        BY <1>2, ClockOfNone DEF PNCounterReflects, GCounterReflects, PNCounterNew
    <2> QED BY <1>4, <2>1 DEF Reflects, KindNew, Maps
<1>5. CASE k = "lwwreg"
    BY <1>5, LWWRegStarts DEF Reflects, KindNew, Maps, LWWRegStart
<1>6. CASE k = "mvreg"
    <2>1. MVRegReflects({}, {})
        BY DEF MVRegReflects
    <2> QED BY <1>6, <2>1 DEF Reflects, KindNew, Maps
<1>7. CASE k = "orswot"
    BY <1>7, OrswotStarts DEF Reflects, KindNew, Maps
<1> QED BY <1>1, <1>3, <1>4, <1>5, <1>6, <1>7 DEF ConvergingKinds

(* Applying an operation, seen before or not *)
LEMMA ApplyReflects ==
    ASSUME NEW k \in ConvergingKinds \ {"mvreg"}, NEW all, AreOps(k, all), NEW ops, MaySee(k, ops, all),
           NEW s, Reflects(k, s, ops), NEW op \in all
    PROVE  Reflects(k, KindApply(k, s, op), ops \cup {op})
<1>1. CASE k \in {"gset", "glist"}
    <2>1. KindApply(k, s, op) = s \cup {op}
        BY <1>1 DEF KindApply, Maps, GListApply
    <2> QED BY <1>1, <2>1 DEF Reflects
<1>2. k \in {"gcounter", "pncounter"} => AreDots(DotsOf(ops)) /\ AreDots({op.dot})
    BY DEF AreOps, MaySee, AreDots, DotsOf
<1>3. CASE k = "gcounter"
    <2>1. KindApply(k, s, op) = GCounterApply(s, op)
        BY <1>3 DEF KindApply, Maps
    <2>2. GCounterReflects(GCounterApply(s, op), ops \cup {op})
        BY <1>2, <1>3, GCounterApplies DEF Reflects
    <2> QED BY <1>3, <2>1, <2>2 DEF Reflects
<1>4. CASE k = "pncounter"
    <2>1. KindApply(k, s, op) = PNCounterApply(s, op)
        BY <1>4 DEF KindApply, Maps
    <2>2. PNCounterReflects(PNCounterApply(s, op), ops \cup {op})
        BY <1>2, <1>4, PNCounterApplies DEF Reflects
    <2> QED BY <1>4, <2>1, <2>2 DEF Reflects
<1>5. CASE k = "lwwreg"
    <2>1. AreUpdates(ops \cup {op}) /\ op.marker.n # 0
        BY <1>5 DEF AreOps, MaySee, AreUpdates, LWWRegKnown
    <2>2. KindApply(k, s, op) = LWWRegUpdate(s, op)
        BY <1>5 DEF KindApply, Maps
    <2>3. LWWRegReflects(LWWRegUpdate(s, op), ops \cup {op})
        BY <1>5, <2>1, LWWRegApplies DEF Reflects
    <2> QED BY <1>5, <2>2, <2>3 DEF Reflects
<1>6. CASE k = "orswot"
    <2>1. KindApply(k, s, op) = OrswotApply(s, op)
        BY <1>6 DEF KindApply, Maps
    <2>2. AreOrswotOps(all) /\ CameFirst(ops, all) /\ OrswotReflects(s, ops)
        BY <1>6 DEF Reflects, AreOps, MaySee
    <2>3. OrswotReflects(OrswotApply(s, op), ops \cup {op})
        BY <2>2, OrswotApplies
    <2> QED BY <1>6, <2>1, <2>3 DEF Reflects
<1> QED BY <1>1, <1>3, <1>4, <1>5, <1>6 DEF ConvergingKinds

(* Merging two replicas *)
LEMMA MergeReflects ==
    ASSUME NEW k \in ConvergingKinds, NEW all, AreOps(k, all),
           NEW S, NEW T, MaySee(k, S, all), MaySee(k, T, all),
           NEW s, NEW t, Reflects(k, s, S), Reflects(k, t, T)
    PROVE  Reflects(k, KindMerge(k, s, t), S \cup T)
<1>1. CASE k \in {"gset", "glist"}
    <2>1. KindMerge(k, s, t) = s \cup t
        BY <1>1 DEF KindMerge, Maps, GListMerge
    <2> QED BY <1>1, <2>1 DEF Reflects
<1>2. k \in {"gcounter", "pncounter"} => AreDots(DotsOf(S)) /\ AreDots(DotsOf(T))
    BY DEF AreOps, MaySee, AreDots, DotsOf
<1>3. CASE k = "gcounter"
    <2>1. KindMerge(k, s, t) = ClockMerge(s, t)
        BY <1>3 DEF KindMerge, Maps
    <2>2. GCounterReflects(ClockMerge(s, t), S \cup T)
        BY <1>2, <1>3, GCounterMerges DEF Reflects
    <2> QED BY <1>3, <2>1, <2>2 DEF Reflects
<1>4. CASE k = "pncounter"
    <2>1. KindMerge(k, s, t) = PNCounterMerge(s, t)
        BY <1>4 DEF KindMerge, Maps
    <2>2. PNCounterReflects(PNCounterMerge(s, t), S \cup T)
        BY <1>2, <1>4, PNCounterMerges DEF Reflects
    <2> QED BY <1>4, <2>1, <2>2 DEF Reflects
<1>5. CASE k = "lwwreg"
    <2>1. AreUpdates(S \cup T)
        BY <1>5 DEF AreOps, MaySee, AreUpdates, LWWRegKnown
    <2>2. KindMerge(k, s, t) = LWWRegUpdate(s, t)
        BY <1>5 DEF KindMerge, Maps
    <2>3. LWWRegReflects(LWWRegUpdate(s, t), S \cup T)
        BY <1>5, <2>1, LWWRegMerges DEF Reflects
    <2> QED BY <1>5, <2>2, <2>3 DEF Reflects
<1>6. CASE k = "mvreg"
    <2>1. ArePuts(S \cup T)
        BY <1>6 DEF AreOps, MaySee, ArePuts
    <2>2. KindMerge(k, s, t) = MVRegMerge(s, t)
        BY <1>6 DEF KindMerge, Maps
    <2>3. MVRegReflects(MVRegMerge(s, t), S \cup T)
        BY <1>6, <2>1, MVRegMerges DEF Reflects
    <2> QED BY <1>6, <2>2, <2>3 DEF Reflects
<1>7. CASE k = "orswot"
    <2>1. KindMerge(k, s, t) = OrswotMerge(s, t)
        BY <1>7 DEF KindMerge, Maps
    <2>2. /\ AreOrswotOps(all) /\ CameFirst(S, all) /\ CameFirst(T, all)
          /\ OrswotReflects(s, S) /\ OrswotReflects(t, T)
        BY <1>7 DEF Reflects, AreOps, MaySee
    <2>3. OrswotReflects(OrswotMerge(s, t), S \cup T)
        BY <2>2, OrswotMerges
    <2> QED BY <1>7, <2>1, <2>3 DEF Reflects
<1> QED BY <1>1, <1>3, <1>4, <1>5, <1>6, <1>7 DEF ConvergingKinds

(* The operations determine the state. *)
LEMMA ReflectsIsUnique ==
    ASSUME NEW k \in ConvergingKinds, NEW ops, AreOps(k, ops),
           NEW s, NEW t, Reflects(k, s, ops), Reflects(k, t, ops)
    PROVE  s = t
<1>1. CASE k \in {"gset", "glist"}
    BY <1>1 DEF Reflects
<1>2. CASE k = "gcounter"
    BY <1>2, ClockOfIsUnique DEF Reflects, GCounterReflects
<1>3. CASE k = "pncounter"
    BY <1>3, PNCounterIsUnique DEF Reflects
<1>4. CASE k = "lwwreg"
    BY <1>4, LWWRegIsUnique DEF Reflects, AreOps
<1>5. CASE k = "mvreg"
    BY <1>5, MVRegIsUnique DEF Reflects, AreOps
<1>6. CASE k = "orswot"
    BY <1>6, OrswotIsUnique DEF Reflects
<1> QED BY <1>1, <1>2, <1>3, <1>4, <1>5, <1>6 DEF ConvergingKinds

-----------------------------------------------------------------------------
(* Histories: what the replicas have seen of what was issued *)

OpsUpTo(lg, n) == UNION {{lg[a][i].op : i \in 1..n[a]} : a \in Actors}

OpsIssued == OpsUpTo(log, [a \in Actors |-> Len(log[a])])

IsHistory(lg, sn) ==
    /\ \E S : lg \in [Actors -> Seq(S)]
    /\ sn \in [Actors -> [Actors -> Nat]]
    /\ \A r, a \in Actors : sn[r][a] <= Len(lg[a])
    /\ \A a \in Actors : sn[a][a] = Len(lg[a])

Histories == IsHistory(log, seen) /\ state = [r \in Actors |-> state[r]]

LEMMA HistoryTypes ==
    ASSUME NEW lg, NEW sn, IsHistory(lg, sn)
    PROVE  /\ \A a \in Actors : DOMAIN lg[a] = 1..Len(lg[a]) /\ Len(lg[a]) \in Nat
           /\ \A r, a \in Actors : /\ sn[r][a] \in Nat /\ sn[r][a] <= Len(lg[a])
                                   /\ 1..sn[r][a] \subseteq 1..Len(lg[a])
           /\ \A a \in Actors : sn[a][a] = Len(lg[a])
<1>1. PICK S : lg \in [Actors -> Seq(S)]
    BY DEF IsHistory
<1>2. ASSUME NEW a \in Actors PROVE DOMAIN lg[a] = 1..Len(lg[a]) /\ Len(lg[a]) \in Nat
    <2>1. lg[a] \in Seq(S)
        BY <1>1
    <2> QED BY <2>1
<1>3. \A a \in Actors : DOMAIN lg[a] = 1..Len(lg[a]) /\ Len(lg[a]) \in Nat
    BY <1>2
<1>4. /\ \A r, a \in Actors : sn[r][a] \in Nat /\ sn[r][a] <= Len(lg[a])
      /\ \A a \in Actors : sn[a][a] = Len(lg[a])
    BY DEF IsHistory
<1>5. ASSUME NEW r \in Actors, NEW a \in Actors PROVE 1..sn[r][a] \subseteq 1..Len(lg[a])
    <2>1. sn[r][a] \in Nat /\ sn[r][a] <= Len(lg[a]) /\ Len(lg[a]) \in Nat
        BY <1>3, <1>4
    <2> QED BY <2>1
<1> QED BY <1>3, <1>4, <1>5

LEMMA UpToHas ==
    ASSUME NEW lg, NEW n, NEW op
    PROVE  op \in OpsUpTo(lg, n) <=> \E a \in Actors : \E i \in 1..n[a] : op = lg[a][i].op
BY DEF OpsUpTo

LEMMA UpToSame ==
    ASSUME NEW lg, NEW n, NEW m, \A b \in Actors : m[b] = n[b]
    PROVE  OpsUpTo(lg, m) = OpsUpTo(lg, n)
<1>1. \A x : x \in OpsUpTo(lg, m) <=> x \in OpsUpTo(lg, n)
    BY UpToHas
<1> QED BY <1>1

LEMMA UpToBoth ==
    ASSUME NEW lg, NEW n, NEW m, NEW k, \A b \in Actors : 1..k[b] = 1..n[b] \cup 1..m[b]
    PROVE  OpsUpTo(lg, k) = OpsUpTo(lg, n) \cup OpsUpTo(lg, m)
<1>1. \A b \in Actors : \A i : i \in 1..k[b] <=> i \in 1..n[b] \/ i \in 1..m[b]
    OBVIOUS
<1>2. ASSUME NEW x PROVE x \in OpsUpTo(lg, k) <=> x \in OpsUpTo(lg, n) \/ x \in OpsUpTo(lg, m)
    BY <1>1, UpToHas
<1> QED BY <1>2

LEMMA UpToOneMore ==
    ASSUME NEW lg, NEW n, NEW m, NEW a \in Actors, NEW i, 1..m[a] = 1..n[a] \cup {i},
           \A b \in Actors \ {a} : m[b] = n[b]
    PROVE  OpsUpTo(lg, m) = OpsUpTo(lg, n) \cup {lg[a][i].op}
<1>1. ASSUME NEW b \in Actors, NEW j \in 1..m[b] PROVE j \in 1..n[b] \/ (b = a /\ j = i)
    OBVIOUS
<1>2. ASSUME NEW b \in Actors, NEW j \in 1..n[b] PROVE j \in 1..m[b]
    OBVIOUS
<1>3. i \in 1..m[a]
    OBVIOUS
<1>4. ASSUME NEW x PROVE x \in OpsUpTo(lg, m) <=> x \in OpsUpTo(lg, n) \/ x = lg[a][i].op
    BY <1>1, <1>2, <1>3, UpToHas
<1> QED BY <1>4

(* What a replica has seen, as Replication's properties have it *)
LEMMA SeenUpTo ==
    ASSUME NEW lg, NEW sn, IsHistory(lg, sn), NEW r \in Actors
    PROVE  OpsUpTo(lg, sn[r]) =
           {lg[x[1]][x[2]].op : x \in {y \in UNION {{a} \X DOMAIN lg[a] : a \in Actors} :
                                            y[2] <= sn[r][y[1]]}}
<1> DEFINE places == UNION {{a} \X DOMAIN lg[a] : a \in Actors}
           seenPlaces == {y \in places : y[2] <= sn[r][y[1]]}
<1>1. \A a \in Actors : /\ DOMAIN lg[a] = 1..Len(lg[a]) /\ Len(lg[a]) \in Nat
                        /\ sn[r][a] \in Nat /\ sn[r][a] <= Len(lg[a])
    BY HistoryTypes
<1>2. ASSUME NEW a \in Actors, NEW i \in 1..sn[r][a]
      PROVE  <<a, i>> \in seenPlaces /\ <<a, i>>[1] = a /\ <<a, i>>[2] = i
    <2>1. i \in 1..Len(lg[a])
        BY <1>1
    <2>2. <<a, i>> \in places
        BY <1>1, <2>1
    <2> QED BY <2>2
<1>3. ASSUME NEW x \in seenPlaces PROVE x[1] \in Actors /\ x[2] \in 1..sn[r][x[1]]
    <2>1. x[1] \in Actors /\ x[2] \in 1..Len(lg[x[1]])
        BY <1>1
    <2> QED BY <1>1, <2>1
<1> HIDE DEF seenPlaces
<1>4. ASSUME NEW op PROVE op \in OpsUpTo(lg, sn[r]) <=> \E x \in seenPlaces : op = lg[x[1]][x[2]].op
    <2>1. ASSUME NEW a \in Actors, NEW i \in 1..sn[r][a]
          PROVE  \E x \in seenPlaces : lg[a][i].op = lg[x[1]][x[2]].op
        BY <1>2
    <2> QED BY <1>3, <2>1, UpToHas
<1>5. OpsUpTo(lg, sn[r]) = {lg[x[1]][x[2]].op : x \in seenPlaces}
    BY <1>4
<1> QED BY <1>5 DEF seenPlaces

LEMMA SeenIs ==
    ASSUME Histories, NEW r \in Actors
    PROVE  OpsSeen(r) = OpsUpTo(log, seen[r])
BY SeenUpTo DEF OpsSeen, Issued, Histories

LEMMA SeenIsNext ==
    ASSUME Histories', NEW r \in Actors
    PROVE  OpsSeen(r)' = OpsUpTo(log', seen'[r])
BY SeenUpTo DEF OpsSeen, Issued, Histories

LEMMA IssuedUpTo ==
    ASSUME NEW lg, NEW op
    PROVE  op \in OpsUpTo(lg, [a \in Actors |-> Len(lg[a])]) <=>
               \E a \in Actors : \E i \in 1..Len(lg[a]) : op = lg[a][i].op
<1> DEFINE n == [a \in Actors |-> Len(lg[a])]
<1>1. \A a \in Actors : n[a] = Len(lg[a])
    OBVIOUS
<1> HIDE DEF n
<1>2. op \in OpsUpTo(lg, n) <=> \E a \in Actors : \E i \in 1..Len(lg[a]) : op = lg[a][i].op
    BY <1>1, UpToHas
<1> QED BY <1>2 DEF n

LEMMA IssuedHas ==
    \A op : op \in OpsIssued <=> \E a \in Actors : \E i \in 1..Len(log[a]) : op = log[a][i].op
BY IssuedUpTo DEF OpsIssued

(* A replica sees only what was issued, and all of what its actor issued. *)
LEMMA SeenIsIssued ==
    ASSUME Histories, NEW r \in Actors
    PROVE  /\ OpsSeen(r) \subseteq OpsIssued
           /\ \A i \in 1..Len(log[r]) : log[r][i].op \in OpsSeen(r)
<1>1. /\ \A a \in Actors : 1..seen[r][a] \subseteq 1..Len(log[a])
      /\ seen[r][r] = Len(log[r])
    BY HistoryTypes DEF Histories
<1>2. \A op : op \in OpsIssued <=> \E a \in Actors : \E i \in 1..Len(log[a]) : op = log[a][i].op
    BY IssuedUpTo DEF OpsIssued
<1>3. \A op : op \in OpsSeen(r) <=> \E a \in Actors : \E i \in 1..seen[r][a] : op = log[a][i].op
    BY SeenIs, UpToHas
<1> QED BY <1>1, <1>2, <1>3

(* The logs grow and what they have stays. *)
Grows(a, op) ==
    /\ \A b \in Actors \ {a} : log'[b] = log[b]
    /\ Len(log'[a]) = Len(log[a]) + 1 /\ log'[a][Len(log[a]) + 1].op = op
    /\ \A i \in 1..Len(log[a]) : log'[a][i] = log[a][i]

(* issue *)
LEMMA IssueHistories ==
    ASSUME Histories, NEW a \in Actors, Issue(a)
    PROVE  \E op \in KindOps(kind, state[a], a) :
              /\ Histories'
              /\ kind' = kind
              /\ state'[a] = KindApply(kind, state[a], op)
              /\ \A r \in Actors \ {a} : state'[r] = state[r]
              /\ Grows(a, op)
              /\ seen'[a][a] = seen[a][a] + 1
              /\ \A r, b \in Actors : r # a \/ b # a => seen'[r][b] = seen[r][b]
<1>1. PICK S : log \in [Actors -> Seq(S)]
    BY DEF Histories, IsHistory
<1>2. PICK op \in KindOps(kind, state[a], a) :
          /\ state' = [state EXCEPT ![a] = KindApply(kind, state[a], op)]
          /\ log' = [log EXCEPT ![a] = Append(log[a], [op |-> op, after |-> seen[a]])]
          /\ seen' = [seen EXCEPT ![a][a] = seen[a][a] + 1]
    BY DEF Issue
<1> DEFINE entry == [op |-> op, after |-> seen[a]]
           T == S \cup {entry}
<1>3. kind' = kind
    BY DEF Issue
<1>4. /\ \A b \in Actors : Len(log[b]) \in Nat /\ log[b] \in Seq(T)
      /\ entry \in T /\ entry.op = op
    BY <1>1
<1>5. /\ Append(log[a], entry) \in Seq(T)
      /\ Len(Append(log[a], entry)) = Len(log[a]) + 1
      /\ Append(log[a], entry)[Len(log[a]) + 1] = entry
      /\ \A i \in 1..Len(log[a]) : Append(log[a], entry)[i] = log[a][i]
    <2> HIDE DEF entry, T
    <2> QED BY <1>4
<1> HIDE DEF entry, T
<1>6. /\ log' \in [Actors -> Seq(T)]
      /\ log'[a] = Append(log[a], entry)
      /\ \A b \in Actors \ {a} : log'[b] = log[b]
    BY <1>1, <1>2, <1>4, <1>5 DEF entry
<1>7. Grows(a, op)
    BY <1>4, <1>5, <1>6 DEF Grows
<1>8. /\ seen' \in [Actors -> [Actors -> Nat]]
      /\ seen'[a][a] = seen[a][a] + 1
      /\ \A r, b \in Actors : r # a \/ b # a => seen'[r][b] = seen[r][b]
    BY <1>2, <1>4 DEF Histories, IsHistory
<1>9. \A r, b \in Actors : seen[r][b] \in Nat /\ seen[r][b] <= Len(log[b]) /\ seen[b][b] = Len(log[b])
    BY HistoryTypes DEF Histories
<1>10. Histories'
    <2>1. ASSUME NEW r \in Actors, NEW b \in Actors PROVE seen'[r][b] <= Len(log'[b])
        <3>1. CASE b # a
            BY <1>6, <1>8, <1>9, <3>1
        <3>2. CASE b = a /\ r = a
            BY <1>4, <1>7, <1>8, <1>9, <3>2 DEF Grows
        <3>3. CASE b = a /\ r # a
            <4>1. seen'[r][a] = seen[r][a] /\ Len(log'[a]) = Len(log[a]) + 1
                BY <1>7, <1>8, <3>3 DEF Grows
            <4> QED BY <1>4, <1>9, <3>3, <4>1
        <3> QED BY <3>1, <3>2, <3>3
    <2>2. ASSUME NEW b \in Actors PROVE seen'[b][b] = Len(log'[b])
        BY <1>6, <1>7, <1>8, <1>9 DEF Grows
    <2>3. state' = [r \in Actors |-> state'[r]]
        BY <1>2 DEF Histories
    <2> QED BY <1>6, <1>8, <2>1, <2>2, <2>3 DEF Histories, IsHistory
<1>11. /\ state'[a] = KindApply(kind, state[a], op)
       /\ \A r \in Actors \ {a} : state'[r] = state[r]
    BY <1>2 DEF Histories
<1> QED BY <1>3, <1>7, <1>8, <1>10, <1>11

LEMMA IssueSees ==
    ASSUME Histories, Histories', NEW a \in Actors, NEW op, Grows(a, op),
           seen'[a][a] = seen[a][a] + 1,
           \A r, b \in Actors : r # a \/ b # a => seen'[r][b] = seen[r][b]
    PROVE  /\ OpsSeen(a)' = OpsSeen(a) \cup {op}
           /\ \A r \in Actors \ {a} : OpsSeen(r)' = OpsSeen(r)
           /\ OpsIssued' = OpsIssued \cup {op}
<1>1. /\ \A b \in Actors : Len(log[b]) \in Nat
      /\ \A r, b \in Actors : 1..seen[r][b] \subseteq 1..Len(log[b])
      /\ seen[a][a] = Len(log[a])
    BY HistoryTypes DEF Histories
<1>2. /\ 1..Len(log'[a]) = 1..Len(log[a]) \cup {Len(log[a]) + 1}
      /\ 1..seen'[a][a] = 1..seen[a][a] \cup {Len(log[a]) + 1}
    BY <1>1 DEF Grows
<1>3. \A b \in Actors : \A i \in 1..Len(log[b]) : log'[b][i] = log[b][i]
    BY DEF Grows
<1>4. \A r \in Actors : \A x : x \in OpsSeen(r) <=> \E b \in Actors : \E i \in 1..seen[r][b] : x = log[b][i].op
    BY SeenIs, UpToHas
<1>5. \A r \in Actors : \A x : x \in OpsSeen(r)' <=> \E b \in Actors : \E i \in 1..seen'[r][b] : x = log'[b][i].op
    BY SeenIsNext, UpToHas
<1>6. \A x : x \in OpsIssued <=> \E b \in Actors : \E i \in 1..Len(log[b]) : x = log[b][i].op
    BY IssuedUpTo DEF OpsIssued
<1>7. \A x : x \in OpsIssued' <=> \E b \in Actors : \E i \in 1..Len(log'[b]) : x = log'[b][i].op
    BY IssuedUpTo DEF OpsIssued
<1>8. log'[a][Len(log[a]) + 1].op = op
    BY DEF Grows
<1>9. \A b \in Actors \ {a} : log'[b] = log[b] /\ seen'[a][b] = seen[a][b]
    BY DEF Grows
<1>10. OpsSeen(a)' = OpsSeen(a) \cup {op}
    <2>1. ASSUME NEW b \in Actors, NEW i \in 1..seen'[a][b]
          PROVE  (i \in 1..seen[a][b] /\ log'[b][i] = log[b][i]) \/ log'[b][i].op = op
        BY <1>1, <1>2, <1>3, <1>8, <1>9
    <2>2. ASSUME NEW b \in Actors, NEW i \in 1..seen[a][b]
          PROVE  i \in 1..seen'[a][b] /\ log'[b][i] = log[b][i]
        BY <1>1, <1>2, <1>3, <1>9
    <2>3. Len(log[a]) + 1 \in 1..seen'[a][a]
        BY <1>2
    <2>4. ASSUME NEW x \in OpsSeen(a)' PROVE x \in OpsSeen(a) \/ x = op
        BY <1>4, <1>5, <2>1
    <2>5. ASSUME NEW x \in OpsSeen(a) PROVE x \in OpsSeen(a)'
        BY <1>4, <1>5, <2>2
    <2>6. op \in OpsSeen(a)'
        BY <1>5, <1>8, <2>3
    <2> QED BY <2>4, <2>5, <2>6
<1>11. ASSUME NEW r \in Actors \ {a} PROVE OpsSeen(r)' = OpsSeen(r)
    <2>1. \A b \in Actors : seen'[r][b] = seen[r][b]
        OBVIOUS
    <2>2. \A b \in Actors : \A i \in 1..seen[r][b] : log'[b][i] = log[b][i]
        BY <1>1, <1>3
    <2>3. \A x : x \in OpsSeen(r)' <=> x \in OpsSeen(r)
        BY <1>4, <1>5, <2>1, <2>2
    <2> QED BY <2>3
<1>12. OpsIssued' = OpsIssued \cup {op}
    <2>1. ASSUME NEW b \in Actors, NEW i \in 1..Len(log'[b])
          PROVE  (i \in 1..Len(log[b]) /\ log'[b][i] = log[b][i]) \/ log'[b][i].op = op
        BY <1>1, <1>2, <1>3, <1>8, <1>9
    <2>2. ASSUME NEW b \in Actors, NEW i \in 1..Len(log[b])
          PROVE  i \in 1..Len(log'[b]) /\ log'[b][i] = log[b][i]
        BY <1>1, <1>2, <1>3, <1>9
    <2>3. Len(log[a]) + 1 \in 1..Len(log'[a])
        BY <1>2
    <2>4. ASSUME NEW x \in OpsIssued' PROVE x \in OpsIssued \/ x = op
        BY <1>6, <1>7, <2>1
    <2>5. ASSUME NEW x \in OpsIssued PROVE x \in OpsIssued'
        BY <1>6, <1>7, <2>2
    <2>6. op \in OpsIssued'
        BY <1>7, <1>8, <2>3
    <2> QED BY <2>4, <2>5, <2>6
<1> QED BY <1>10, <1>11, <1>12


(* apply of the next operation of an actor *)
LEMMA DeliverHistories ==
    ASSUME Histories, NEW r \in Actors, NEW a \in Actors, Deliver(r, a)
    PROVE  \E op \in OpsIssued :
              /\ Histories'
              /\ kind \in OpKinds /\ kind' = kind /\ log' = log
              /\ state'[r] = KindApply(kind, state[r], op)
              /\ \A q \in Actors \ {r} : state'[q] = state[q]
              /\ OpsSeen(r)' = OpsSeen(r) \cup {op}
              /\ \A q \in Actors \ {r} : OpsSeen(q)' = OpsSeen(q)
<1> DEFINE i == seen[r][a] + 1
           op == log[a][i].op
<1>1. /\ \A b \in Actors : DOMAIN log[b] = 1..Len(log[b]) /\ Len(log[b]) \in Nat
      /\ \A q, b \in Actors : seen[q][b] \in Nat /\ seen[q][b] <= Len(log[b])
      /\ \A b \in Actors : seen[b][b] = Len(log[b])
    BY HistoryTypes DEF Histories
<1>2. /\ kind \in OpKinds /\ i \in DOMAIN log[a]
      /\ state' = [state EXCEPT ![r] = KindApply(kind, state[r], op)]
      /\ seen' = [seen EXCEPT ![r][a] = i]
      /\ kind' = kind /\ log' = log
    BY DEF Deliver
<1>3. i \in Nat /\ i \in 1..Len(log[a]) /\ i <= Len(log[a]) /\ 1..i = 1..seen[r][a] \cup {i}
    BY <1>1, <1>2
<1>4. r # a
    BY <1>1, <1>3
<1>5. op \in OpsIssued
    BY <1>3, IssuedUpTo DEF OpsIssued
<1>6. seen \in [Actors -> [Actors -> Nat]]
    BY DEF Histories, IsHistory
<1> HIDE DEF i
<1>7. /\ seen' \in [Actors -> [Actors -> Nat]]
      /\ seen'[r][a] = i
      /\ \A q, b \in Actors : q # r \/ b # a => seen'[q][b] = seen[q][b]
    BY <1>2, <1>3, <1>6
<1>8. Histories'
    <2>1. ASSUME NEW q \in Actors, NEW b \in Actors PROVE seen'[q][b] <= Len(log[b])
        BY <1>1, <1>3, <1>7
    <2>2. ASSUME NEW b \in Actors PROVE seen'[b][b] = Len(log[b])
        BY <1>1, <1>4, <1>7
    <2>3. state' = [q \in Actors |-> state'[q]]
        BY <1>2 DEF Histories
    <2> QED BY <1>2, <1>7, <2>1, <2>2, <2>3 DEF Histories, IsHistory
<1>9. /\ state'[r] = KindApply(kind, state[r], op)
      /\ \A q \in Actors \ {r} : state'[q] = state[q]
    BY <1>2 DEF Histories
<1>10. \A q \in Actors : OpsSeen(q) = OpsUpTo(log, seen[q])
    BY SeenIs
<1>11. \A q \in Actors : OpsSeen(q)' = OpsUpTo(log', seen'[q])
    BY <1>8, SeenIsNext
<1>12. OpsSeen(r)' = OpsSeen(r) \cup {op}
    <2> DEFINE n == seen[r]
               m == seen'[r]
    <2>1. 1..m[a] = 1..n[a] \cup {i} /\ \A b \in Actors \ {a} : m[b] = n[b]
        BY <1>3, <1>7
    <2> HIDE DEF n, m
    <2>2. OpsUpTo(log, m) = OpsUpTo(log, n) \cup {op}
        BY <2>1, UpToOneMore
    <2> QED BY <1>2, <1>10, <1>11, <2>2 DEF n, m
<1>13. ASSUME NEW q \in Actors \ {r} PROVE OpsSeen(q)' = OpsSeen(q)
    <2>1. OpsUpTo(log, seen'[q]) = OpsUpTo(log, seen[q])
        BY <1>7, UpToSame
    <2> QED BY <1>2, <1>10, <1>11, <2>1
<1> HIDE DEF op
<1> QED BY <1>2, <1>5, <1>8, <1>9, <1>12, <1>13

LEMMA SeenUnchanged ==
    ASSUME Histories, log' = log, seen' = seen, state' = [q \in Actors |-> state'[q]]
    PROVE  Histories' /\ \A q \in Actors : OpsSeen(q)' = OpsSeen(q)
<1>1. Histories'
    BY DEF Histories
<1> QED BY <1>1, SeenIs, SeenIsNext

(* apply of what was applied before *)
LEMMA DeliverAgainHistories ==
    ASSUME Histories, NEW r \in Actors, NEW a \in Actors, DeliverAgain(r, a)
    PROVE  \E op \in OpsIssued :
              /\ Histories'
              /\ kind \in OpKinds /\ kind' = kind /\ log' = log
              /\ state'[r] = KindApply(kind, state[r], op)
              /\ \A q \in Actors \ {r} : state'[q] = state[q]
              /\ OpsSeen(r)' = OpsSeen(r) \cup {op}
              /\ \A q \in Actors \ {r} : OpsSeen(q)' = OpsSeen(q)
<1>1. PICK i \in 1..seen[r][a] : state' = [state EXCEPT ![r] = KindApply(kind, state[r], log[a][i].op)]
    BY DEF DeliverAgain
<1> DEFINE op == log[a][i].op
<1>2. kind \in OpKinds /\ kind' = kind /\ log' = log /\ seen' = seen
    BY DEF DeliverAgain
<1>3. op \in OpsSeen(r)
    BY SeenIs, UpToHas
<1>4. op \in OpsIssued
    BY <1>3, SeenIsIssued
<1>5. /\ state'[r] = KindApply(kind, state[r], op)
      /\ \A q \in Actors \ {r} : state'[q] = state[q]
      /\ state' = [q \in Actors |-> state'[q]]
    BY <1>1 DEF Histories
<1>6. Histories' /\ \A q \in Actors : OpsSeen(q)' = OpsSeen(q)
    BY <1>2, <1>5, SeenUnchanged
<1>7. OpsSeen(r)' = OpsSeen(r) \cup {op}
    BY <1>3, <1>6
<1> HIDE DEF op
<1> QED BY <1>2, <1>4, <1>5, <1>6, <1>7

(* merge *)
LEMMA MergeHistories ==
    ASSUME Histories, NEW r \in Actors, NEW q \in Actors, MergeFrom(r, q)
    PROVE  /\ Histories'
           /\ kind' = kind /\ log' = log
           /\ state'[r] = KindMerge(kind, state[r], state[q])
           /\ \A p \in Actors \ {r} : state'[p] = state[p]
           /\ OpsSeen(r)' = OpsSeen(r) \cup OpsSeen(q)
           /\ \A p \in Actors \ {r} : OpsSeen(p)' = OpsSeen(p)
<1> DEFINE most == [a \in Actors |-> IF seen[r][a] < seen[q][a] THEN seen[q][a] ELSE seen[r][a]]
<1>1. /\ state' = [state EXCEPT ![r] = KindMerge(kind, state[r], state[q])]
      /\ seen' = [seen EXCEPT ![r] = most]
      /\ kind' = kind /\ log' = log
    BY DEF MergeFrom
<1>2. /\ \A p, b \in Actors : seen[p][b] \in Nat /\ seen[p][b] <= Len(log[b])
      /\ \A b \in Actors : seen[b][b] = Len(log[b]) /\ Len(log[b]) \in Nat
    BY HistoryTypes DEF Histories
<1>3. seen \in [Actors -> [Actors -> Nat]]
    BY DEF Histories, IsHistory
<1>4. /\ most \in [Actors -> Nat]
      /\ \A b \in Actors : /\ most[b] = IF seen[r][b] < seen[q][b] THEN seen[q][b] ELSE seen[r][b]
                           /\ most[b] <= Len(log[b])
    BY <1>2
<1> HIDE DEF most
<1>5. \A b \in Actors : 1..most[b] = 1..seen[r][b] \cup 1..seen[q][b]
    <2>1. ASSUME NEW b \in Actors PROVE 1..most[b] = 1..seen[r][b] \cup 1..seen[q][b]
        <3>1. /\ most[b] = IF seen[r][b] < seen[q][b] THEN seen[q][b] ELSE seen[r][b]
              /\ seen[r][b] \in Nat /\ seen[q][b] \in Nat
            BY <1>2, <1>4
        <3> QED BY <3>1
    <2> QED BY <2>1
<1>6. /\ seen' \in [Actors -> [Actors -> Nat]]
      /\ seen'[r] = most
      /\ \A p \in Actors \ {r} : seen'[p] = seen[p]
    BY <1>1, <1>3, <1>4
<1>7. Histories'
    <2>1. ASSUME NEW p \in Actors, NEW b \in Actors PROVE seen'[p][b] <= Len(log[b])
        BY <1>2, <1>4, <1>6
    <2>2. ASSUME NEW b \in Actors PROVE seen'[b][b] = Len(log[b])
        <3>1. CASE b # r
            BY <1>2, <1>6, <3>1
        <3>2. CASE b = r
            <4>1. seen[r][b] = Len(log[b]) /\ seen[q][b] <= Len(log[b]) /\ seen[q][b] \in Nat
                BY <1>2, <3>2
            <4> QED BY <1>2, <1>4, <1>6, <3>2, <4>1
        <3> QED BY <3>1, <3>2
    <2>3. state' = [p \in Actors |-> state'[p]]
        BY <1>1 DEF Histories
    <2> QED BY <1>1, <1>6, <2>1, <2>2, <2>3 DEF Histories, IsHistory
<1>8. /\ state'[r] = KindMerge(kind, state[r], state[q])
      /\ \A p \in Actors \ {r} : state'[p] = state[p]
    BY <1>1 DEF Histories
<1>9. \A p \in Actors : OpsSeen(p) = OpsUpTo(log, seen[p])
    BY SeenIs
<1>10. \A p \in Actors : OpsSeen(p)' = OpsUpTo(log', seen'[p])
    BY <1>7, SeenIsNext
<1>11. OpsSeen(r)' = OpsSeen(r) \cup OpsSeen(q)
    <2>1. OpsUpTo(log, most) = OpsUpTo(log, seen[r]) \cup OpsUpTo(log, seen[q])
        BY <1>5, UpToBoth
    <2> QED BY <1>1, <1>6, <1>9, <1>10, <2>1
<1>12. ASSUME NEW p \in Actors \ {r} PROVE OpsSeen(p)' = OpsSeen(p)
    <2>1. OpsUpTo(log, seen'[p]) = OpsUpTo(log, seen[p])
        BY <1>6, UpToSame
    <2> QED BY <1>1, <1>9, <1>10, <2>1
<1> QED BY <1>1, <1>7, <1>8, <1>11, <1>12

-----------------------------------------------------------------------------
(* The invariant: what was issued, and what each replica has made of it *)

(* An actor's operations carry its name and ascend; markers and the clocks of
   puts are not used twice. *)
LogsSound ==
    /\ AreOps(kind, OpsIssued)
    /\ kind = "lwwreg" => \A a \in Actors : \A i \in 1..Len(log[a]) : log[a][i].op.marker.actor = a
    /\ kind = "mvreg" =>
          /\ \A a \in Actors : \A i \in 1..Len(log[a]) : log[a][i].op.clock[a] = i
          /\ \A op \in OpsIssued : \A a \in Actors : op.clock[a] <= Len(log[a])
    /\ kind = "orswot" => \A a \in Actors : \A i \in 1..Len(log[a]) :
          log[a][i].op.type = "add" =>
              /\ log[a][i].op.dot.actor = a
              /\ \A j \in 1..Len(log[a]) : j < i /\ log[a][j].op.type = "add" =>
                     log[a][j].op.dot.counter < log[a][i].op.dot.counter

StatesReflect == \A r \in Actors : Reflects(kind, state[r], OpsSeen(r))

(* What the next operation of an actor adds to its log *)
GoesOn(a, op) ==
    /\ kind = "lwwreg" => op.marker.actor = a
    /\ kind = "mvreg" => /\ op.clock[a] = Len(log[a]) + 1
                         /\ \A b \in Actors \ {a} : op.clock[b] <= Len(log[b])
    /\ kind = "orswot" /\ op.type = "add" =>
          /\ op.dot.actor = a
          /\ \A j \in 1..Len(log[a]) : log[a][j].op.type = "add" =>
                 log[a][j].op.dot.counter < op.dot.counter

LEMMA LogsGoOn ==
    ASSUME Histories, LogsSound, NEW a \in Actors, NEW op, GoesOn(a, op), Grows(a, op), kind' = kind,
           OpsIssued' = OpsIssued \cup {op}, AreOps(kind, OpsIssued \cup {op})
    PROVE  LogsSound'
<1> DEFINE n == Len(log[a]) + 1
<1>1. /\ \A b \in Actors : Len(log[b]) \in Nat
      /\ \A b \in Actors \ {a} : log'[b] = log[b]
      /\ Len(log'[a]) = n /\ log'[a][n].op = op
      /\ \A i \in 1..Len(log[a]) : log'[a][i] = log[a][i]
    BY HistoryTypes DEF Histories, Grows
<1>2. /\ \A i \in 1..Len(log'[a]) : i \in 1..Len(log[a]) \/ i = n
      /\ \A i \in 1..Len(log[a]) : i < n
      /\ \A j \in 1..Len(log'[a]) : j < n => j \in 1..Len(log[a])
      /\ Len(log[a]) < n
    BY <1>1
<1> HIDE DEF n
<1>3. AreOps(kind', OpsIssued')
    OBVIOUS
<1>4. ASSUME kind = "lwwreg", NEW b \in Actors, NEW i \in 1..Len(log'[b])
      PROVE  log'[b][i].op.marker.actor = b
    <2>1. CASE b # a
        BY <1>1, <1>4, <2>1 DEF LogsSound
    <2>2. CASE b = a /\ i = n
        BY <1>1, <1>4, <2>2 DEF GoesOn
    <2>3. CASE b = a /\ i \in 1..Len(log[a])
        BY <1>1, <1>4, <2>3 DEF LogsSound
    <2> QED BY <1>2, <2>1, <2>2, <2>3
<1>5. ASSUME kind = "mvreg"
      PROVE  /\ \A b \in Actors : \A i \in 1..Len(log'[b]) : log'[b][i].op.clock[b] = i
             /\ \A x \in OpsIssued' : \A b \in Actors : x.clock[b] <= Len(log'[b])
    <2>1. ASSUME NEW b \in Actors, NEW i \in 1..Len(log'[b]) PROVE log'[b][i].op.clock[b] = i
        <3>1. CASE b # a
            BY <1>1, <1>5, <3>1 DEF LogsSound
        <3>2. CASE b = a /\ i = n
            BY <1>1, <1>5, <3>2 DEF GoesOn, n
        <3>3. CASE b = a /\ i \in 1..Len(log[a])
            BY <1>1, <1>5, <3>3 DEF LogsSound
        <3> QED BY <1>2, <3>1, <3>2, <3>3
    <2>2. ASSUME NEW x \in OpsIssued \cup {op}, NEW b \in Actors PROVE x.clock[b] <= Len(log'[b])
        <3>1. x.clock \in Clocks
            BY <1>5 DEF AreOps, ArePuts
        <3>2. x.clock[b] \in Nat
            BY <3>1 DEF Clocks
        <3>3. CASE b # a
            BY <1>1, <1>5, <3>3 DEF LogsSound, GoesOn
        <3>4. CASE b = a /\ x = op
            BY <1>1, <1>5, <3>4 DEF GoesOn, n
        <3>5. CASE b = a /\ x # op
            <4>1. x.clock[a] <= Len(log[a])
                BY <1>5, <3>5 DEF LogsSound
            <4> QED BY <1>1, <3>2, <3>5, <4>1 DEF n
        <3> QED BY <3>3, <3>4, <3>5
    <2> QED BY <2>1, <2>2
<1>6. ASSUME kind = "orswot", NEW b \in Actors, NEW i \in 1..Len(log'[b]), log'[b][i].op.type = "add"
      PROVE  /\ log'[b][i].op.dot.actor = b
             /\ \A j \in 1..Len(log'[b]) : j < i /\ log'[b][j].op.type = "add" =>
                    log'[b][j].op.dot.counter < log'[b][i].op.dot.counter
    <2>1. CASE b # a
        BY <1>1, <1>6, <2>1 DEF LogsSound
    <2>2. CASE b = a /\ i = n
        <3>1. log'[b][i].op = op
            BY <1>1, <2>2
        <3> QED BY <1>1, <1>2, <1>6, <2>2, <3>1 DEF GoesOn
    <2>3. CASE b = a /\ i \in 1..Len(log[a])
        <3>1. \A j \in 1..Len(log'[b]) : j < i => j \in 1..Len(log[a])
            BY <1>1, <1>2, <2>3 DEF n
        <3>2. log'[b][i] = log[a][i] /\ \A j \in 1..Len(log[a]) : log'[b][j] = log[a][j]
            BY <1>1, <2>3
        <3> QED BY <1>6, <2>3, <3>1, <3>2 DEF LogsSound
    <2> QED BY <1>2, <2>1, <2>2, <2>3
<1> QED BY <1>3, <1>4, <1>5, <1>6 DEF LogsSound

(* What a replica has seen is what came first of each actor. *)
LEMMA ReplicasMaySee ==
    ASSUME Histories, LogsSound, NEW r \in Actors
    PROVE  MaySee(kind, OpsSeen(r), OpsIssued)
<1>1. OpsSeen(r) \subseteq OpsIssued
    BY SeenIsIssued
<1>2. ASSUME kind = "orswot", NEW x \in AddsIn(OpsSeen(r)), NEW y \in AddsIn(OpsIssued),
             y.dot.actor = x.dot.actor, y.dot.counter <= x.dot.counter
      PROVE  y \in OpsSeen(r)
    <2>1. PICK a \in Actors : \E i \in 1..seen[r][a] : x = log[a][i].op
        BY SeenIs, UpToHas DEF AddsIn
    <2>2. PICK b \in Actors : \E j \in 1..Len(log[b]) : y = log[b][j].op
        <3>1. y \in OpsIssued
            BY DEF AddsIn
        <3> QED BY <3>1, IssuedHas
    <2>3. PICK i \in 1..seen[r][a] : x = log[a][i].op
        BY <2>1
    <2>4. PICK j \in 1..Len(log[b]) : y = log[b][j].op
        BY <2>2
    <2>5. i \in 1..Len(log[a]) /\ seen[r][a] \in Nat /\ Len(log[a]) \in Nat
        BY HistoryTypes DEF Histories
    <2>6. x.type = "add" /\ y.type = "add" /\ x \in OpsIssued /\ y \in OpsIssued
        BY <1>1 DEF AddsIn
    <2>7. x.dot.counter \in Nat /\ y.dot.counter \in Nat
        BY <1>2, <2>6 DEF LogsSound, AreOps, AreOrswotOps
    <2>8. x.dot.actor = a /\ y.dot.actor = b
        BY <1>2, <2>3, <2>4, <2>5, <2>6 DEF LogsSound
    <2>9. a = b
        BY <1>2, <2>8
    <2>10. i < j => x.dot.counter < y.dot.counter
        BY <1>2, <2>3, <2>4, <2>5, <2>6, <2>9 DEF LogsSound
    <2>11. j \in 1..seen[r][a]
        BY <1>2, <2>4, <2>5, <2>7, <2>9, <2>10
    <2> QED BY <2>4, <2>9, <2>11, SeenIs, UpToHas
<1> QED BY <1>1, <1>2 DEF MaySee, CameFirst

(* What a replica has seen are operations of its data type. *)
LEMMA ReplicasSeeOps ==
    ASSUME Histories, LogsSound, NEW r \in Actors
    PROVE  AreOps(kind, OpsSeen(r))
<1>1. OpsSeen(r) \subseteq OpsIssued
    BY SeenIsIssued
<1> QED BY <1>1 DEF LogsSound, AreOps, AreDots, DotsOf, AreUpdates, LWWRegKnown, ArePuts, AreOrswotOps

-----------------------------------------------------------------------------
(* The next operation of each data type *)

LEMMA NextCounterOp ==
    ASSUME kind \in {"gcounter", "pncounter"}, LogsSound, NEW a \in Actors,
           Reflects(kind, state[a], OpsSeen(a)), NEW op \in KindOps(kind, state[a], a)
    PROVE  AreOps(kind, OpsIssued \cup {op})
<1>1. ASSUME NEW s \in Clocks, NEW x \in GCounterOps(s, a)
      PROVE  x.dot.actor \in Actors /\ x.dot.counter \in Nat
    <2>1. PICK n \in Steps : x = IncMany(s, a, n)
        BY DEF GCounterOps
    <2>2. n \in Nat /\ s[a] \in Nat
        BY StepsAssumption DEF Clocks
    <2> QED BY <2>1, <2>2 DEF IncMany
<1>2. op.dot.actor \in Actors /\ op.dot.counter \in Nat
    <2>1. CASE kind = "gcounter"
        <3>1. state[a] \in Clocks
            BY <2>1 DEF Reflects, GCounterReflects, IsClockOf
        <3>2. op \in GCounterOps(state[a], a)
            BY <2>1 DEF KindOps
        <3> QED BY <1>1, <3>1, <3>2
    <2>2. CASE kind = "pncounter"
        <3>1. state[a].p \in Clocks /\ state[a].n \in Clocks
            BY <2>2 DEF Reflects, PNCounterReflects, GCounterReflects, IsClockOf
        <3>2. op \in PNCounterOps(state[a], a)
            BY <2>2 DEF KindOps
        <3>3. \E x \in GCounterOps(state[a].p, a) \cup GCounterOps(state[a].n, a) : op.dot = x.dot
            BY <3>2 DEF PNCounterOps
        <3> QED BY <1>1, <3>1, <3>3
    <2> QED BY <2>1, <2>2
<1>3. \A x \in OpsIssued : x.dot.actor \in Actors /\ x.dot.counter \in Nat
    BY DEF LogsSound, AreOps, AreDots, DotsOf
<1> QED BY <1>2, <1>3 DEF AreOps, AreDots, DotsOf

(* The marker is above all that the actor has issued, and others carry
   another name. *)
LEMMA NextUpdate ==
    ASSUME kind = "lwwreg", Histories, LogsSound, NEW a \in Actors,
           Reflects(kind, state[a], OpsSeen(a)), NEW op \in KindOps(kind, state[a], a)
    PROVE  GoesOn(a, op) /\ AreOps(kind, OpsIssued \cup {op})
<1> DEFINE s == state[a]
           seenOps == OpsSeen(a)
           issued == OpsIssued
<1>1. op \in LWWRegOps(s, a)
    BY DEF KindOps
<1>2. op.marker = [n |-> s.marker.n + 1, actor |-> a]
    BY <1>1 DEF LWWRegOps
<1>3. /\ AreUpdates(issued) /\ \A x \in issued : x.marker.n # 0
      /\ \A b \in Actors : \A i \in 1..Len(log[b]) : log[b][i].op.marker.actor = b
    BY DEF LogsSound, AreOps
<1>4. LWWRegReflects(s, seenOps) /\ AreUpdates(seenOps)
    BY ReplicasSeeOps DEF Reflects, AreOps
<1>5. seenOps \subseteq issued /\ \A i \in 1..Len(log[a]) : log[a][i].op \in seenOps
    BY SeenIsIssued
<1>6. \A x \in issued : \E b \in Actors : \E i \in 1..Len(log[b]) : x = log[b][i].op
    BY IssuedHas
<1> HIDE DEF s, seenOps, issued
<1>7. s.marker \in Markers /\ \A x \in LWWRegKnown(seenOps) : x.marker \in Markers /\ x.marker.n <= s.marker.n
    BY <1>4 DEF LWWRegReflects, AreUpdates, MarkerBefore, Markers
<1>8. op.marker \in Markers /\ op.marker.n > s.marker.n /\ op.marker.actor = a /\ op.marker.n # 0
    BY <1>2, <1>7, ActorsAssumption DEF Markers
<1>9. ASSUME NEW x \in LWWRegKnown(issued) PROVE x.marker # op.marker
    <2>1. CASE x = LWWRegStart
        BY <1>8, <2>1 DEF LWWRegStart, LWWRegNew
    <2>2. CASE x \in issued
        <3>1. PICK b \in Actors : \E i \in 1..Len(log[b]) : x = log[b][i].op
            BY <1>6, <2>2
        <3>2. x.marker.actor = b
            BY <1>3, <3>1
        <3>3. CASE b = a
            <4>1. x \in LWWRegKnown(seenOps)
                BY <1>5, <3>1, <3>3 DEF LWWRegKnown
            <4>2. x.marker.n \in Nat /\ s.marker.n \in Nat /\ op.marker.n \in Nat /\ x.marker.n <= s.marker.n
                BY <1>7, <1>8, <4>1 DEF Markers
            <4> QED BY <1>8, <4>2
        <3> QED BY <1>8, <3>2, <3>3
    <2> QED BY <2>1, <2>2 DEF LWWRegKnown
<1>10. AreUpdates(issued \cup {op})
    <2>1. LWWRegKnown(issued \cup {op}) = LWWRegKnown(issued) \cup {op}
        BY DEF LWWRegKnown
    <2> QED BY <1>3, <1>8, <1>9, <2>1 DEF AreUpdates
<1> QED BY <1>3, <1>8, <1>10 DEF GoesOn, AreOps, issued

(* The clock is ahead of all others by the put that it stands for. *)
LEMMA NextPut ==
    ASSUME kind = "mvreg", Histories, LogsSound, NEW a \in Actors,
           Reflects(kind, state[a], OpsSeen(a)), NEW op \in KindOps(kind, state[a], a)
    PROVE  /\ GoesOn(a, op) /\ AreOps(kind, OpsIssued \cup {op})
           /\ Reflects(kind, KindApply(kind, state[a], op), OpsSeen(a) \cup {op})
<1> DEFINE bound == [b \in Actors |-> Len(log[b])]
<1>1. \A b \in Actors : Len(log[b]) \in Nat
    BY HistoryTypes DEF Histories
<1>2. bound \in Clocks /\ \A b \in Actors : bound[b] = Len(log[b])
    BY <1>1 DEF Clocks
<1>3. /\ ArePuts(OpsIssued)
      /\ \A x \in OpsIssued : \A b \in Actors : x.clock[b] <= Len(log[b])
      /\ \A i \in 1..Len(log[a]) : log[a][i].op.clock[a] = i
    BY DEF LogsSound, AreOps
<1>4. ArePuts(OpsSeen(a)) /\ MVRegReflects(state[a], OpsSeen(a))
    BY ReplicasSeeOps DEF Reflects, AreOps
<1>5. OpsSeen(a) \subseteq OpsIssued /\ \A i \in 1..Len(log[a]) : log[a][i].op \in OpsSeen(a)
    BY SeenIsIssued
<1> HIDE DEF bound
<1>6. ASSUME NEW x \in OpsIssued PROVE Covers(bound, x.clock)
    <2>1. ASSUME NEW b \in Actors PROVE bound[b] >= x.clock[b]
        <3>1. x.clock[b] \in Nat
            BY <1>3 DEF ArePuts, Clocks
        <3> QED BY <1>1, <1>2, <1>3, <3>1
    <2> QED BY <2>1 DEF Covers
<1>7. bound[a] = 0 \/ \E x \in OpsSeen(a) : x.clock[a] = bound[a]
    <2>1. bound[a] = 0 \/ bound[a] \in 1..Len(log[a])
        BY <1>1, <1>2
    <2> QED BY <1>3, <1>5, <2>1
<1>8. op \in MVRegOps(state[a], a) /\ KindApply(kind, state[a], op) = MVRegApply(state[a], op)
    BY DEF KindOps, KindApply, Maps
<1>9. \A x \in OpsSeen(a) : Covers(bound, x.clock)
    BY <1>5, <1>6
<1>10. /\ op.clock \in Clocks
       /\ op.clock[a] = bound[a] + 1
       /\ \A b \in Actors \ {a} : op.clock[b] <= bound[b]
       /\ MVRegReflects(MVRegApply(state[a], op), OpsSeen(a) \cup {op})
    BY <1>2, <1>4, <1>7, <1>8, <1>9, MVRegPuts
<1>11. GoesOn(a, op)
    BY <1>2, <1>10 DEF GoesOn
<1>12. ASSUME NEW x \in OpsIssued PROVE x.clock # op.clock
    BY <1>1, <1>2, <1>3, <1>10
<1>13. AreOps(kind, OpsIssued \cup {op})
    BY <1>3, <1>10, <1>12 DEF AreOps, ArePuts
<1> QED BY <1>8, <1>10, <1>11, <1>13 DEF Reflects

(* The dot of an addition is new; a removal has the clock of what was read. *)
LEMMA NextOrswotOp ==
    ASSUME kind = "orswot", Histories, LogsSound, NEW a \in Actors,
           Reflects(kind, state[a], OpsSeen(a)), NEW op \in KindOps(kind, state[a], a)
    PROVE  /\ GoesOn(a, op) /\ AreOps(kind, OpsIssued \cup {op})
           /\ Reflects(kind, KindApply(kind, state[a], op), OpsSeen(a) \cup {op})
<1> DEFINE s == state[a]
           seenOps == OpsSeen(a)
           issued == OpsIssued
<1>1. op \in OrswotOps(s, a) /\ KindApply(kind, s, op) = OrswotApply(s, op)
    BY DEF KindOps, KindApply, Maps
<1>2. OrswotReflects(s, seenOps)
    BY DEF Reflects
<1>3. AreOrswotOps(issued)
    BY DEF LogsSound, AreOps
<1>4. /\ seenOps \subseteq issued
      /\ \A i \in 1..Len(log[a]) : log[a][i].op \in seenOps
      /\ \A i \in 1..Len(log[a]) : log[a][i].op.type = "add" => log[a][i].op.dot.actor = a
    BY SeenIsIssued DEF LogsSound
<1> HIDE DEF s, seenOps, issued
<1>5. /\ s.clock \in Clocks /\ s.clock[a] \in Nat
      /\ \A m \in Members : s.entries[m] \in Clocks
      /\ \A d \in DotsOf(AddsIn(seenOps)) : d.counter <= s.clock[d.actor]
    BY <1>2 DEF OrswotReflects, States, Clocks, IsClockOf
<1>6. \/ op \in [type : {"add"}, dot : {Inc(s.clock, a)}, members : (SUBSET Members) \ {{}}]
      \/ \E m \in OrswotRead(s) : op = [type |-> "rm", clock |-> s.entries[m], members |-> {m}]
      \/ op \in [type : {"rm"}, clock : {s.clock}, members : (SUBSET Members) \ {{}}]
    BY <1>1 DEF OrswotOps
<1>7. \/ /\ op.type = "add" /\ op.members \subseteq Members
         /\ op.dot.actor = a /\ op.dot.counter = s.clock[a] + 1
      \/ /\ op.type = "rm" /\ op.members \subseteq Members /\ op.clock \in Clocks
    BY <1>5, <1>6 DEF Inc, OrswotRead
<1>8. AreOrswotOps(issued \cup {op})
    <2>1. op.type = "add" => op.dot.actor \in Actors /\ op.dot.counter \in Nat \ {0}
        BY <1>5, <1>7
    <2> QED BY <1>3, <1>7, <2>1 DEF AreOrswotOps
<1>9. ASSUME op.type = "add", NEW j \in 1..Len(log[a]), log[a][j].op.type = "add"
      PROVE  log[a][j].op.dot.counter < op.dot.counter
    <2> DEFINE x == log[a][j].op
    <2>1. x \in seenOps /\ x.dot.actor = a /\ x.type = "add"
        BY <1>4, <1>9
    <2> HIDE DEF x
    <2>2. x.dot \in DotsOf(AddsIn(seenOps)) /\ x \in issued
        BY <1>4, <2>1 DEF DotsOf, AddsIn
    <2>3. x.dot.counter <= s.clock[a]
        BY <1>5, <2>1, <2>2
    <2>4. x.dot.counter \in Nat
        BY <1>3, <2>1, <2>2 DEF AreOrswotOps
    <2>5. x.dot.counter < op.dot.counter
        BY <1>5, <1>7, <1>9, <2>3, <2>4
    <2> QED BY <2>5 DEF x
<1>10. GoesOn(a, op)
    BY <1>7, <1>9 DEF GoesOn
<1>11. AreOrswotOps(seenOps \cup {op})
    BY <1>4, <1>8 DEF AreOrswotOps
<1>12. OrswotReflects(OrswotApply(s, op), seenOps \cup {op})
    <2>1. CASE op.type = "rm"
        BY <1>2, <1>11, <2>1, OrswotRemoves
    <2>2. CASE op.type = "add"
        <3>1. s.clock[op.dot.actor] < op.dot.counter
            BY <1>5, <1>7, <2>2
        <3> QED BY <1>2, <1>11, <2>2, <3>1, OrswotAdds
    <2> QED BY <1>7, <2>1, <2>2
<1> QED BY <1>1, <1>8, <1>10, <1>12 DEF AreOps, Reflects, s, seenOps, issued

LEMMA NextOp ==
    ASSUME kind \in ConvergingKinds, Histories, LogsSound, StatesReflect,
           NEW a \in Actors, NEW op \in KindOps(kind, state[a], a)
    PROVE  /\ GoesOn(a, op) /\ AreOps(kind, OpsIssued \cup {op})
           /\ Reflects(kind, KindApply(kind, state[a], op), OpsSeen(a) \cup {op})
<1>1. Reflects(kind, state[a], OpsSeen(a))
    BY DEF StatesReflect
<1>2. CASE kind = "mvreg"
    BY <1>1, <1>2, NextPut
<1>3. CASE kind = "orswot"
    BY <1>1, <1>3, NextOrswotOp
<1>4. CASE kind \notin {"mvreg", "orswot"}
    <2>1. GoesOn(a, op) /\ AreOps(kind, OpsIssued \cup {op})
        <3>1. CASE kind = "lwwreg"
            BY <1>1, <3>1, NextUpdate
        <3>2. CASE kind \in {"gcounter", "pncounter"}
            BY <1>1, <3>2, NextCounterOp DEF GoesOn
        <3>3. CASE kind \in {"gset", "glist"}
            BY <3>3 DEF GoesOn, AreOps
        <3> QED BY <1>4, <3>1, <3>2, <3>3 DEF ConvergingKinds
    <2>2. MaySee(kind, OpsSeen(a), OpsIssued \cup {op})
        BY <1>4, SeenIsIssued DEF MaySee
    <2>3. op \in OpsIssued \cup {op}
        OBVIOUS
    <2>4. kind \in ConvergingKinds \ {"mvreg"}
        BY <1>4
    <2>5. Reflects(kind, KindApply(kind, state[a], op), OpsSeen(a) \cup {op})
        BY <1>1, <2>1, <2>2, <2>3, <2>4, ApplyReflects
    <2> QED BY <2>1, <2>5
<1> QED BY <1>2, <1>3, <1>4

-----------------------------------------------------------------------------
(* The theorems *)

CRDTsInv == Histories /\ (kind \in ConvergingKinds => LogsSound /\ StatesReflect)

LEMMA InitInv == Init => CRDTsInv
<1> SUFFICES ASSUME Init PROVE CRDTsInv
    OBVIOUS
<1>1. /\ state = [r \in Actors |-> KindNew(kind)]
      /\ log = [a \in Actors |-> <<>>]
      /\ seen = [r \in Actors |-> [a \in Actors |-> 0]]
    BY DEF Init
<1>2. ASSUME NEW a \in Actors PROVE log[a] = <<>> /\ Len(log[a]) = 0 /\ 1..Len(log[a]) = {}
    <2>1. log[a] = <<>> /\ Len(<<>>) = 0
        BY <1>1
    <2>2. 1..0 = {}
        OBVIOUS
    <2> QED BY <2>1, <2>2
<1>3. Histories
    <2>1. log \in [Actors -> Seq({})]
        BY <1>1
    <2> QED BY <1>1, <1>2, <2>1 DEF Histories, IsHistory
<1>4. OpsIssued = {}
    BY <1>2, IssuedHas
<1>5. ASSUME NEW r \in Actors PROVE OpsSeen(r) = {}
    BY <1>3, <1>4, SeenIsIssued
<1>6. ASSUME kind \in ConvergingKinds PROVE StatesReflect
    BY <1>1, <1>5, <1>6, NewReflects DEF StatesReflect
<1>7. LogsSound
    <2>1. AreUpdates({})
        BY DEF AreUpdates, LWWRegKnown, LWWRegStart, LWWRegNew, Markers
    <2>2. AreOps(kind, {})
        BY <2>1 DEF AreOps, AreDots, DotsOf, ArePuts, AreOrswotOps
    <2> QED BY <1>2, <1>4, <2>2 DEF LogsSound
<1> QED BY <1>3, <1>6, <1>7 DEF CRDTsInv

(* An operation that is applied, and what the others keep *)
LEMMA OthersReflect ==
    ASSUME StatesReflect, kind' = kind, NEW r \in Actors,
           \A q \in Actors \ {r} : state'[q] = state[q] /\ OpsSeen(q)' = OpsSeen(q),
           Reflects(kind, state'[r], OpsSeen(r)')
    PROVE  StatesReflect'
<1>1. ASSUME NEW q \in Actors PROVE Reflects(kind', state'[q], OpsSeen(q)')
    <2>1. CASE q = r
        BY <2>1
    <2>2. CASE q # r
        <3>1. state'[q] = state[q] /\ OpsSeen(q)' = OpsSeen(q) /\ Reflects(kind, state[q], OpsSeen(q))
            BY <2>2 DEF StatesReflect
        <3> QED BY <3>1
    <2> QED BY <2>1, <2>2
<1> QED BY <1>1 DEF StatesReflect

LEMMA LogsStay ==
    ASSUME LogsSound, kind' = kind, log' = log
    PROVE  LogsSound' /\ OpsIssued' = OpsIssued
<1>1. OpsIssued' = OpsIssued
    BY DEF OpsIssued
<1> QED BY <1>1 DEF LogsSound

LEMMA IssueInv ==
    ASSUME CRDTsInv, NEW a \in Actors, Issue(a)
    PROVE  CRDTsInv'
<1>1. Histories
    BY DEF CRDTsInv
<1>2. PICK op \in KindOps(kind, state[a], a) :
          /\ Histories'
          /\ kind' = kind
          /\ state'[a] = KindApply(kind, state[a], op)
          /\ \A r \in Actors \ {a} : state'[r] = state[r]
          /\ Grows(a, op)
          /\ seen'[a][a] = seen[a][a] + 1
          /\ \A r, b \in Actors : r # a \/ b # a => seen'[r][b] = seen[r][b]
    BY <1>1, IssueHistories
<1>3. /\ OpsSeen(a)' = OpsSeen(a) \cup {op}
      /\ \A r \in Actors \ {a} : OpsSeen(r)' = OpsSeen(r)
      /\ OpsIssued' = OpsIssued \cup {op}
    BY <1>1, <1>2, IssueSees
<1>4. ASSUME kind \in ConvergingKinds PROVE LogsSound' /\ StatesReflect'
    <2>1. LogsSound /\ StatesReflect
        BY <1>4 DEF CRDTsInv
    <2>2. /\ GoesOn(a, op) /\ AreOps(kind, OpsIssued \cup {op})
          /\ Reflects(kind, KindApply(kind, state[a], op), OpsSeen(a) \cup {op})
        BY <1>1, <1>4, <2>1, NextOp
    <2>3. LogsSound'
        BY <1>1, <1>2, <1>3, <2>1, <2>2, LogsGoOn
    <2>4. Reflects(kind, state'[a], OpsSeen(a)')
        BY <1>2, <1>3, <2>2
    <2>5. StatesReflect'
        BY <1>2, <1>3, <2>1, <2>4, OthersReflect
    <2> QED BY <2>3, <2>5
<1> QED BY <1>2, <1>4 DEF CRDTsInv

LEMMA AppliedInv ==
    ASSUME CRDTsInv, NEW r \in Actors, NEW op \in OpsIssued, Histories',
           kind \in OpKinds, kind' = kind, log' = log,
           state'[r] = KindApply(kind, state[r], op),
           \A q \in Actors \ {r} : state'[q] = state[q],
           OpsSeen(r)' = OpsSeen(r) \cup {op},
           \A q \in Actors \ {r} : OpsSeen(q)' = OpsSeen(q)
    PROVE  CRDTsInv'
<1>1. Histories
    BY DEF CRDTsInv
<1>2. ASSUME kind \in ConvergingKinds PROVE LogsSound' /\ StatesReflect'
    <2>1. LogsSound /\ StatesReflect
        BY <1>2 DEF CRDTsInv
    <2>2. kind \in ConvergingKinds \ {"mvreg"}
        BY <1>2 DEF ConvergingKinds
    <2>3. /\ AreOps(kind, OpsIssued) /\ MaySee(kind, OpsSeen(r), OpsIssued)
          /\ Reflects(kind, state[r], OpsSeen(r))
        BY <1>1, <2>1, ReplicasMaySee DEF LogsSound, StatesReflect
    <2>4. Reflects(kind, KindApply(kind, state[r], op), OpsSeen(r) \cup {op})
        BY <2>2, <2>3, ApplyReflects
    <2>5. StatesReflect'
        BY <2>1, <2>4, OthersReflect
    <2> QED BY <2>1, <2>5, LogsStay
<1> QED BY <1>2 DEF CRDTsInv

LEMMA MergeInv ==
    ASSUME CRDTsInv, NEW r \in Actors, NEW q \in Actors, MergeFrom(r, q)
    PROVE  CRDTsInv'
<1>1. Histories
    BY DEF CRDTsInv
<1>2. /\ Histories'
      /\ kind' = kind /\ log' = log
      /\ state'[r] = KindMerge(kind, state[r], state[q])
      /\ \A p \in Actors \ {r} : state'[p] = state[p]
      /\ OpsSeen(r)' = OpsSeen(r) \cup OpsSeen(q)
      /\ \A p \in Actors \ {r} : OpsSeen(p)' = OpsSeen(p)
    BY <1>1, MergeHistories
<1>3. ASSUME kind \in ConvergingKinds PROVE LogsSound' /\ StatesReflect'
    <2>1. LogsSound /\ StatesReflect
        BY <1>3 DEF CRDTsInv
    <2>2. /\ AreOps(kind, OpsIssued)
          /\ MaySee(kind, OpsSeen(r), OpsIssued) /\ MaySee(kind, OpsSeen(q), OpsIssued)
          /\ Reflects(kind, state[r], OpsSeen(r)) /\ Reflects(kind, state[q], OpsSeen(q))
        BY <1>1, <2>1, ReplicasMaySee DEF LogsSound, StatesReflect
    <2>3. Reflects(kind, KindMerge(kind, state[r], state[q]), OpsSeen(r) \cup OpsSeen(q))
        BY <1>3, <2>2, MergeReflects
    <2>4. StatesReflect'
        BY <1>2, <2>1, <2>3, OthersReflect
    <2> QED BY <1>2, <2>1, <2>4, LogsStay
<1> QED BY <1>2, <1>3 DEF CRDTsInv

LEMMA StutterInv ==
    ASSUME CRDTsInv, UNCHANGED vars
    PROVE  CRDTsInv'
<1>1. kind' = kind /\ state' = state /\ log' = log /\ seen' = seen
    BY DEF vars
<1>2. Histories'
    BY <1>1 DEF CRDTsInv, Histories
<1>3. \A r \in Actors : OpsSeen(r)' = OpsSeen(r)
    BY <1>1 DEF OpsSeen, Issued
<1>4. ASSUME kind \in ConvergingKinds PROVE LogsSound' /\ StatesReflect'
    BY <1>1, <1>3, <1>4, LogsStay DEF CRDTsInv, StatesReflect
<1> QED BY <1>1, <1>2, <1>4 DEF CRDTsInv

LEMMA NextInv == CRDTsInv /\ [Next]_vars => CRDTsInv'
<1> SUFFICES ASSUME CRDTsInv, [Next]_vars PROVE CRDTsInv'
    OBVIOUS
<1>1. ASSUME NEW a \in Actors, Issue(a) PROVE CRDTsInv'
    BY <1>1, IssueInv
<1>2. ASSUME NEW r \in Actors, NEW q \in Actors, Deliver(r, q) PROVE CRDTsInv'
    <2>1. Histories
        BY DEF CRDTsInv
    <2> QED BY <1>2, <2>1, DeliverHistories, AppliedInv
<1>3. ASSUME NEW r \in Actors, NEW q \in Actors, DeliverAgain(r, q) PROVE CRDTsInv'
    <2>1. Histories
        BY DEF CRDTsInv
    <2> QED BY <1>3, <2>1, DeliverAgainHistories, AppliedInv
<1>4. ASSUME NEW r \in Actors, NEW q \in Actors, MergeFrom(r, q) PROVE CRDTsInv'
    BY <1>4, MergeInv
<1>5. CASE UNCHANGED vars
    BY <1>5, StutterInv
<1> QED BY <1>1, <1>2, <1>3, <1>4, <1>5 DEF Next

(* Clocks, logs and replicas are in order in every reachable state. *)
THEOREM CRDTsInvariant == Spec => []CRDTsInv
BY InitInv, NextInv, PTL DEF Spec

(* Replicas that have seen the same operations are equal, whatever the order
   in which they came, however often, and whether they came one by one or in
   merged states: for the counters, the registers and the sets (MVReg by its
   states). *)
THEOREM ConvergenceCorrect == Spec => [](kind \in ConvergingKinds => Convergence)
<1>1. CRDTsInv => (kind \in ConvergingKinds => Convergence)
    <2> SUFFICES ASSUME CRDTsInv, kind \in ConvergingKinds,
                        NEW r \in Actors, NEW q \in Actors, seen[r] = seen[q]
                 PROVE  state[r] = state[q]
        BY DEF Convergence
    <2>1. Histories /\ LogsSound /\ StatesReflect
        BY DEF CRDTsInv
    <2>2. OpsSeen(r) = OpsSeen(q)
        BY <2>1, SeenIs
    <2>3. /\ Reflects(kind, state[r], OpsSeen(r)) /\ Reflects(kind, state[q], OpsSeen(r))
          /\ AreOps(kind, OpsSeen(r))
        BY <2>1, <2>2, ReplicasSeeOps DEF StatesReflect
    <2> QED BY <2>3, ReflectsIsUnique
<1> QED BY <1>1, CRDTsInvariant, PTL

(* Those of the kinds whose meaning is no sum *)
ReadableKinds == ConvergingKinds \ {"gcounter", "pncounter"}

(* What is read from a register or a set follows from the operations its
   replica has seen: the newest update, the puts that no other has seen, the
   members that some addition has and no removal has seen. *)
THEOREM ReadsItsMeaningCorrect == Spec => [](kind \in ReadableKinds => ReadsItsMeaning)
<1>1. CRDTsInv => (kind \in ReadableKinds => ReadsItsMeaning)
    <2> SUFFICES ASSUME CRDTsInv, kind \in ReadableKinds, NEW r \in Actors
                 PROVE  KindRead(kind, state[r]) = KindMeaning(kind, OpsSeen(r))
        BY DEF ReadsItsMeaning
    <2>1. Histories /\ LogsSound /\ StatesReflect /\ kind \in ConvergingKinds
        BY DEF CRDTsInv, ReadableKinds
    <2>2. Reflects(kind, state[r], OpsSeen(r)) /\ AreOps(kind, OpsSeen(r))
        BY <2>1, ReplicasSeeOps DEF StatesReflect
    <2>3. CASE kind \in {"gset", "glist"}
        BY <2>2, <2>3 DEF Reflects, KindRead, KindMeaning, Maps
    <2>4. CASE kind = "lwwreg"
        <3>1. KindRead(kind, state[r]) = state[r].val
            BY <2>4 DEF KindRead, Maps
        <3>2. KindMeaning(kind, OpsSeen(r)) = LWWRegMeaning(LWWRegStart, OpsSeen(r))
            BY <2>4 DEF KindMeaning, Maps, LWWRegStart
        <3> QED BY <2>2, <2>4, <3>1, <3>2, LWWRegMeans DEF Reflects, AreOps
    <2>5. CASE kind = "mvreg"
        <3>1. KindRead(kind, state[r]) = MVRegRead(state[r])
            BY <2>5 DEF KindRead, Maps
        <3>2. KindMeaning(kind, OpsSeen(r)) = MVRegMeaning(OpsSeen(r))
            BY <2>5 DEF KindMeaning, Maps
        <3> QED BY <2>2, <2>5, <3>1, <3>2, MVRegMeans DEF Reflects, AreOps
    <2>6. CASE kind = "orswot"
        <3>1. KindRead(kind, state[r]) = OrswotRead(state[r])
            BY <2>6 DEF KindRead, Maps
        <3>2. KindMeaning(kind, OpsSeen(r)) = OrswotMeaning(OpsSeen(r))
            BY <2>6 DEF KindMeaning, Maps
        <3> QED BY <2>2, <2>6, <3>1, <3>2, OrswotMeans DEF Reflects, AreOps
    <2> QED BY <2>3, <2>4, <2>5, <2>6 DEF ReadableKinds, ConvergingKinds
<1> QED BY <1>1, CRDTsInvariant, PTL

(* The states stay what their type allows: the values of an MVReg are
   concurrent, an Orswot has seen what its members have and has not seen all
   of what it defers; and no replica is ahead of an actor. *)
THEOREM TypeCorrect == Spec => [](kind \in ConvergingKinds => TypeOK)
<1>1. Init => kind \in Kinds
    BY DEF Init
<1>2. kind \in Kinds /\ [Next]_vars => (kind \in Kinds)'
    <2>1. ASSUME Next PROVE kind' = kind
        BY <2>1 DEF Next, Issue, Deliver, DeliverAgain, MergeFrom
    <2>2. ASSUME UNCHANGED vars PROVE kind' = kind
        BY <2>2 DEF vars
    <2> QED BY <2>1, <2>2
<1>3. Spec => [](kind \in Kinds)
    BY <1>1, <1>2, PTL DEF Spec
<1>4. CRDTsInv /\ kind \in Kinds => (kind \in ConvergingKinds => TypeOK)
    <2> SUFFICES ASSUME CRDTsInv, kind \in Kinds, kind \in ConvergingKinds PROVE TypeOK
        OBVIOUS
    <2>1. Histories /\ LogsSound /\ StatesReflect
        BY DEF CRDTsInv
    <2>2. ASSUME NEW r \in Actors PROVE KindSound(kind, state[r])
        <3>1. Reflects(kind, state[r], OpsSeen(r)) /\ AreOps(kind, OpsSeen(r))
            BY <2>1, ReplicasSeeOps DEF StatesReflect
        <3>2. CASE kind = "orswot"
            BY <3>1, <3>2, OrswotMeans DEF Reflects, AreOps, KindSound, Maps
        <3>3. CASE kind = "mvreg"
            BY <3>1, <3>3, MVRegMeans DEF Reflects, AreOps, KindSound, Maps
        <3>4. CASE kind \notin {"orswot", "mvreg"}
            BY <3>4 DEF ConvergingKinds, KindSound, Maps
        <3> QED BY <3>2, <3>3, <3>4
    <2>3. /\ \A q, a \in Actors : seen[q][a] \in Nat /\ seen[q][a] <= Len(log[a]) /\ Len(log[a]) \in Nat
          /\ \A a \in Actors : seen[a][a] = Len(log[a])
        BY <2>1, HistoryTypes DEF Histories
    <2> QED BY <2>2, <2>3 DEF TypeOK
<1> QED BY <1>3, <1>4, CRDTsInvariant, PTL
=============================================================================
