------------------------------ MODULE ListCRDT ------------------------------
(***************************************************************************)
(* The lists: elements ordered by identifiers, which are paths of          *)
(* rationals and markers.  The markers of a List are dots, those of a      *)
(* GList its values.  An element is its identifier.  Rationals are counted *)
(* in units of 1 / Unit, which is fine enough for the halvings of as many  *)
(* insertions as there are.                                                *)
(***************************************************************************)
EXTENDS VClock, Integers, Sequences, SequencesExt

CONSTANTS
    Unit,
    ListValues      \* what a GList holds: numbers

None == <<>>

(* A marker is a tuple of numbers: <<actor, counter>> of a dot, <<value>>. *)
Marker(dot) == <<dot.actor, dot.counter>>

MarkBefore(x, y) ==
    \E i \in DOMAIN x : x[i] < y[i] /\ \A j \in 1..(i - 1) : x[j] = y[j]

(* The derived order of Vec<(BigRational, T)> *)
IdBefore(x, y) ==
    \E i \in 1..Len(y) :
        /\ \A j \in 1..(i - 1) : j <= Len(x) /\ x[j] = y[j]
        /\ \/ i = Len(x) + 1
           \/ /\ i <= Len(x)
              /\ \/ x[i].at < y[i].at
                 \/ /\ x[i].at = y[i].at
                    /\ MarkBefore(x[i].mark, y[i].mark)

(* The length of the path that low and high share, markers apart *)
Shared(low, high) ==
    CHOOSE k \in 0..Len(low) :
        /\ k <= Len(high)
        /\ \A i \in 1..k : low[i].at = high[i].at
        /\ k \in {Len(low), Len(high)} \/ low[k + 1].at # high[k + 1].at

(* Identifier::between *)
Between(low, high, mark) ==
    IF low # None /\ high # None
    THEN LET k == Shared(low, high)
             at == IF k < Len(low) /\ k < Len(high)
                   THEN (low[k + 1].at + high[k + 1].at) \div 2
                   ELSE 0
         IN SubSeq(low, 1, k) \o <<[at |-> at, mark |-> mark]>>
    ELSE <<[at |-> CASE low # None  -> low[1].at + Unit
                     [] high # None -> high[1].at - Unit
                     [] OTHER       -> 0,
            mark |-> mark]>>

ListNew == [seq |-> {}, clock |-> NoClock]

InOrder(ids) == SetToSortSeq(ids, IdBefore)

OpDot(op) ==
    IF op.type = "insert"
    THEN LET mark == Last(op.id).mark IN [actor |-> mark[1], counter |-> mark[2]]
    ELSE op.dot

ListApply(s, op) ==
    IF OpDot(op).counter <= s.clock[OpDot(op).actor]
    THEN s
    ELSE [seq |-> IF op.type = "insert" THEN s.seq \cup {op.id} ELSE s.seq \ {op.id},
          clock |-> ClockApply(s.clock, OpDot(op))]

(* insert_index, which takes 0 for the front; delete_index *)
ListOps(s, a) ==
    LET keys == InOrder(s.seq)
        dot == Inc(s.clock, a)
        At(i) == IF i \in DOMAIN keys THEN keys[i] ELSE None
    IN {[type |-> "insert", id |-> Between(At(ix), At(ix + 1), Marker(dot))] : ix \in 0..Len(keys)}
           \cup [type : {"delete"}, id : s.seq, dot : {dot}]

ListMeaning(ops) ==
    {op.id : op \in {x \in ops : x.type = "insert"}}
        \ {op.id : op \in {x \in ops : x.type = "delete"}}

-----------------------------------------------------------------------------
(* A GList is the set of its identifiers: an insertion that finds the same gap
   with the same value names the same element. *)
GListNew == {}
GListApply(s, id) == s \cup {id}
GListMerge(s, o) == s \cup o

(* insert_before and insert_after a given identifier take the gap beside it;
   without one they know no bound at all. *)
GListOps(s) ==
    LET keys == InOrder(s)
        At(i) == IF i \in DOMAIN keys THEN keys[i] ELSE None
        Gaps == {<<None, None>>} \cup UNION {{<<At(i - 1), At(i)>>, <<At(i), At(i + 1)>>} : i \in DOMAIN keys}
    IN {Between(gap[1], gap[2], <<value>>) : gap \in Gaps, value \in ListValues}
=============================================================================
