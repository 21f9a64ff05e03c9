----------------------------- MODULE PlainList -----------------------------
(* What a list object promises: a sequence with calls at both ends.  A call
   and its answer are one step; the caller then takes the answer. *)
EXTENDS Integers, Sequences, SequencesExt, FiniteSetsExt

CONSTANTS
    Items,
    NoItem,
    Places      \* bound: the positions and numbers that calls name

VARIABLES
    items,
    got     \* the call just made with its answer, an item and how many it set
            \* or removed, until that is taken

Got(call, item, count) == [call |-> call, item |-> item, count |-> count]
Nothing(call) == Got(call, NoItem, 0)
Silence == Nothing([op |-> "none"])
Wheres == {"head", "tail"}

Init == items = << >> /\ got = Silence

Push(w, x) ==
    /\ got' = Nothing([op |-> "push", where |-> w, item |-> x])
    /\ items' = IF w = "head" THEN <<x>> \o items ELSE Append(items, x)

Pop(w) ==
    LET call == [op |-> "pop", where |-> w] IN
    IF items = << >> THEN got' = Nothing(call) /\ UNCHANGED items
    ELSE /\ got' = Got(call, IF w = "head" THEN Head(items) ELSE Last(items), 0)
         /\ items' = IF w = "head" THEN Tail(items) ELSE Front(items)

Index(i) ==
    LET call == [op |-> "index", at |-> i] IN
    /\ got' = IF i < Len(items) THEN Got(call, items[i + 1], 0) ELSE Nothing(call)
    /\ UNCHANGED items

Set(i, x) ==
    LET call == [op |-> "set", at |-> i, item |-> x] IN
    IF i < Len(items) THEN got' = Got(call, NoItem, 1) /\ items' = [items EXCEPT ![i + 1] = x]
    ELSE got' = Nothing(call) /\ UNCHANGED items

Trim(first, last) ==
    /\ first > last \/ last < Len(items)
    /\ got' = Nothing([op |-> "trim", first |-> first, last |-> last])
    /\ items' = SubSeq(items, first + 1, last + 1)

(* Of the positions that hold x, the n nearest to the end `w` *)
Nearest(w, n, x) ==
    {i \in DOMAIN items :
        /\ items[i] = x
        /\ Quantify(DOMAIN items, LAMBDA j : items[j] = x /\ IF w = "head" THEN j < i ELSE j > i) < n}

DelN(w, n, x) ==
    LET gone == Nearest(w, n, x) IN
    /\ got' = Got([op |-> "delete", where |-> w, count |-> n, item |-> x], NoItem, Cardinality(gone))
    /\ items' = [k \in 1..(Len(items) - Cardinality(gone)) |->
                    items[CHOOSE i \in DOMAIN items \ gone :
                             Cardinality((1..i) \ gone) = k]]

TakeAnswer == got # Silence /\ got' = Silence /\ UNCHANGED items

Next ==
    \/ /\ got = Silence
       /\ \/ \E w \in Wheres :
                \/ Pop(w)
                \/ \E x \in Items : Push(w, x) \/ \E n \in Places \ {0} : DelN(w, n, x)
          \/ \E i \in Places :
                \/ Index(i)
                \/ \E x \in Items : Set(i, x)
                \/ \E last \in Places : Trim(i, last)
    \/ TakeAnswer

Spec == Init /\ [][Next]_<<items, got>>
=============================================================================
