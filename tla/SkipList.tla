------------------------------ MODULE SkipList ------------------------------
(***************************************************************************)
(* The skip list of a sorted set.  A node is its element, numbered in the  *)
(* order of the list, by score and then by object; a level is a chain of   *)
(* nodes, and a span counts the nodes to the next one of the level.        *)
(***************************************************************************)
EXTENDS Integers, Sequences, FiniteSets, FiniteSetsExt

CONSTANTS
    ListElements,   \* positive numbers
    Score,          \* the score of each, which does not fall along the list
    MaxLevel,       \* SKIP_LIST_MAX_LEVEL, 32 in the program
    WordSize        \* the numbers of a usize, 2^64 in the program

ASSUME SkipListAssumption ==
    /\ ListElements \subseteq Nat \ {0}
    /\ \A m, n \in ListElements : m <= n => Score[m] <= Score[n]
    /\ MaxLevel \in Nat \ {0}
    /\ WordSize \in Nat /\ Cardinality(ListElements) < WordSize

Header == 0
None == -1
Levels == 1..MaxLevel

SkipNew ==
    [next   |-> [n \in ListElements \cup {Header} |-> [i \in Levels |-> None]],
     span   |-> [n \in ListElements \cup {Header} |-> [i \in Levels |-> 0]],
     height |-> [n \in ListElements |-> 0],
     back   |-> [n \in ListElements |-> None],
     tail   |-> None,
     level  |-> 1,
     length |-> 0]

(* A usize wraps in a build without overflow checks; with them the
   subtraction stops the thread. *)
Plus(a, b) == (a + b) % WordSize
Minus(a, b) == (a + WordSize - b) % WordSize

(* From x along level i while the next node is one of passed: the last node
   and the spans gone over *)
RECURSIVE Walk(_, _, _, _)
Walk(s, x, i, passed) ==
    LET y == s.next[x][i]
        on == Walk(s, y, i, passed)
    IN IF y \in passed THEN [on EXCEPT !.rank = Plus(@, s.span[x][i])] ELSE [node |-> x, rank |-> 0]

(* The loops over the levels from the top, which go on where the level above
   stopped: update and rank *)
Descent(s, passed) ==
    LET walked[i \in 1..s.level] ==
            IF i = s.level THEN Walk(s, Header, i, passed)
            ELSE LET above == walked[i + 1]
                     here == Walk(s, above.node, i, passed)
                 IN [here EXCEPT !.rank = Plus(@, above.rank)]
    IN walked

-----------------------------------------------------------------------------
(* insert, with the level that random_level has drawn.  A level that was not
   in use begins at the header and spans the whole list. *)
SkipInsert(s, x, level) ==
    LET walked == Descent(s, {n \in ListElements : n < x})
        top == Max({level, s.level})
        update(i) == IF i <= s.level THEN walked[i].node ELSE Header
        rank(i) == IF i <= s.level THEN walked[i].rank ELSE 0
        span(i) == IF i <= s.level THEN s.span[update(i)][i] ELSE s.length
        gone(i) == Minus(rank(1), rank(i))
        after == s.next[update(1)][1]
        prev == IF update(1) = Header THEN None ELSE update(1)
    IN [next   |-> [n \in DOMAIN s.next |-> [i \in Levels |->
                       IF i <= level /\ n = x THEN s.next[update(i)][i]
                       ELSE IF i <= level /\ n = update(i) THEN x
                       ELSE s.next[n][i]]],
        span   |-> [n \in DOMAIN s.span |-> [i \in Levels |->
                       IF i <= level /\ n = x THEN Minus(span(i), gone(i))
                       ELSE IF i <= level /\ n = update(i) THEN Plus(gone(i), 1)
                       ELSE IF i <= top /\ n = update(i) THEN Plus(span(i), 1)
                       ELSE s.span[n][i]]],
        height |-> [s.height EXCEPT ![x] = level],
        back   |-> [n \in DOMAIN s.back |-> IF n = x THEN prev ELSE IF n = after THEN x ELSE s.back[n]],
        tail   |-> IF after = None THEN x ELSE s.tail,
        level  |-> top,
        length |-> s.length + 1]

(* The span of the node before x on a level of x, once x is gone.  At the end
   of a level the span of x is 0. *)
SpanOverUncounted(s, n, i, x) == Plus(s.span[n][i], s.span[x][i])     \* mutant
SpanOver(s, n, i, x) == Plus(s.span[n][i], Minus(s.span[x][i], 1))

(* delete_node: x is freed, and the levels that have become empty are given
   up from the top. *)
DeleteNode(s, x, walked) ==
    LET before(n, i) == i <= s.level /\ n = walked[i].node
        after == s.next[x][1]
        unlinked == [n \in DOMAIN s.next |-> [i \in Levels |->
                        IF n = x THEN None
                        ELSE IF before(n, i) /\ s.next[n][i] = x THEN s.next[x][i]
                        ELSE s.next[n][i]]]
        used == {i \in 2..s.level : unlinked[Header][i] # None}
    IN [next   |-> unlinked,
        span   |-> [n \in DOMAIN s.span |-> [i \in Levels |->
                       IF n = x THEN 0
                       ELSE IF before(n, i) /\ s.next[n][i] = x THEN SpanOver(s, n, i, x)
                       ELSE IF before(n, i) THEN Minus(s.span[n][i], 1)
                       ELSE s.span[n][i]]],
        height |-> [s.height EXCEPT ![x] = 0],
        back   |-> [n \in DOMAIN s.back |-> IF n = x THEN None ELSE IF n = after THEN s.back[x] ELSE s.back[n]],
        tail   |-> IF after = None THEN s.back[x] ELSE s.tail,
        level  |-> Max(used \cup {1}),
        length |-> s.length - 1]

(* Mutant: the score alone decides. *)
SkipDeleteByScore(s, x) ==
    LET walked == Descent(s, {n \in ListElements : n < x})
        y == s.next[walked[1].node][1]
    IN IF y # None /\ Score[y] = Score[x] THEN DeleteNode(s, y, walked) ELSE s

SkipDelete(s, x) ==
    LET walked == Descent(s, {n \in ListElements : n < x})
    IN IF s.next[walked[1].node][1] = x THEN DeleteNode(s, x, walked) ELSE s

-----------------------------------------------------------------------------
(* RangeSpec: value_gte_min and value_lte_max *)
GteMin(n, r) == IF r.minex THEN Score[n] > r.min ELSE Score[n] >= r.min
LteMax(n, r) == IF r.maxex THEN Score[n] < r.max ELSE Score[n] <= r.max

IsInRange(s, r) ==
    /\ r.min <= r.max
    /\ r.min = r.max => ~r.minex /\ ~r.maxex
    /\ s.tail # None /\ GteMin(s.tail, r)
    /\ LteMax(s.next[Header][1], r)

FirstInRange(s, r) ==
    LET first == s.next[Descent(s, {n \in ListElements : ~GteMin(n, r)})[1].node][1]
    IN IF IsInRange(s, r) /\ LteMax(first, r) THEN first ELSE None

LastInRange(s, r) ==
    LET last == Descent(s, {n \in ListElements : LteMax(n, r)})[1].node
    IN IF IsInRange(s, r) /\ GteMin(last, r) THEN last ELSE None

(* The nodes of a level, from the header on *)
RECURSIVE Chain(_, _, _)
Chain(s, x, i) == IF x = None THEN <<>> ELSE <<x>> \o Chain(s, s.next[x][i], i)
=============================================================================
