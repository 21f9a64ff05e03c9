----------------------------- MODULE Containers -----------------------------
(***************************************************************************)
(* The containers of ordered elements, each used by one thread at a time:  *)
(* the bin of the map, whose callers hold its locks, the set of integers,  *)
(* the skip list and the set object.  The calls come in any order.         *)
(***************************************************************************)
EXTENDS RedBlackTree, SkipList, SetObject

CONSTANT IntValuesUsed  \* values of every width

VARIABLES
    kind,
    content,
    reply       \* the call just made and its answer, until the caller takes it

containersVars == <<kind, content, reply>>

Kinds == {"bin", "intset", "skiplist", "set"}

KindElements(k) ==
    CASE k = "bin"      -> TreeKeys
      [] k = "intset"   -> IntValuesUsed
      [] k = "skiplist" -> ListElements
      [] k = "set"      -> Keys

KindNews(k) ==
    CASE k = "bin"      -> {TableNew}
      [] k = "intset"   -> {IntSetNew}
      [] k = "skiplist" -> {SkipNew}
      [] k = "set"      -> SetNews

(* The elements as an iteration meets them *)
KindHolds(k, c) ==
    CASE k = "bin"      -> UNION {BinKeys(c[i]) : i \in DOMAIN c}
      [] k = "intset"   -> Range(IntValues(c))
      [] k = "skiplist" -> Range(Tail(Chain(c, Header, 1)))
      [] k = "set"      -> SetMembers(c)

(* A search of the container *)
KindHas(k, c, x) ==
    CASE k = "bin"      -> BinHas(c[BinPlace(c, x)], x)
      [] k = "intset"   -> IntHas(c, x)
      [] k = "skiplist" -> c.next[Descent(c, {n \in ListElements : n < x})[1].node][1] = x
      [] k = "set"      -> SetExists(c, x)

(* What an addition may leave: the order of a list that becomes a tree and
   the level of a new node are not the caller's. *)
KindAdds(k, c, x) ==
    CASE k = "bin"      -> {[c EXCEPT ![BinPlace(c, x)] = b] : b \in BinPuts(c[BinPlace(c, x)], x)}
      [] k = "intset"   -> {IntAdd(c, x)}
      [] k = "skiplist" -> {SkipInsert(c, x, level) : level \in Levels}
      [] k = "set"      -> {SetAdd(c, x)}

KindRemove(k, c, x) ==
    CASE k = "bin"      -> [c EXCEPT ![BinPlace(c, x)] = BinRemove(@, x)]
      [] k = "intset"   -> IntRemove(c, x)
      [] k = "skiplist" -> SkipDelete(c, x)
      [] k = "set"      -> SetDelete(c, x)

Reply(call, changed, first, last) ==
    [call |-> call, changed |-> changed, first |-> first, last |-> last]
Silent == Reply([op |-> "none"], FALSE, None, None)

ContainersInit ==
    /\ kind \in Kinds
    /\ content \in KindNews(kind)
    /\ reply = Silent

(* A sorted set does not insert an element it has. *)
AddElement(x) ==
    /\ kind = "skiplist" => ~KindHas(kind, content, x)
    /\ content' \in KindAdds(kind, content, x)
    /\ reply' = Reply([op |-> "add", element |-> x], ~KindHas(kind, content, x), None, None)
    /\ UNCHANGED kind

DeleteElement(x) ==
    /\ content' = KindRemove(kind, content, x)
    /\ reply' = Reply([op |-> "remove", element |-> x], KindHas(kind, content, x), None, None)
    /\ UNCHANGED kind

PopRandom(x) ==
    /\ kind = "set" /\ x \in SetRandom(content)
    /\ content' = SetDelete(content, x)
    /\ reply' = Reply([op |-> "pop"], TRUE, x, x)
    /\ UNCHANGED kind

ScoreRanges ==
    LET scores == {Score[n] : n \in ListElements}
    IN [min : scores, max : scores, minex : BOOLEAN, maxex : BOOLEAN]

(* first_in_range and last_in_range *)
AskRange(r) ==
    /\ kind = "skiplist"
    /\ reply' = Reply([op |-> "ends", range |-> r], FALSE,
                      FirstInRange(content, r), LastInRange(content, r))
    /\ UNCHANGED <<kind, content>>

(* The table grows and its bin moves. *)
Grow ==
    /\ kind = "bin" /\ Len(content) = 1
    /\ content' \in Transfers(content[1])
    /\ UNCHANGED <<kind, reply>>

(* The caller takes the answer, and is ready for the next call. *)
Answered ==
    /\ reply # Silent
    /\ reply' = Silent
    /\ UNCHANGED <<kind, content>>

ContainersNext ==
    \/ /\ reply = Silent
       /\ \/ Grow
          \/ \E x \in KindElements(kind) : AddElement(x) \/ DeleteElement(x) \/ PopRandom(x)
          \/ \E r \in ScoreRanges : AskRange(r)
    \/ Answered

ContainersSpec == ContainersInit /\ [][ContainersNext]_containersVars

-----------------------------------------------------------------------------
(* The tree of a bin is a search tree whose paths have equally many black
   nodes and no two red ones in a row, whatever was put and removed
   (check_invariants, node.rs). *)
TreeIsRedBlack == kind = "bin" => \A i \in DOMAIN content : IsRedBlack(content[i].tree)

(* The values of an int set ascend and fit the width it declares: widening
   them in place loses none, and what the search relies on holds. *)
IntsAscend ==
    kind = "intset" =>
        LET values == IntValues(content) IN
        /\ Len(content.bytes) = Len(values) * content.enc
        /\ \A i, j \in DOMAIN values : i < j => values[i] < values[j]

(* Every level of a skip list is the sublist of the nodes that high, every
   span the number of steps it saves, the last one of a level the number of
   nodes that follow, and the list reads the same from the tail. *)
SpansAgree ==
    kind = "skiplist" =>
        LET list == Tail(Chain(content, Header, 1))
            place(n) == IF n = Header THEN 0 ELSE CHOOSE p \in DOMAIN list : list[p] = n
        IN /\ content.length = Len(list)
           /\ content.tail = IF list = <<>> THEN None ELSE Last(list)
           /\ \A p \in DOMAIN list : content.back[list[p]] = IF p = 1 THEN None ELSE list[p - 1]
           /\ content.level = Max({1} \cup {content.height[n] : n \in Range(list)})
           /\ \A i \in 1..content.level :
                 LET level == Chain(content, Header, i) IN
                 /\ Tail(level) = SelectSeq(list, LAMBDA n : content.height[n] >= i)
                 /\ \A p \in DOMAIN level :
                       content.span[level[p]][i] =
                           (IF p = Len(level) THEN Len(list) ELSE place(level[p + 1])) - place(level[p])

DictsSound == kind = "set" /\ content.enc = "ht" => DictSound(content.body)

(* What the searches rely on holds for the container in use: its tree is
   red-black, its integers ascend, its spans agree with its list, its entries
   are in their buckets, whatever was added and removed before. *)
ContainerSound == TreeIsRedBlack /\ IntsAscend /\ SpansAgree /\ DictsSound

(* A search finds what the container holds and nothing else, whatever the
   shape that the calls have left. *)
SearchesFind ==
    LET holds == KindHolds(kind, content) IN
    \A x \in KindElements(kind) : KindHas(kind, content, x) <=> x \in holds

AllElements == TreeKeys \cup IntValuesUsed \cup ListElements \cup Keys

(* The elements a range of scores asks for *)
Within(r) ==
    {n \in ListElements :
        /\ r.min < Score[n] \/ (r.min = Score[n] /\ ~r.minex)
        /\ Score[n] < r.max \/ (Score[n] = r.max /\ ~r.maxex)}

ReplySeen ==
    IF reply.call.op = "ends" THEN [reply EXCEPT !.call.range = Within(@)] ELSE reply

(* Whatever a container does inside, it is the set of what was added and not
   removed: each call adds or removes its own element and no other and says
   whether that changed the set, and each range of scores is answered by its
   own first and last element. *)
Abstract == INSTANCE SortedSet WITH
    Elements <- AllElements,
    Ranges <- {Within(r) : r \in ScoreRanges},
    NoElement <- None,
    held <- KindHolds(kind, content),
    answer <- ReplySeen

IsSortedSet == Abstract!Spec
=============================================================================
