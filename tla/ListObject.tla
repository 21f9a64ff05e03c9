----------------------------- MODULE ListObject -----------------------------
(***************************************************************************)
(* The list object: a zip list that becomes a linked list when it is long, *)
(* or is given a long item, and stays one.                                 *)
(***************************************************************************)
EXTENDS LinkedList, ZipList

CONSTANTS
    NoItem,
    MaxItems    \* bound: items of the list

VARIABLES
    list,       \* its encoding, and the list of that encoding
    got         \* the call just made with its answer, an item and how many it
                \* set or removed, until the caller takes it

listVars == <<list, got>>

Got(call, item, count) == [call |-> call, item |-> item, count |-> count]
Nothing(call) == Got(call, NoItem, 0)
Quiet == Nothing([op |-> "none"])
Wheres == {"head", "tail"}

IsZip == list.enc = "ziplist"
OfZip(z) == [enc |-> "ziplist", body |-> z]
OfLinked(l) == [enc |-> "linkedlist", body |-> Numbered(l)]

(* The items as an iteration meets them *)
ItemsOf(l) ==
    IF l.enc = "ziplist" THEN ItemsAt(l.body, Forward(l.body)) ELSE LinkedItems(l.body)

(* create_zip_list_object and create_list_object *)
ListInit == list \in {OfZip(ZipNew), OfLinked(LinkedNew)} /\ got = Quiet

PushedAt(l, w, x) == IF w = "head" THEN PushFront(l, x) ELSE PushBack(l, x)

CanUpgrade(x) == BytesOf[x] > UpgradeSize \/ list.body.len = UpgradeLen

(* list_upgrade_push reads the zip list backwards. *)
Upgraded(z) == FoldLeft(PushFront, LinkedNew, ItemsAt(z, Backward(z)))

ListPush(w, x) ==
    /\ list.body.len < MaxItems
    /\ got' = Nothing([op |-> "push", where |-> w, item |-> x])
    /\ list' =
        IF ~IsZip THEN OfLinked(PushedAt(list.body, w, x))
        ELSE IF CanUpgrade(x) THEN OfLinked(PushedAt(Upgraded(list.body), w, x))
        ELSE OfZip(ZipInsert(list.body, IF w = "head" THEN 0 ELSE list.body.end, x))

ListPop(w) ==
    LET body == list.body
        off == IF w = "head" THEN 0 ELSE body.tail
        node == IF w = "head" THEN body.head ELSE body.tail
        call == [op |-> "pop", where |-> w]
    IN IF IsZip
       THEN IF off = body.end THEN got' = Nothing(call) /\ UNCHANGED list
            ELSE /\ got' = Got(call, body.at[off].value, 0)
                 /\ list' = OfZip(ZipDelete(body, off, 1))
       ELSE IF node = NoNode THEN got' = Nothing(call) /\ UNCHANGED list
            ELSE /\ got' = Got(call, body.nodes[node].element, 0)
                 /\ list' = OfLinked(Unlinked(body, node))

ListIndex(i) ==
    LET call == [op |-> "index", at |-> i] IN
    /\ got' = IF list.body.len <= i THEN Nothing(call) ELSE Got(call, ItemsOf(list)[i + 1], 0)
    /\ UNCHANGED list

(* zip_list_set deletes and inserts in the same place, and does not ask
   whether the item is long: the model gives it short ones. *)
ZipSet(z, i, x) ==
    LET off == FoldLeft(LAMBDA o, k : MoveNext(z, o), 0, [k \in 1..i |-> k])
    IN ZipInsert(ZipDelete(z, off, 1), off, x)

ListSet(i, x) ==
    LET call == [op |-> "set", at |-> i, item |-> x] IN
    /\ IsZip => Short(x)
    /\ IF list.body.len <= i THEN got' = Nothing(call) /\ UNCHANGED list
       ELSE /\ got' = Got(call, NoItem, 1)
            /\ list' = IF IsZip THEN OfZip(ZipSet(list.body, i, x))
                       ELSE OfLinked(SetOff(list.body, i, x))

(* Mutant: one item too many is taken from the tail. *)
ZipTrimOneMore(z, first, last) ==
    LET kept == FoldLeft(LAMBDA y, i : ZipDelete(y, y.tail, 1), z, [i \in 1..(z.len - last) |-> i])
    IN ZipDelete(kept, 0, first)

ZipTrim(z, first, last) ==
    LET kept == FoldLeft(LAMBDA y, i : ZipDelete(y, y.tail, 1), z, [i \in 1..(z.len - last - 1) |-> i])
    IN ZipDelete(kept, 0, first)

(* For a range of the list or an empty one: of the others one encoding stops
   at an assertion, and so does the other. *)
ListTrim(first, last) ==
    /\ first > last \/ last < list.body.len
    /\ got' = Nothing([op |-> "trim", first |-> first, last |-> last])
    /\ list' =
        CASE IsZip /\ first > last -> OfZip(ZipNew)
          [] IsZip /\ first <= last -> OfZip(ZipTrim(list.body, first, last))
          [] ~IsZip /\ first > last -> OfLinked(LinkedNew)
          [] OTHER -> OfLinked(SplitOff(SplitOff(list.body, last + 1)[1], first)[2])

(* delete_first_n_filter: what is deleted brings the next one to its place. *)
ZipDeleteFirstN(z, n, x) ==
    LET turn(s, i) ==
            CASE s.n = 0 \/ s.off = s.z.end -> s
              [] s.n > 0 /\ s.off # s.z.end /\ s.z.at[s.off].value = x ->
                    [s EXCEPT !.z = ZipDelete(s.z, s.off, 1), !.n = @ - 1]
              [] OTHER -> [s EXCEPT !.off = MoveNext(s.z, @)]
    IN FoldLeft(turn, [z |-> z, off |-> 0, n |-> n], [i \in 1..z.len |-> i]).z

(* delete_last_n_filter: after a deletion it looks again at the one behind, or
   at the new tail. *)
ZipDeleteLastN(z, n, x) ==
    LET turn(s, i) ==
            LET y == ZipDelete(s.z, s.off, 1)
                off == IF s.off = y.end THEN y.tail ELSE s.off
            IN CASE s.n = 0 \/ s.over -> s
                 [] s.n > 0 /\ ~s.over /\ s.z.at[s.off].value = x ->
                       [z |-> y, off |-> off, n |-> s.n - 1, over |-> s.off = 0]
                 [] OTHER ->
                       [s EXCEPT !.off = IF s.off = 0 THEN 0 ELSE MovePrev(s.z, s.off),
                                 !.over = s.off = 0]
    IN FoldLeft(turn, [z |-> z, off |-> z.tail, n |-> n, over |-> FALSE], [i \in 1..(2 * z.len) |-> i]).z

(* For n > 0: where the code finds an item and n is 0, n - 1 has no value. *)
ListDelN(w, n, x) ==
    LET body == list.body
        left == IF IsZip THEN OfZip(IF w = "head" THEN ZipDeleteFirstN(body, n, x)
                                  ELSE ZipDeleteLastN(body, n, x))
                ELSE OfLinked(IF w = "head" THEN DeleteFirstN(body, n, x) ELSE DeleteLastN(body, n, x))
        call == [op |-> "delete", where |-> w, count |-> n, item |-> x]
    IN IF body.len = 0 THEN got' = Nothing(call) /\ UNCHANGED list
       ELSE got' = Got(call, NoItem, body.len - left.body.len) /\ list' = left

(* The caller takes the answer, and is ready for the next call. *)
ListAnswered ==
    /\ got # Quiet
    /\ got' = Quiet
    /\ UNCHANGED list

ListNext ==
    \/ /\ got = Quiet
       /\ \/ \E w \in Wheres :
                \/ ListPop(w)
                \/ \E x \in Items : ListPush(w, x) \/ \E n \in 1..MaxItems : ListDelN(w, n, x)
          \/ \E i \in 0..MaxItems :
                \/ ListIndex(i)
                \/ \E x \in Items : ListSet(i, x)
                \/ \E last \in 0..MaxItems : ListTrim(i, last)
    \/ ListAnswered

ListSpec == ListInit /\ [][ListNext]_listVars

-----------------------------------------------------------------------------
(* Whatever its encoding, and whatever was pushed, popped, set, trimmed and
   deleted before, a list object is a sequence: each call, with its ends,
   positions, numbers and items, changes it and answers as that call on a plain
   one. *)
Plain == INSTANCE PlainList WITH Places <- 0..MaxItems, items <- ItemsOf(list)

IsList == Plain!Spec
=============================================================================
