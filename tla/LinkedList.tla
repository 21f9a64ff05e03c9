----------------------------- MODULE LinkedList -----------------------------
(***************************************************************************)
(* The doubly linked list: nodes with pointers to both neighbours, the     *)
(* ends and a count.  A pointer is a number, 0 where the code has None;    *)
(* nodes maps those in use to what they point to, so that following a      *)
(* pointer to a node that was freed has no value.                          *)
(***************************************************************************)
EXTENDS Integers, Sequences, SequencesExt, FiniteSetsExt, Functions, TLC

NoNode == 0
LinkedNew == [head |-> NoNode, tail |-> NoNode, len |-> 0, nodes |-> << >>]

Unused(l) == Min(1..(Cardinality(DOMAIN l.nodes) + 1) \ DOMAIN l.nodes)

(* The node n steps from p by the pointers "next" or "prev" *)
Stepped(l, p, pointer, n) ==
    FoldLeft(LAMBDA q, i : l.nodes[q][pointer], p, [i \in 1..n |-> i])

(* The nodes an iteration meets *)
Met(l) == [i \in 1..l.len |-> Stepped(l, l.head, "next", i - 1)]

(* Where a node is in memory does not matter: it gets the number of its place. *)
Numbered(l) ==
    LET met == Met(l)
        number(p) == IF p = NoNode THEN NoNode ELSE CHOOSE i \in 1..l.len : met[i] = p
    IN [head |-> number(l.head), tail |-> number(l.tail), len |-> l.len,
        nodes |-> [i \in 1..l.len |-> [next |-> number(l.nodes[met[i]].next),
                                       prev |-> number(l.nodes[met[i]].prev),
                                       element |-> l.nodes[met[i]].element]]]

PushFront(l, e) ==
    LET p == Unused(l)
        node == p :> [next |-> l.head, prev |-> NoNode, element |-> e]
    IN [head |-> p, tail |-> IF l.head = NoNode THEN p ELSE l.tail, len |-> l.len + 1,
        nodes |-> node @@ [q \in DOMAIN l.nodes |->
                              IF q = l.head THEN [l.nodes[q] EXCEPT !.prev = p] ELSE l.nodes[q]]]

PushBack(l, e) ==
    LET p == Unused(l)
        node == p :> [next |-> NoNode, prev |-> l.tail, element |-> e]
    IN [head |-> IF l.tail = NoNode THEN p ELSE l.head, tail |-> p, len |-> l.len + 1,
        nodes |-> node @@ [q \in DOMAIN l.nodes |->
                              IF q = l.tail THEN [l.nodes[q] EXCEPT !.next = p] ELSE l.nodes[q]]]

(* unlink_node, after which the node is freed; pop_front_node and
   pop_back_node do the same to an end *)
Unlinked(l, p) ==
    LET next == l.nodes[p].next
        prev == l.nodes[p].prev
        relink(q) == [l.nodes[q] EXCEPT !.next = IF q = prev THEN next ELSE @,
                                        !.prev = IF q = next THEN prev ELSE @]
    IN [head |-> IF prev = NoNode THEN next ELSE l.head,
        tail |-> IF next = NoNode THEN prev ELSE l.tail,
        len |-> l.len - 1,
        nodes |-> [q \in DOMAIN l.nodes \ {p} |-> relink(q)]]

(* index_off, from the nearer end *)
IndexOff(l, i) ==
    IF i < l.len - i THEN Stepped(l, l.head, "next", i)
    ELSE Stepped(l, l.tail, "prev", l.len - 1 - i)

SetOff(l, i, e) == [l EXCEPT !.nodes[IndexOff(l, i)].element = e]

(* split_off: the two lists, for 0 <= i <= l.len *)
SplitOff(l, i) ==
    LET last == IndexOff(l, i - 1)      \* of the first list
        first == l.nodes[last].next     \* of the second
        behind == {Stepped(l, first, "next", k) : k \in 0..(l.len - i - 1)}
    IN CASE i = 0 -> <<LinkedNew, l>>
         [] i = l.len /\ i > 0 -> <<l, LinkedNew>>
         [] OTHER -> <<[head |-> l.head, tail |-> last, len |-> i,
                        nodes |-> [Restrict(l.nodes, DOMAIN l.nodes \ behind) EXCEPT ![last].next = NoNode]],
                       [head |-> first, tail |-> l.tail, len |-> l.len - i,
                        nodes |-> [Restrict(l.nodes, behind) EXCEPT ![first].prev = NoNode]]>>

(* delete_first_n_filter and delete_last_n_filter: one pass from an end along
   `pointer`, that frees the first n nodes with e.  A node is left by its own
   pointer, which unlinking does not change. *)
DeleteFilter(l, start, pointer, n, e) ==
    LET pass(s, i) ==
            IF s.at = NoNode \/ s.n = 0 THEN s
            ELSE LET node == s.list.nodes[s.at] IN
                 [at |-> node[pointer],
                  n |-> IF node.element = e THEN s.n - 1 ELSE s.n,
                  list |-> IF node.element = e THEN Unlinked(s.list, s.at) ELSE s.list]
    IN FoldLeft(pass, [at |-> start, n |-> n, list |-> l], Met(l)).list

DeleteFirstN(l, n, e) == DeleteFilter(l, l.head, "next", n, e)
DeleteLastN(l, n, e) == DeleteFilter(l, l.tail, "prev", n, e)

LinkedItems(l) == [i \in 1..l.len |-> l.nodes[Met(l)[i]].element]
=============================================================================
