---------------------------- MODULE RedBlackTree ----------------------------
(***************************************************************************)
(* A bin of the map, and the two it moves to, as one thread sees it that holds the locks (TreeBin    *)
(* models the locks): a list, or a red-black tree of its keys.  A node is  *)
(* its key.  What the code writes twice, once for each side, is written    *)
(* once here, for side d and the side Other(d).                            *)
(***************************************************************************)
EXTENDS Integers, Sequences, FiniteSets, FiniteSetsExt

CONSTANTS
    TreeKeys,   \* positive numbers; their order is that of the keys
    TreeHash,   \* the hash of each key
    TreeifyAt,  \* TREEIFY_THRESHOLD, 8 in the program
    UntreeifyAt \* UNTREEIFY_THRESHOLD, 6 in the program

ASSUME TreeAssumption ==
    /\ TreeKeys \subseteq Nat \ {0}
    /\ TreeHash \in [TreeKeys -> Nat]
    /\ TreeifyAt \in Nat \ {0}
    /\ UntreeifyAt \in Nat

Null == 0
Sides == {"left", "right"}
Other(d) == IF d = "left" THEN "right" ELSE "left"
NoLinks == [d \in Sides |-> Null]

NoTree ==
    [root   |-> Null,
     child  |-> [k \in TreeKeys |-> NoLinks],
     parent |-> [k \in TreeKeys |-> Null],
     red    |-> [k \in TreeKeys |-> FALSE]]

(* The order of the tree: by hash, then by key *)
Before(j, k) == TreeHash[j] < TreeHash[k] \/ (TreeHash[j] = TreeHash[k] /\ j < k)
Toward(k, p) == IF Before(k, p) THEN "left" ELSE "right"

(* Reads and writes that a null pointer passes by *)
IsRed(t, n) == n # Null /\ t.red[n]
Up(t, n) == IF n = Null THEN Null ELSE t.parent[n]
Down(t, n, d) == IF n = Null THEN Null ELSE t.child[n][d]
Paint(t, n, red) == IF n = Null THEN t ELSE [t EXCEPT !.red[n] = red]
Hang(t, n, p) == IF n = Null THEN t ELSE [t EXCEPT !.parent[n] = p]

(* The side of p on which n is, and m put in its place there or at the root *)
SideOf(t, p, n) == IF t.child[p]["left"] = n THEN "left" ELSE "right"
InPlaceOf(t, p, n, m) ==
    IF p = Null THEN [t EXCEPT !.root = m] ELSE [t EXCEPT !.child[p][SideOf(t, p, n)] = m]

-----------------------------------------------------------------------------
(* n takes the place of p, its parent on the side other than d: the half of a
   rotation that links n, and at the root blackens it. *)
Raised(t, n, p, top) ==
    IF top = Null
    THEN [t EXCEPT !.root = n, !.parent[n] = Null, !.red[n] = FALSE]
    ELSE InPlaceOf([t EXCEPT !.parent[n] = top], top, p, n)

(* rotate_left is Rotate to the left, rotate_right to the right: the child of
   p on the other side goes up into its place. *)
Rotate(t, p, d) ==
    LET n == Down(t, p, Other(d))
        inner == t.child[n][d]
        moved == Hang([t EXCEPT !.child[p][Other(d)] = inner], inner, p)
    IN IF n = Null THEN t
       ELSE [Raised(moved, n, p, t.parent[p]) EXCEPT !.child[n][d] = p, !.parent[p] = n]

(* The loop of balance_insertion: x is red, and its parent may be too.  If x
   is between its parent and its grandparent it is first turned out. *)
RECURSIVE InsertLoop(_, _)
InsertUp(t, x, d) ==
    LET p == t.parent[x]
        g == Up(t, p)
    IN Rotate(Paint(Paint(t, p, FALSE), g, TRUE), g, Other(d))

InsertLoop(t, x) ==
    LET p == t.parent[x]
        g == t.parent[p]
        d == SideOf(t, g, p)
        uncle == t.child[g][Other(d)]
    IN IF p = Null THEN [Paint(t, x, FALSE) EXCEPT !.root = x]
       ELSE IF ~t.red[p] \/ g = Null THEN t
       ELSE IF IsRed(t, uncle)
       THEN InsertLoop(Paint(Paint(Paint(t, uncle, FALSE), p, FALSE), g, TRUE), g)
       ELSE IF x = t.child[p][Other(d)]
       THEN InsertLoop(InsertUp(Rotate(t, p, d), p, d), p)
       ELSE InsertLoop(InsertUp(t, x, d), x)

BalanceInsertion(t, x) == InsertLoop(Paint(t, x, TRUE), x)

(* balance_deletion: the paths through x are one black node short.  A red
   sibling of x is turned up; a black one without a red child pays with its
   colour and leaves the parent short; any other ends the loop. *)
RECURSIVE BalanceDeletion(_, _)
LastTurn(t, x, d) ==
    LET p == t.parent[x]
        s == Down(t, p, Other(d))
        even == Paint(Paint(t, s, IsRed(t, p)), Down(t, s, Other(d)), FALSE)
    IN Rotate(Paint(even, p, FALSE), p, d)

(* Mutant: a black sibling whose red child is on the near side is not turned. *)
AskSiblingOnce(t, x, d) ==
    LET p == t.parent[x]
        s == Down(t, p, Other(d))
        near == t.child[s][d]
        far == t.child[s][Other(d)]
    IN IF s = Null THEN BalanceDeletion(t, p)
       ELSE IF ~IsRed(t, far) /\ ~IsRed(t, near) THEN BalanceDeletion(Paint(t, s, TRUE), p)
       ELSE LastTurn(t, x, d)

AskSibling(t, x, d) ==
    LET p == t.parent[x]
        s == Down(t, p, Other(d))
        near == t.child[s][d]
        far == t.child[s][Other(d)]
    IN IF s = Null THEN BalanceDeletion(t, p)
       ELSE IF ~IsRed(t, far) /\ ~IsRed(t, near) THEN BalanceDeletion(Paint(t, s, TRUE), p)
       ELSE IF IsRed(t, far) THEN LastTurn(t, x, d)
       ELSE LastTurn(Rotate(Paint(Paint(t, near, FALSE), s, TRUE), s, Other(d)), x, d)

BalanceDeletion(t, x) ==
    LET p == t.parent[x]
        d == SideOf(t, p, x)
        sibling == t.child[p][Other(d)]
    IN IF x = Null \/ x = t.root THEN t
       ELSE IF p = Null THEN [Paint(t, x, FALSE) EXCEPT !.root = x]
       ELSE IF t.red[x] THEN Paint(t, x, FALSE)
       ELSE IF IsRed(t, sibling)
       THEN AskSibling(Rotate(Paint(Paint(t, sibling, FALSE), p, TRUE), p, d), x, d)
       ELSE AskSibling(t, x, d)

-----------------------------------------------------------------------------
(* Mutant: keys with one hash are all looked for on the left. *)
RECURSIVE FindTreeNodeByHash(_, _, _)
FindTreeNodeByHash(t, p, k) ==
    IF p \in {Null, k} THEN p
    ELSE FindTreeNodeByHash(t, t.child[p][IF TreeHash[p] < TreeHash[k] THEN "right" ELSE "left"], k)

(* find_tree_node.  Below a node with the hash but another key it takes the
   only child there is, on whichever side. *)
RECURSIVE FindTreeNode(_, _, _)
FindTreeNode(t, p, k) ==
    LET l == t.child[p]["left"]
        r == t.child[p]["right"]
    IN IF p \in {Null, k} THEN p
       ELSE IF TreeHash[p] > TreeHash[k] THEN FindTreeNode(t, l, k)
       ELSE IF TreeHash[p] < TreeHash[k] THEN FindTreeNode(t, r, k)
       ELSE IF l = Null THEN FindTreeNode(t, r, k)
       ELSE IF r = Null THEN FindTreeNode(t, l, k)
       ELSE FindTreeNode(t, IF p > k THEN l ELSE r, k)

(* The descent to the node k, or to the one below which it belongs *)
RECURSIVE Descend(_, _, _)
Descend(t, p, k) ==
    IF p = k \/ t.child[p][Toward(k, p)] = Null THEN p ELSE Descend(t, t.child[p][Toward(k, p)], k)

(* find_or_put_tree_val *)
FindOrPut(t, k) ==
    LET p == Descend(t, t.root, k)
        linked == [t EXCEPT !.parent[k] = p, !.child[p][Toward(k, p)] = k]
    IN IF t.root = Null THEN [t EXCEPT !.root = k]
       ELSE IF p = k THEN t
       ELSE IF ~t.red[p] THEN Paint(linked, k, TRUE)
       ELSE BalanceInsertion(linked, k)

(* The nodes from n down *)
RECURSIVE Below(_, _)
Below(t, n) ==
    IF n = Null THEN {} ELSE {n} \cup Below(t, t.child[n]["left"]) \cup Below(t, t.child[n]["right"])

(* One turn of the loop of TreeBin::new, which always balances *)
AddNode(t, k) ==
    LET p == Descend(t, t.root, k)
    IN IF t.root = Null THEN [t EXCEPT !.root = k]
       ELSE BalanceInsertion([t EXCEPT !.parent[k] = p, !.child[p][Toward(k, p)] = k], k)

(* The trees that TreeBin::new makes of a list, whose order is any *)
TreesOf(keys) ==
    FoldSet(LAMBDA n, trees : UNION {{AddNode(t, k) : k \in keys \ Below(t, t.root)} : t \in trees},
            {NoTree}, keys)

(* What remove_tree_node asks of a tree that it leaves a tree: the root, its
   children and a grandchild on the left. *)
TooSmall(t) == Null \in {Down(t, t.root, "right"), Down(t, Down(t, t.root, "left"), "left")}

RECURSIVE Leftmost(_, _)
Leftmost(t, n) == IF t.child[n]["left"] = Null THEN n ELSE Leftmost(t, t.child[n]["left"])

(* p, which has two children, changes places and colours with its successor. *)
Swapped(t, p) ==
    LET l == t.child[p]["left"]
        r == t.child[p]["right"]
        s == Leftmost(t, r)
        sr == t.child[s]["right"]
        top == t.parent[p]
        sp == t.parent[s]
        t1 == [t EXCEPT !.red[s] = t.red[p], !.red[p] = t.red[s]]
        t2 == IF s = r
              THEN [t1 EXCEPT !.parent[p] = s, !.child[s]["right"] = p]
              ELSE [t1 EXCEPT !.parent[p] = sp, !.child[sp][SideOf(t, sp, s)] = p,
                              !.child[s]["right"] = r, !.parent[r] = s]
        t3 == Hang([t2 EXCEPT !.child[p] = [left |-> Null, right |-> sr]], sr, p)
        t4 == [t3 EXCEPT !.child[s]["left"] = l, !.parent[l] = s, !.parent[s] = top]
    IN InPlaceOf(t4, top, p, s)

Cut(t, p) == [t EXCEPT !.child[p] = NoLinks, !.parent[p] = Null]

(* remove_tree_node, of a tree large enough: p, swapped down if it has two
   children, is replaced by its child, or balanced and cut off as a leaf.  A node that
   is freed keeps no colour. *)
Replaced(t, p, c) == Cut(InPlaceOf(Hang(t, c, t.parent[p]), t.parent[p], p, c), p)
CutLeaf(t, p) ==
    IF t.parent[p] = Null THEN t ELSE Cut(InPlaceOf(t, t.parent[p], p, Null), p)
Balanced(t, p, x) == IF t.red[p] THEN t ELSE BalanceDeletion(t, x)

Detach(t, p) ==
    LET c == IF t.child[p]["left"] # Null THEN t.child[p]["left"] ELSE t.child[p]["right"]
    IN IF c # Null THEN Balanced(Replaced(t, p, c), p, c) ELSE CutLeaf(Balanced(t, p, p), p)

RemoveTreeNode(t, p) ==
    LET leaves == Detach(IF Null \in {t.child[p][d] : d \in Sides} THEN t ELSE Swapped(t, p), p)
    IN Paint(leaves, p, FALSE)

-----------------------------------------------------------------------------
(* A bin is the list of the keys in listed, in some order, or a tree. *)
BinNew == [listed |-> {}, tree |-> NoTree]
BinHas(b, k) == k \in b.listed \/ FindTreeNode(b.tree, b.tree.root, k) # Null
BinKeys(b) == b.listed \cup Below(b.tree, b.tree.root)

(* untreeify, and the bins that treeify_bin makes *)
Untreeified(keys) == [listed |-> keys, tree |-> NoTree]
Treeified(keys) == {[listed |-> {}, tree |-> t] : t \in TreesOf(keys)}

(* put, and treeify_bin if the walk along the list took at least TreeifyAt
   steps: as many as there are nodes for a new key, fewer for one found. *)
BinPuts(b, k) ==
    LET long == Cardinality(b.listed) >= TreeifyAt
        listed == [b EXCEPT !.listed = @ \cup {k}]
    IN IF b.tree.root # Null THEN {[b EXCEPT !.tree = FindOrPut(@, k)]}
       ELSE (IF long THEN Treeified(listed.listed) ELSE {})
                \cup (IF long /\ k \notin b.listed THEN {} ELSE {listed})

(* The removal; what is left of a small tree is a list again. *)
BinRemove(b, k) ==
    IF ~BinHas(b, k) THEN b
    ELSE IF b.tree.root = Null THEN [b EXCEPT !.listed = @ \ {k}]
    ELSE IF TooSmall(b.tree) THEN Untreeified(BinKeys(b) \ {k})
    ELSE [b EXCEPT !.tree = RemoveTreeNode(@, k)]

(* What the transfer leaves in the bin of the next table for some keys of b:
   a short list, a tree of their own, or the whole of b. *)
Halves(b, keys) ==
    IF b.tree.root = Null \/ Cardinality(keys) <= UntreeifyAt THEN {Untreeified(keys)}
    ELSE IF keys = BinKeys(b) THEN {b}
    ELSE Treeified(keys)

(* The bins of a table of one bin, or of two, and that of a key *)
RunBit(k) == TreeHash[k] % 2
TableNew == <<BinNew>>
BinPlace(bins, k) == IF Len(bins) = 1 THEN 1 ELSE 1 + RunBit(k)

Transfers(b) ==
    {<<low, high>> : low \in Halves(b, {k \in BinKeys(b) : RunBit(k) = 0}),
                     high \in Halves(b, {k \in BinKeys(b) : RunBit(k) = 1})}

(* The number of black nodes on the way from n to any missing child, or 0 if
   the ways differ *)
RECURSIVE BlackHeight(_, _)
BlackHeight(t, n) ==
    LET l == BlackHeight(t, t.child[n]["left"])
        r == BlackHeight(t, t.child[n]["right"])
    IN IF n = Null THEN 1
       ELSE IF 0 \in {l, r} \/ l # r THEN 0
       ELSE l + (IF t.red[n] THEN 0 ELSE 1)

(* check_invariants, and what its recursion does not see: every key below a
   side, and the number of black nodes. *)
IsRedBlack(t) ==
    /\ Up(t, t.root) = Null /\ ~IsRed(t, t.root)
    /\ \A n \in Below(t, t.root), d \in Sides :
          LET c == t.child[n][d] IN
          c # Null => /\ t.parent[c] = n
                      /\ ~(t.red[n] /\ t.red[c])
                      /\ \A m \in Below(t, c) : Toward(m, n) = d
    /\ BlackHeight(t, t.root) > 0
=============================================================================
