------------------------------ MODULE CHashMap ------------------------------
(***************************************************************************)
(* The operations of chashmap's HashMap on bins that are linked lists,     *)
(* running while other threads allocate, resize and transfer (ResizeCtl).  *)
(*                                                                         *)
(* A bin is null, Moved (its index is in `moved`) or the first node of a   *)
(* list.  Readers take no lock.  A writer locks the first node, checks     *)
(* that it still is the first, and makes a single store that readers can   *)
(* see: its critical section is one step, enabled while no transfer holds  *)
(* the lock.  The transfer of a bin makes three such stores, so it holds   *)
(* the lock over several steps.                                            *)
(*                                                                         *)
(* Bins become trees only in tables of MIN_TREEIFY_CAPACITY bins; shorter  *)
(* tables, the ones modelled, grow instead (treeify_bin).                  *)
(***************************************************************************)
EXTENDS ResizeCtl, Sequences, SequencesExt, Traverser

CONSTANTS
    Keys, Values, None,
    Hash,               \* the hash of each key
    TreeifyThreshold,   \* TREEIFY_THRESHOLD
    Explored,           \* bound: the calls explored
    MaxCalls,           \* bound: calls in a behaviour
    MaxNodes            \* bound: nodes ever allocated

ASSUME HashAssumption == Hash \in [Keys -> Nat]
ASSUME ThreadsAssumption == IsFiniteSet(Threads)
ASSUME NoneAssumption == None \notin Values    \* an absent entry is no value

Nodes == 1..MaxNodes
NoPlan == [head |-> 0, low |-> 0, high |-> 0, stage |-> "none"]

(* The keys an iteration has met, the nodes that clear has taken out, the node
   whose entry retain is removing with the address of the value it saw there *)
NoSight == [node |-> 0, key |-> None, address |-> 0]
NoWalk == [at |-> WalkFrom(Null), met |-> <<>>, removed |-> 0, sight |-> NoSight]
NoKeys == [always |-> {}, ever |-> {}]

VARIABLES
    bins,       \* bins[n][i]: the first node of bin i of table n, or 0
    node,       \* each node allocated: its key, value, where that is, and next node
    locked,     \* the nodes whose lock a transfer holds
    plan,       \* the two lists a transferring thread has made of a bin
    call,       \* the call each thread is in
    opc,        \* where in it; pc tells where inside a routine of ResizeCtl
    cur,        \* local `bin` or `node`
    walk,       \* where an iteration, clear or retain stands
    longBin,    \* whether put went past TREEIFY_THRESHOLD nodes
    result,
    calls,      \* calls begun so far
    seen,       \* history: what the key of the call has held since it began
    during      \* history: the keys there at all times, at any time, of an iteration

heap == <<bins, node, locked>>
opLocals == <<plan, walk, call, opc, cur, longBin, result, calls>>
vars == <<resizeVars, heap, opLocals, seen, during, lateJoin>>

-----------------------------------------------------------------------------
(* Lists *)

(* Table::bini: the hash modulo the length, a power of two *)
Bini(k, n) == Hash[k] % n

(* The nodes of the list that starts at h *)
Chain(h) ==
    LET from[m \in 0..Len(node)] == IF m = 0 THEN <<>> ELSE <<m>> \o from[node[m].next]
    IN from[h]

(* The first of them that holds k, or 0 *)
ChainHolding(k, h) ==
    LET from[m \in 0..Len(node)] ==
            IF m = 0 \/ node[m].key = k THEN m ELSE from[node[m].next]
    IN from[h]

(* The table whose bin for k is not Moved, from table m on *)
Home(k, m) ==
    LET home[n \in Caps] == IF Bini(k, n) \in moved[n] THEN home[fwd[n]] ELSE n
    IN home[m]

(* The first node of its bin there *)
HomeList(k) == LET n == Home(k, table) IN bins[n][Bini(k, n)]

(* The map as an observer of all memory sees it. *)
Contents ==
    [k \in Keys |->
        IF table = Null THEN None
        ELSE LET p == ChainHolding(k, HomeList(k)) IN IF p = 0 THEN None ELSE node[p].val]

Present == {k \in Keys : Contents[k] # None}

(* An address is not given to another value while a guard may see the first. *)
NewAddress(k) ==
    LET taken == {node[p].address : p \in {q \in DOMAIN node : node[q].key = k}}
                    \cup {walk[t].sight.address : t \in Threads}
    IN Min(0..Cardinality(taken) \ taken)

NewNode(k, v, address, next) == [key |-> k, val |-> v, address |-> address, next |-> next]

-----------------------------------------------------------------------------
Init2 ==
    /\ Init
    /\ bins = [n \in Caps |-> [i \in 0..(n - 1) |-> 0]]
    /\ node = <<>>
    /\ locked = {}
    /\ plan = [t \in Threads |-> NoPlan]
    /\ walk = [t \in Threads |-> NoWalk]
    /\ call = [t \in Threads |-> [op |-> "none"]]
    /\ opc = [t \in Threads |-> "idle"]
    /\ cur = [t \in Threads |-> 0]
    /\ longBin = [t \in Threads |-> FALSE]
    /\ result = [t \in Threads |-> None]
    /\ calls = 0
    /\ seen = [t \in Threads |-> {}]
    /\ during = [t \in Threads |-> NoKeys]

At(t, l) == pc[t] = "idle" /\ opc[t] = l

(* retain, and retain_force, remove the entries they reject one by one. *)
Retains == {"retain", "retain_force"}
Removing(t) == walk[t].sight.node # 0
Key(t) == IF Removing(t) THEN walk[t].sight.key ELSE call[t].key
Op(t) == IF Removing(t) THEN "remove" ELSE call[t].op
IsUpdate(t) == Op(t) # "get"
ThisBin(t) == bins[tab[t]][Bini(Key(t), tab[t])]
ThisBinMoved(t) == Bini(Key(t), tab[t]) \in moved[tab[t]]

(* The locals of a call between its steps *)
To(t, l, c) ==
    /\ opc' = Set(opc, t, l)
    /\ cur' = Set(cur, t, c)

Finish(t, r) ==
    /\ To(t, "Done", 0)
    /\ result' = Set(result, t, r)

-----------------------------------------------------------------------------
(* Every operation: load the table, then the bin of the key. *)

Begin(t, c) ==
    /\ At(t, "idle") /\ calls < MaxCalls
    /\ call' = Set(call, t, c)
    /\ calls' = calls + 1
    /\ To(t, "Table", 0)
    /\ UNCHANGED <<resizeVars, heap, plan, walk, longBin, result>>

Walkers == {"iter"} \cup Retains

(* Calls that add nothing find nothing where there is no table. *)
OpLoadTable(t) ==
    /\ At(t, "Table")
    /\ tab' = Set(tab, t, table)
    /\ IF table = Null /\ Op(t) \in {"get", "remove", "clear"} \cup Walkers
       THEN Finish(t, None)
       ELSE /\ To(t, CASE Op(t) \in Walkers -> "Walk" [] Op(t) = "clear" -> "Clear"
                       [] OTHER -> "Bin", 0)
            /\ UNCHANGED result
    /\ walk' = IF Op(t) \in Walkers THEN [walk EXCEPT ![t].at = WalkFrom(table)] ELSE walk
    /\ UNCHANGED <<shared, pc, rt, nt, ld, loop, arg, heap, plan, call, longBin, calls>>

(* put and compute_if_present make the first one *)
OpNoTable(t) ==
    /\ At(t, "Bin") /\ tab[t] = Null
    /\ CallInitTable(t)
    /\ UNCHANGED <<heap, opLocals>>

(* A Moved bin: an update helps the transfer and goes on in the next table, a
   reader only follows it. *)
OpMovedBin(t) ==
    /\ At(t, "Bin") /\ tab[t] # Null /\ ThisBinMoved(t)
    /\ IF IsUpdate(t)
       THEN CallHelpTransfer(t)
       ELSE /\ tab' = Set(tab, t, fwd[tab[t]])
            /\ UNCHANGED <<shared, pc, rt, nt, ld, loop, arg>>
    /\ UNCHANGED <<heap, opLocals>>

OpEmptyBin(t) ==
    /\ At(t, "Bin") /\ tab[t] # Null /\ ~ThisBinMoved(t) /\ ThisBin(t) = 0
    /\ IF Op(t) \in {"insert", "try_insert"}
       THEN To(t, "Cas", 0) /\ UNCHANGED result
       ELSE Finish(t, None)
    /\ UNCHANGED <<resizeVars, heap, plan, walk, call, longBin, calls>>

(* A list: the reader starts down it, try_insert looks at its first node
   before it locks anything, the other updates lock. *)
NextWith(t, h) ==
    IF ~IsUpdate(t) THEN "Node"
    ELSE IF call[t].op = "try_insert" /\ node[h].key = Key(t) THEN "Value"
    ELSE "Lock"

OpListBin(t) ==
    /\ At(t, "Bin") /\ tab[t] # Null /\ ~ThisBinMoved(t) /\ ThisBin(t) # 0
    /\ To(t, NextWith(t, ThisBin(t)), ThisBin(t))
    /\ UNCHANGED <<resizeVars, heap, plan, walk, call, longBin, result, calls>>

-----------------------------------------------------------------------------
(* get: one node at a time, then the value *)

GetNode(t) ==
    /\ At(t, "Node")
    /\ IF node[cur[t]].key = Key(t)
       THEN To(t, "Value", cur[t]) /\ UNCHANGED result
       ELSE IF node[cur[t]].next = 0
       THEN Finish(t, None)
       ELSE To(t, "Node", node[cur[t]].next) /\ UNCHANGED result
    /\ UNCHANGED <<resizeVars, heap, plan, walk, call, longBin, calls>>

LoadValue(t) ==
    /\ At(t, "Value")
    /\ Finish(t, node[cur[t]].val)
    /\ UNCHANGED <<resizeVars, heap, plan, walk, call, longBin, calls>>

-----------------------------------------------------------------------------
(* put into an empty bin: a compare-and-swap.  When it fails, put goes on
   with what it found there. *)

PutCas(t) ==
    LET k == Key(t)  n == tab[t]  i == Bini(k, n)  id == Len(node) + 1 IN
    /\ At(t, "Cas")
    /\ IF ThisBin(t) = 0 /\ ~ThisBinMoved(t)
       THEN /\ id \in Nodes
            /\ node' = Append(node, NewNode(k, call[t].val, NewAddress(k), 0))
            /\ bins' = [bins EXCEPT ![n][i] = id]
            /\ result' = Set(result, t, None)
            /\ To(t, "Count", 0)
       ELSE /\ IF ThisBinMoved(t) THEN To(t, "Bin", 0)
               ELSE To(t, NextWith(t, ThisBin(t)), ThisBin(t))
            /\ UNCHANGED <<node, bins, result>>
    /\ UNCHANGED <<resizeVars, locked, plan, walk, call, longBin, calls>>

-----------------------------------------------------------------------------
(* The critical sections.  HeadChanged is the recheck after the lock. *)

(* Mutant: the bin is not read again once the lock is held. *)
HeadNotRead(t) == FALSE

HeadChanged(t) == ThisBinMoved(t) \/ ThisBin(t) # cur[t]

CanLock(t) == At(t, "Lock") /\ cur[t] \notin locked

OpHeadChanged(t) ==
    /\ CanLock(t) /\ HeadChanged(t)
    /\ To(t, "Bin", 0)
    /\ UNCHANGED <<resizeVars, heap, plan, walk, call, longBin, result, calls>>

(* put: replace the value, or append a node *)
PutLocked(t) ==
    LET k == Key(t)
        chain == Chain(cur[t])
        p == ChainHolding(k, cur[t])
        id == Len(node) + 1
        walked == IF p = 0 THEN Len(chain) ELSE CHOOSE j \in DOMAIN chain : chain[j] = p
    IN
    /\ CanLock(t) /\ ~HeadChanged(t) /\ call[t].op \in {"insert", "try_insert"}
    /\ IF p # 0 /\ call[t].op = "try_insert"
       THEN /\ Finish(t, node[p].val)
            /\ UNCHANGED <<node, longBin>>
       ELSE /\ IF p # 0
               THEN /\ node' = [node EXCEPT ![p].val = call[t].val,
                                               ![p].address = NewAddress(k)]
                    /\ result' = Set(result, t, node[p].val)
               ELSE /\ id \in Nodes
                    /\ node' = Append([node EXCEPT ![Last(chain)].next = id],
                                      NewNode(k, call[t].val, NewAddress(k), 0))
                    /\ result' = Set(result, t, None)
            /\ longBin' = Set(longBin, t, walked >= TreeifyThreshold)
            /\ To(t, "Treeify", 0)
    /\ UNCHANGED <<resizeVars, bins, locked, plan, walk, call, calls>>

(* Take node p out of the list of its bin. *)
Unlink(t, p) ==
    LET n == tab[t]  i == Bini(Key(t), n) IN
    IF p = cur[t]
    THEN bins' = [bins EXCEPT ![n][i] = node[p].next] /\ UNCHANGED node
    ELSE LET pred == CHOOSE q \in Range(Chain(cur[t])) : node[q].next = p
         IN node' = [node EXCEPT ![pred].next = node[p].next] /\ UNCHANGED bins

(* retain gives replace_node the value it saw. *)
AsSeen(t, p) == call[t].op = "retain" => node[p].address = walk[t].sight.address

(* Mutant: remove forgets the counter. *)
RemoveUncounted(t) ==
    LET p == ChainHolding(Key(t), cur[t]) IN
    /\ CanLock(t) /\ ~HeadChanged(t) /\ Op(t) = "remove"
    /\ IF p = 0 \/ ~AsSeen(t, p)
       THEN Finish(t, None) /\ UNCHANGED <<bins, node>>
       ELSE Unlink(t, p) /\ Finish(t, node[p].val)
    /\ UNCHANGED <<resizeVars, locked, plan, walk, call, longBin, calls>>

(* replace_node as remove and the retains call it *)
RemoveLocked(t) ==
    LET p == ChainHolding(Key(t), cur[t]) IN
    /\ CanLock(t) /\ ~HeadChanged(t) /\ Op(t) = "remove"
    /\ IF p = 0 \/ ~AsSeen(t, p)
       THEN Finish(t, None) /\ UNCHANGED <<bins, node>>
       ELSE /\ Unlink(t, p)
            /\ result' = Set(result, t, node[p].val)
            /\ To(t, "Count", 0)
    /\ UNCHANGED <<resizeVars, locked, plan, walk, call, longBin, calls>>

(* Mutant: the absent value is stored like any other. *)
ComputeStoresNone(t) ==
    LET p == ChainHolding(Key(t), cur[t]) IN
    /\ CanLock(t) /\ ~HeadChanged(t) /\ call[t].op = "compute_if_present"
    /\ node' = IF p = 0 THEN node ELSE [node EXCEPT ![p].val = call[t].val]
    /\ Finish(t, IF p = 0 THEN None ELSE call[t].val)
    /\ UNCHANGED <<resizeVars, bins, locked, plan, walk, call, longBin, calls>>

(* compute_if_present, with the value the function returns in call *)
ComputeLocked(t) ==
    LET p == ChainHolding(Key(t), cur[t]) IN
    /\ CanLock(t) /\ ~HeadChanged(t) /\ call[t].op = "compute_if_present"
    /\ IF p = 0
       THEN Finish(t, None) /\ UNCHANGED <<bins, node>>
       ELSE IF call[t].val # None
       THEN /\ node' = [node EXCEPT ![p].val = call[t].val,
                                    ![p].address = NewAddress(Key(t))]
            /\ UNCHANGED bins
            /\ Finish(t, call[t].val)
       ELSE /\ Unlink(t, p)
            /\ result' = Set(result, t, None)
            /\ To(t, "Count", 0)
    /\ UNCHANGED <<resizeVars, locked, plan, walk, call, longBin, calls>>

-----------------------------------------------------------------------------
(* After the update: treeify_bin, which in a short table asks for a longer
   one, then the count. *)

PutTreeify(t) ==
    /\ At(t, "Treeify")
    /\ IF longBin[t]
       THEN CallTryPresize(t, 2 * tab[t])
       ELSE UNCHANGED resizeVars
    /\ longBin' = Set(longBin, t, FALSE)
    /\ To(t, IF result[t] = None THEN "Count" ELSE "Done", 0)
    /\ UNCHANGED <<heap, plan, walk, call, result, calls>>

OpCount(t) ==
    /\ At(t, "Count")
    /\ CASE Op(t) \in {"insert", "try_insert"} -> CallAddCount(t, 1, TRUE)
         [] Op(t) = "remove"                   -> CallAddCount(t, -1, FALSE)
         [] Op(t) = "compute_if_present"       -> CallAddCount(t, -1, TRUE)
         [] Op(t) = "clear"                    -> CallAddCount(t, -walk[t].removed, FALSE)
    /\ count' \in CountRange
    /\ To(t, "Done", 0)
    /\ UNCHANGED <<heap, plan, walk, call, longBin, result, calls>>

End(t) ==
    /\ At(t, "Done") /\ ~Removing(t)
    /\ To(t, "idle", 0)
    /\ call' = Set(call, t, [op |-> "none"])
    /\ result' = Set(result, t, None)
    /\ walk' = Set(walk, t, NoWalk)
    /\ tab' = Set(tab, t, Null)
    /\ UNCHANGED <<shared, pc, rt, nt, ld, loop, arg, heap, plan, longBin, calls>>

-----------------------------------------------------------------------------
(* Iterations: each load of a bin or of a next pointer is a step. *)

(* The iterator yields a node: the end of an iteration's step, while retain
   goes on to load its value. *)
Meets(t, p, at) ==
    IF call[t].op = "iter"
    THEN To(t, "WalkOn", p) /\ walk' = [walk EXCEPT ![t].at = at, ![t].met = Append(@, node[p].key)]
    ELSE To(t, "Look", p) /\ walk' = [walk EXCEPT ![t].at = at]

(* The iterator is past the bin when it stands on its first node. *)
WalkBin(t) ==
    LET w == walk[t].at
        first == bins[w.table][w.index]
    IN
    /\ At(t, "Walk") /\ ~Exhausted(w)
    /\ IF w.index \in moved[w.table]
       THEN /\ walk' = [walk EXCEPT ![t].at = Descend(w, fwd[w.table])]
            /\ UNCHANGED <<opc, cur>>
       ELSE IF first = 0
       THEN /\ walk' = [walk EXCEPT ![t].at = Advance(w)]
            /\ UNCHANGED <<opc, cur>>
       ELSE Meets(t, first, Advance(w))
    /\ UNCHANGED <<resizeVars, heap, plan, call, longBin, result, calls>>

WalkOn(t) ==
    LET next == node[cur[t]].next IN
    /\ At(t, "WalkOn")
    /\ IF next = 0
       THEN To(t, "Walk", 0) /\ UNCHANGED walk
       ELSE Meets(t, next, walk[t].at)
    /\ UNCHANGED <<resizeVars, heap, plan, call, longBin, result, calls>>

WalkEnd(t) ==
    /\ At(t, "Walk") /\ Exhausted(walk[t].at)
    /\ To(t, "Done", 0)
    /\ UNCHANGED <<resizeVars, heap, plan, walk, call, longBin, result, calls>>

(* retain rejects the value in its call, and keeps every other. *)
RetainLook(t) ==
    LET n == node[cur[t]] IN
    /\ At(t, "Look")
    /\ IF n.val # call[t].val
       THEN To(t, "WalkOn", cur[t]) /\ UNCHANGED walk
       ELSE /\ To(t, "Table", 0)
            /\ walk' = [walk EXCEPT ![t].sight =
                          [node |-> cur[t], key |-> n.key,
                           address |-> IF call[t].op = "retain" THEN n.address ELSE 0]]
    /\ UNCHANGED <<resizeVars, heap, plan, call, longBin, result, calls>>

(* The entry is removed, or was not there any more, or had another value. *)
RetainGoOn(t) ==
    /\ At(t, "Done") /\ Removing(t)
    /\ To(t, "WalkOn", walk[t].sight.node)
    /\ walk' = [walk EXCEPT ![t].sight = NoSight]
    /\ result' = Set(result, t, None)
    /\ UNCHANGED <<resizeVars, heap, plan, call, longBin, calls>>

-----------------------------------------------------------------------------
(* clear: bin after bin; where one has moved, help and begin again in the
   next table. *)

ClearBin(t) ==
    LET n == tab[t]  i == walk[t].at.index IN
    /\ At(t, "Clear") /\ i < n
    /\ IF i \in moved[n]
       THEN /\ CallHelpTransfer(t)
            /\ walk' = [walk EXCEPT ![t].at.index = 0]
            /\ UNCHANGED <<opc, cur>>
       ELSE /\ IF bins[n][i] = 0
               THEN /\ walk' = [walk EXCEPT ![t].at.index = i + 1]
                    /\ UNCHANGED <<opc, cur>>
               ELSE To(t, "ClearLock", bins[n][i]) /\ UNCHANGED walk
            /\ UNCHANGED resizeVars
    /\ UNCHANGED <<heap, plan, call, longBin, result, calls>>

(* The nodes are counted once the lock is released, when nobody else can
   reach them to change them. *)
ClearLocked(t) ==
    LET n == tab[t]  i == walk[t].at.index IN
    /\ At(t, "ClearLock") /\ cur[t] \notin locked
    /\ To(t, "Clear", 0)
    /\ IF i \in moved[n] \/ bins[n][i] # cur[t]
       THEN UNCHANGED <<bins, walk>>
       ELSE /\ bins' = [bins EXCEPT ![n][i] = 0]
            /\ walk' = [walk EXCEPT ![t].at.index = i + 1,
                                    ![t].removed = @ + Len(Chain(cur[t]))]
    /\ UNCHANGED <<resizeVars, node, locked, plan, call, longBin, result, calls>>

ClearEnd(t) ==
    /\ At(t, "Clear") /\ walk[t].at.index >= tab[t]
    /\ To(t, IF walk[t].removed = 0 THEN "Done" ELSE "Count", 0)
    /\ UNCHANGED <<resizeVars, heap, plan, walk, call, longBin, result, calls>>

-----------------------------------------------------------------------------
(* transfer of one bin *)

BinAt(t) == bins[tab[t]][idx[t]]

TransferBinMoved(t) == TransferSkipMoved(t) /\ UNCHANGED <<heap, opLocals>>

(* Table::get_moved comes before the compare-and-swap of an empty bin, and
   after the two stores for a list *)
TransferBinForward(t) ==
    /\ TransferForward(t)
    /\ BinAt(t) = 0 \/ plan[t].stage = "moved"
    /\ UNCHANGED <<heap, opLocals>>

TransferEmptyBin(t) ==
    /\ pc[t] = "TransferBin" /\ BinAt(t) = 0
    /\ TransferMoveBin(t)
    /\ UNCHANGED <<heap, opLocals>>

(* Mutant: the bit of the next table's length decides. *)
HighBitOfNext(id, n) == (Hash[node[id].key] \div (2 * n)) % 2

(* Which half of the next table a node goes to *)
High(id, n) == (Hash[node[id].key] \div n) % 2

(* The head of the list is locked.  Its longest tail that goes to one half as
   a whole (last_run) is kept; the nodes before are copied, each in front of
   what is there, and both lists are still private. *)
TransferSplit(t) ==
    LET n == tab[t]
        chain == Chain(BinAt(t))
        run == CHOOSE j \in DOMAIN chain :
                  /\ \A m \in j..Len(chain) : High(chain[m], n) = High(chain[Len(chain)], n)
                  /\ j > 1 => High(chain[j - 1], n) # High(chain[Len(chain)], n)
        base == Len(node)
        Before(j) == {m \in 1..(j - 1) : High(chain[m], n) = High(chain[j], n)}
        Link(j) ==  \* what copy j is put in front of
            IF Before(j) # {} THEN base + (CHOOSE m \in Before(j) : \A l \in Before(j) : l <= m)
            ELSE IF High(chain[j], n) = High(chain[run], n) THEN chain[run] ELSE 0
        copies == [j \in 1..(run - 1) |->
                      [node[chain[j]] EXCEPT !.next = Link(j)]]
        FirstOf(h) ==
            LET S == {m \in 1..(run - 1) : High(chain[m], n) = h} IN
            IF S # {} THEN base + (CHOOSE m \in S : \A l \in S : l <= m)
            ELSE IF High(chain[run], n) = h THEN chain[run] ELSE 0
    IN
    /\ pc[t] = "TransferBin" /\ plan[t] = NoPlan
    /\ idx[t] \notin moved[n] /\ BinAt(t) # 0 /\ BinAt(t) \notin locked
    /\ base + run - 1 <= MaxNodes
    /\ node' = node \o copies
    /\ locked' = locked \cup {BinAt(t)}
    /\ plan' = Set(plan, t, [head |-> BinAt(t), low |-> FirstOf(0), high |-> FirstOf(1),
                             stage |-> "low"])
    /\ UNCHANGED <<resizeVars, bins, walk, call, opc, cur, longBin, result, calls>>

TransferStoreLow(t) ==
    /\ plan[t].stage = "low"
    /\ bins' = [bins EXCEPT ![nt[t]][idx[t]] = plan[t].low]
    /\ plan' = [plan EXCEPT ![t].stage = "high"]
    /\ UNCHANGED <<resizeVars, node, locked, walk, call, opc, cur, longBin, result, calls>>

TransferStoreHigh(t) ==
    /\ plan[t].stage = "high"
    /\ bins' = [bins EXCEPT ![nt[t]][idx[t] + tab[t]] = plan[t].high]
    /\ plan' = [plan EXCEPT ![t].stage = "moved"]
    /\ UNCHANGED <<resizeVars, node, locked, walk, call, opc, cur, longBin, result, calls>>

(* Mutant: the head stays locked once the bin has moved. *)
TransferKeepsLock(t) ==
    /\ plan[t].stage = "moved"
    /\ TransferMoveBin(t)
    /\ bins' = [bins EXCEPT ![tab[t]][idx[t]] = 0]
    /\ plan' = Set(plan, t, NoPlan)
    /\ UNCHANGED <<node, locked, walk, call, opc, cur, longBin, result, calls>>

TransferListBin(t) ==
    /\ plan[t].stage = "moved"
    /\ TransferMoveBin(t)
    /\ bins' = [bins EXCEPT ![tab[t]][idx[t]] = 0]
    /\ locked' = locked \ {plan[t].head}
    /\ plan' = Set(plan, t, NoPlan)
    /\ UNCHANGED <<node, walk, call, opc, cur, longBin, result, calls>>

-----------------------------------------------------------------------------
Operation(t) ==
    \/ OpLoadTable(t) \/ OpNoTable(t) \/ OpMovedBin(t) \/ OpEmptyBin(t) \/ OpListBin(t)
    \/ GetNode(t) \/ LoadValue(t)
    \/ PutCas(t) \/ OpHeadChanged(t) \/ PutLocked(t) \/ RemoveLocked(t) \/ ComputeLocked(t)
    \/ PutTreeify(t) \/ OpCount(t) \/ End(t)
    \/ WalkBin(t) \/ WalkOn(t) \/ WalkEnd(t) \/ RetainLook(t) \/ RetainGoOn(t)
    \/ ClearBin(t) \/ ClearLocked(t) \/ ClearEnd(t)

Transfer(t) ==
    \/ TransferBinMoved(t) \/ TransferBinForward(t) \/ TransferEmptyBin(t)
    \/ TransferSplit(t) \/ TransferStoreLow(t) \/ TransferStoreHigh(t) \/ TransferListBin(t)

Routine(t) ==
    /\ InitTable(t) \/ AddCount(t) \/ HelpTransfer(t) \/ TryPresize(t) \/ TransferLoop(t)
    /\ UNCHANGED <<heap, opLocals>>

IsKeyed(c) == c.op \notin {"none", "clear"} \cup Walkers

(* A transfer stores a bin's lists in the next table before it marks the bin
   Moved.  A clear that comes by another bin's forward empties them there; the
   keys stay until the mark. *)
Doomed ==
    {k \in Keys : \E t \in Threads :
        LET i == Bini(k, nt[t]) IN
        /\ plan[t].stage = "moved" \/ (plan[t].stage = "high" /\ i = idx[t])
        /\ ChainHolding(k, plan[t].head) # 0
        /\ ChainHolding(k, bins[nt[t]][i]) = 0}

(* What a caller sees.  An iteration is not a call of AtomicMap, nor is what a
   retain removes. *)
CallSeen == [t \in Threads |-> IF call[t].op = "iter" THEN [op |-> "none"] ELSE call[t]]
EffectSeen == [t \in Threads |-> call[t].op # "iter" /\ ~Removing(t)
                                    /\ opc[t] \in {"Treeify", "Count", "Done"}]
ResultSeen == [t \in Threads |-> IF Removing(t) THEN None ELSE result[t]]

Abstract == INSTANCE AtomicMap WITH
    contents <- Contents, doomed <- Doomed,
    call <- CallSeen, effect <- EffectSeen, result <- ResultSeen

(* The history variables: of late joins, AtomicMap's, and that of iterations *)
Watch ==
    /\ Remember
    /\ seen' = [t \in Threads |->
                   IF ~IsKeyed(call'[t]) THEN {}
                   ELSE IF opc[t] = "idle" THEN {Contents[call'[t].key]}
                   ELSE seen[t] \cup {Contents'[call[t].key]}]
    /\ during' = [t \in Threads |->
                   IF call'[t].op # "iter" THEN NoKeys
                   ELSE IF opc[t] = "idle" THEN [always |-> Present, ever |-> Present]
                   ELSE [always |-> during[t].always \cap Present',
                         ever |-> during[t].ever \cup Present']]

MapStep(t) == Operation(t) \/ Transfer(t) \/ Routine(t)

(* Every caller has gone away: the end of a bounded behaviour. *)
Rest ==
    /\ calls = MaxCalls /\ \A t \in Threads : At(t, "idle")
    /\ UNCHANGED <<resizeVars, heap, opLocals>>

MapNext ==
    /\ \/ \E t \in Threads :
              \/ MapStep(t)
              \/ \E c \in (Abstract!Calls \cup {[op |-> "iter"]}) \cap Explored : Begin(t, c)
       \/ Rest
    /\ Watch

MapSpec == Init2 /\ [][MapNext]_vars

(* A thread never stops between two steps of a call: locks are only ever held
   by running threads. *)
FairMapSpec == MapSpec /\ \A t \in Threads : WF_vars(MapStep(t) /\ Watch)

-----------------------------------------------------------------------------
(* Properties *)

(* Every variable stays in its domain; a node points at a node made after or
   before it, never at itself. *)
MapTypeOK ==
    /\ TypeOK
    /\ \A n \in Caps : bins[n] \in [0..(n - 1) -> 0..Len(node)]
    /\ \A j \in DOMAIN node :
          /\ node[j].key \in Keys /\ node[j].val \in Values
          /\ node[j].next \in 0..Len(node) \ {j}
    /\ locked \subseteq DOMAIN node
    /\ cur \in [Threads -> 0..Len(node)]
    /\ \A t \in Threads : opc[t] = "idle" <=> call[t].op = "none"

(* Seen from outside, every call happens at one moment between its beginning
   and its end, whatever else the map is doing to its tables. *)
Linearizable == Abstract!Spec

(* With no call in progress, len() is the number of keys present. *)
CountAtRest ==
    (\A t \in Threads : At(t, "idle"))
        => count = Cardinality({k \in Keys : Contents[k] # None})

(* A list holds a key at most once and only keys of its bin, in the old table
   until the bin has moved and in the new one from then on. *)
KeysOnce ==
    \A n \in Caps : \A i \in 0..(n - 1) \ moved[n] :
        LET chain == Chain(bins[n][i]) IN
        /\ \A j \in DOMAIN chain : Bini(node[chain[j]].key, n) = i
        /\ \A j, m \in DOMAIN chain :
              node[chain[j]].key = node[chain[m]].key => j = m

(* An iteration meets a key that is there all the time once, in whichever
   tables its bin is by then, and no key that was never there. *)
WalkMeetsOnce ==
    \A t \in Threads :
        LET met == walk[t].met IN
        call[t].op = "iter" /\ opc[t] = "Done" =>
            /\ \A k \in during[t].always : Cardinality({j \in DOMAIN met : met[j] = k}) = 1
            /\ Range(met) \subseteq during[t].ever

(* Every call returns. *)
CallsReturn == \A t \in Threads : opc[t] # "idle" ~> opc[t] = "idle"
=============================================================================
