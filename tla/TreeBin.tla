------------------------------ MODULE TreeBin ------------------------------
(***************************************************************************)
(* A bin of chashmap that has become a red-black tree.  Its nodes are also *)
(* on a linked list.  Updates hold the bin's mutex; `find` takes no mutex: *)
(* it counts itself into lock_state and searches the tree or, while a      *)
(* writer holds or waits for lock_state, walks the list.                   *)
(*                                                                         *)
(* The tree is abstracted to the set of nodes a search can find.  Colours  *)
(* and shape decide only whether an update rebalances, and whether a       *)
(* removal leaves so few nodes that the bin becomes a list again: either   *)
(* may happen here.                                                        *)
(***************************************************************************)
EXTENDS Integers, Sequences, FiniteSets

CONSTANTS
    Readers, Writers,   \* the threads that search, the ones that update
    Keys,
    FirstKeys,          \* the keys of the bin when it is made, in list order
    Nobody,
    MaxNodes            \* bound: nodes ever allocated

Threads == Readers \cup Writers

ASSUME ThreadsAssumption ==
    /\ Readers \cap Writers = {} /\ Nobody \notin Threads
    /\ IsFiniteSet(Readers)
ASSUME KeysAssumption ==
    /\ FirstKeys \in Seq(Keys)
    /\ \A i, j \in DOMAIN FirstKeys : FirstKeys[i] = FirstKeys[j] => i = j

VARIABLES
    mutex,      \* TreeBin::lock, taken by updates
    lockState,  \* lock_state: the WRITER and WAITER bits, the READER count
    waiter,     \* the thread to unpark
    token,      \* the park token of each writer
    node,       \* the nodes: key, next and prev
    first,      \* the first node of the list
    tree,       \* the nodes that a search of the tree finds
    replaced,   \* whether a list has taken this bin's place
    pc,
    call,       \* the operation each thread is in and its key
    cur,        \* find's `element`, the update's `p` or `x`
    ld,         \* the lock_state loaded that the coming CAS expects
    waiting,    \* contended_lock's `waiting`
    found,      \* what a find answers
    present,    \* history: the keys that the finished updates have left
    allowed     \* history: what a find may answer

lock == <<mutex, lockState, waiter, token>>
nodes == <<node, first, tree, replaced>>
history == <<present, allowed>>
vars == <<lock, nodes, pc, call, cur, ld, waiting, found, history>>

Free == [writer |-> FALSE, waiter |-> FALSE, readers |-> 0]
WriterOnly == [Free EXCEPT !.writer = TRUE]

-----------------------------------------------------------------------------
Goto(t, l) == pc' = [pc EXCEPT ![t] = l]

NodeOf(k, S) == {n \in S : node[n].key = k}

(* What the key holds after an update: insert leaves it there, remove not. *)
Outcome(t) == call[t].op = "insert"

Init ==
    /\ mutex = Nobody /\ lockState = Free /\ waiter = Nobody
    /\ token = [w \in Writers |-> FALSE]
    /\ node = [i \in DOMAIN FirstKeys |->
                  [key |-> FirstKeys[i], prev |-> i - 1,
                   next |-> IF i = Len(FirstKeys) THEN 0 ELSE i + 1]]
    /\ first = IF FirstKeys = <<>> THEN 0 ELSE 1
    /\ tree = DOMAIN FirstKeys
    /\ replaced = FALSE
    /\ pc = [t \in Threads |-> "idle"]
    /\ call = [t \in Threads |-> [op |-> "none"]]
    /\ cur = [t \in Threads |-> 0]
    /\ ld = [t \in Threads |-> Free]
    /\ waiting = [w \in Writers |-> FALSE]
    /\ found = [r \in Readers |-> FALSE]
    /\ present = {FirstKeys[i] : i \in DOMAIN FirstKeys}
    /\ allowed = [r \in Readers |-> {}]

-----------------------------------------------------------------------------
(* find *)

FindBegin(r, k) ==
    /\ pc[r] = "idle" /\ ~replaced
    /\ call' = [call EXCEPT ![r] = [op |-> "find", key |-> k]]
    /\ Goto(r, "findFirst")
    /\ allowed' = [allowed EXCEPT ![r] =
                      {(k \in present)}
                         \cup {Outcome(w) : w \in {v \in Writers : mutex = v /\ call[v].key = k}}]
    /\ UNCHANGED <<lock, nodes, cur, ld, waiting, found, present>>

FindFirst(r) ==
    /\ pc[r] = "findFirst"
    /\ cur' = [cur EXCEPT ![r] = first]
    /\ Goto(r, "findState")
    /\ UNCHANGED <<lock, nodes, call, ld, waiting, found, history>>

(* Past the end of the list, or the choice between list and tree *)
FindState(r) ==
    /\ pc[r] = "findState"
    /\ IF cur[r] = 0
       THEN /\ Goto(r, "findDone")
            /\ found' = [found EXCEPT ![r] = FALSE]
            /\ UNCHANGED ld
       ELSE /\ UNCHANGED found
            /\ IF lockState.writer \/ lockState.waiter
               THEN Goto(r, "findVisit") /\ UNCHANGED ld
               ELSE Goto(r, "findEnter") /\ ld' = [ld EXCEPT ![r] = lockState]
    /\ UNCHANGED <<lock, nodes, call, cur, waiting, history>>

FindVisit(r) ==
    /\ pc[r] = "findVisit"
    /\ IF node[cur[r]].key = call[r].key
       THEN /\ Goto(r, "findDone")
            /\ found' = [found EXCEPT ![r] = TRUE]
            /\ cur' = [cur EXCEPT ![r] = 0]
       ELSE /\ Goto(r, "findState")
            /\ cur' = [cur EXCEPT ![r] = node[cur[r]].next]
            /\ UNCHANGED found
    /\ UNCHANGED <<lock, nodes, call, ld, waiting, history>>

(* Mutant: the reader adds itself to whatever lock_state is by now. *)
FindEnterBlind(r) ==
    /\ pc[r] = "findEnter"
    /\ lockState' = [lockState EXCEPT !.readers = @ + 1]
    /\ Goto(r, "findTree")
    /\ UNCHANGED <<mutex, waiter, token, nodes, call, cur, ld, waiting, found, history>>

FindEnter(r) ==
    /\ pc[r] = "findEnter"
    /\ IF lockState = ld[r]
       THEN /\ lockState' = [ld[r] EXCEPT !.readers = @ + 1]
            /\ cur' = [cur EXCEPT ![r] = 0]
            /\ Goto(r, "findTree")
       ELSE Goto(r, "findState") /\ UNCHANGED <<lockState, cur>>
    /\ ld' = [ld EXCEPT ![r] = Free]
    /\ UNCHANGED <<mutex, waiter, token, nodes, call, waiting, found, history>>

FindTree(r) ==
    /\ pc[r] = "findTree"
    /\ found' = [found EXCEPT ![r] = NodeOf(call[r].key, tree) # {}]
    /\ Goto(r, "findLeave")
    /\ UNCHANGED <<lock, nodes, call, cur, ld, waiting, history>>

(* Mutant: the last reader looks for lock_state without the WAITER bit. *)
FindLeaveNoWaiter(r) ==
    /\ pc[r] = "findLeave"
    /\ lockState' = [lockState EXCEPT !.readers = @ - 1]
    /\ Goto(r, IF lockState = [Free EXCEPT !.readers = 1] THEN "findWake" ELSE "findDone")
    /\ UNCHANGED <<mutex, waiter, token, nodes, call, cur, ld, waiting, found, history>>

(* The last reader to leave with a writer waiting wakes it. *)
FindLeave(r) ==
    /\ pc[r] = "findLeave"
    /\ lockState' = [lockState EXCEPT !.readers = @ - 1]
    /\ Goto(r, IF lockState = [writer |-> FALSE, waiter |-> TRUE, readers |-> 1]
               THEN "findWake" ELSE "findDone")
    /\ UNCHANGED <<mutex, waiter, token, nodes, call, cur, ld, waiting, found, history>>

FindWake(r) ==
    /\ pc[r] = "findWake"
    /\ IF waiter = Nobody THEN UNCHANGED token
       ELSE token' = [token EXCEPT ![waiter] = TRUE]
    /\ Goto(r, "findDone")
    /\ UNCHANGED <<mutex, lockState, waiter, nodes, call, cur, ld, waiting, found, history>>

FindReturn(r) ==
    /\ pc[r] = "findDone"
    /\ Goto(r, "idle")
    /\ call' = [call EXCEPT ![r] = [op |-> "none"]]
    /\ found' = [found EXCEPT ![r] = FALSE]
    /\ allowed' = [allowed EXCEPT ![r] = {}]
    /\ UNCHANGED <<lock, nodes, cur, ld, waiting, present>>

-----------------------------------------------------------------------------
(* Updates: find_or_put_tree_val and remove_tree_node under the bin's mutex *)

UpdateBegin(w, o, k) ==
    /\ pc[w] = "idle"
    /\ o = "insert" => Len(node) + Cardinality({v \in Writers : call[v].op = o}) < MaxNodes
    /\ call' = [call EXCEPT ![w] = [op |-> o, key |-> k]]
    /\ Goto(w, "mutex")
    /\ UNCHANGED <<lock, nodes, cur, ld, waiting, found, history>>

(* The mutex, the look whether this still is the bin, the search for the key *)
TakeMutex(w) ==
    LET k == call[w].key
        old == NodeOf(k, tree)
        nothing == replaced \/ (Outcome(w) <=> old # {})
    IN
    /\ pc[w] = "mutex" /\ mutex = Nobody
    /\ mutex' = w
    /\ cur' = [cur EXCEPT ![w] = IF nothing \/ Outcome(w) THEN 0 ELSE CHOOSE n \in old : TRUE]
    /\ Goto(w, IF nothing THEN "release" ELSE IF Outcome(w) THEN "insertFirst" ELSE "unlink")
    /\ allowed' = IF nothing THEN allowed
                  ELSE [r \in Readers |-> IF pc[r] # "idle" /\ call[r].key = k
                                          THEN allowed[r] \cup {Outcome(w)} ELSE allowed[r]]
    /\ UNCHANGED <<lockState, waiter, token, nodes, call, ld, waiting, found, present>>

(* Mutant: the new node is not linked to the list behind it. *)
InsertFirstCut(w) ==
    LET x == Len(node) + 1 IN
    /\ pc[w] = "insertFirst"
    /\ node' = Append([n \in DOMAIN node |->
                          IF n = first THEN [node[n] EXCEPT !.prev = x] ELSE node[n]],
                      [key |-> call[w].key, next |-> 0, prev |-> 0])
    /\ first' = x
    /\ cur' = [cur EXCEPT ![w] = x]
    /\ Goto(w, "insertLeaf")
    /\ UNCHANGED <<lock, tree, replaced, call, ld, waiting, found, history>>

(* The new node becomes the first of the list ... *)
InsertFirst(w) ==
    LET x == Len(node) + 1 IN
    /\ pc[w] = "insertFirst"
    /\ node' = Append([n \in DOMAIN node |->
                          IF n = first THEN [node[n] EXCEPT !.prev = x] ELSE node[n]],
                      [key |-> call[w].key, next |-> first, prev |-> 0])
    /\ first' = x
    /\ cur' = [cur EXCEPT ![w] = x]
    /\ Goto(w, "insertLeaf")
    /\ UNCHANGED <<lock, tree, replaced, call, ld, waiting, found, history>>

(* ... then a leaf of the tree.  Under a red parent the tree must be
   rebalanced. *)
InsertLeaf(w, red) ==
    /\ pc[w] = "insertLeaf"
    /\ tree' = tree \cup {cur[w]}
    /\ Goto(w, IF red THEN "lockRoot" ELSE "release")
    /\ UNCHANGED <<lock, node, first, replaced, call, cur, ld, waiting, found, history>>

(* Mutant: the next node keeps the removed one as its predecessor. *)
UnlinkForward(w) ==
    LET p == cur[w]  before == node[p].prev  after == node[p].next IN
    /\ pc[w] = "unlink"
    /\ first' = IF before = 0 THEN after ELSE first
    /\ node' = IF before = 0 THEN node ELSE [node EXCEPT ![before].next = after]
    /\ Goto(w, "shape")
    /\ UNCHANGED <<lock, tree, replaced, call, cur, ld, waiting, found, history>>

Unlink(w) ==
    LET p == cur[w]  before == node[p].prev  after == node[p].next IN
    /\ pc[w] = "unlink"
    /\ first' = IF before = 0 THEN after ELSE first
    /\ node' = [n \in DOMAIN node |->
                   CASE n = before -> [node[n] EXCEPT !.next = after]
                     [] n = after  -> [node[n] EXCEPT !.prev = before]
                     [] OTHER      -> node[n]]
    /\ Goto(w, "shape")
    /\ UNCHANGED <<lock, tree, replaced, call, cur, ld, waiting, found, history>>

(* Few nodes are left: the caller will put a list in place of this bin. *)
TooSmall(w) ==
    /\ pc[w] = "shape"
    /\ tree' = IF first = 0 THEN {} ELSE tree
    /\ Goto(w, "untreeify")
    /\ UNCHANGED <<lock, node, first, replaced, call, cur, ld, waiting, found, history>>

LargeEnough(w) ==
    /\ pc[w] = "shape" /\ first # 0
    /\ Goto(w, "lockRoot")
    /\ UNCHANGED <<lock, nodes, call, cur, ld, waiting, found, history>>

Untreeify(w) ==
    /\ pc[w] = "untreeify"
    /\ replaced' = TRUE
    /\ Goto(w, "release")
    /\ UNCHANGED <<lock, node, first, tree, call, cur, ld, waiting, found, history>>

(* What the root lock protects: between its two ends no search of the tree
   finds what it should. *)
Rebalance(w) ==
    /\ pc[w] = "rebalance"
    /\ tree' = IF Outcome(w) THEN tree ELSE tree \ {cur[w]}
    /\ Goto(w, "unlockRoot")
    /\ UNCHANGED <<lock, node, first, replaced, call, cur, ld, waiting, found, history>>

UnlockRoot(w) ==
    /\ pc[w] = "unlockRoot"
    /\ lockState' = Free
    /\ Goto(w, "release")
    /\ UNCHANGED <<mutex, waiter, token, nodes, call, cur, ld, waiting, found, history>>

Release(w) ==
    /\ pc[w] = "release"
    /\ mutex' = Nobody
    /\ Goto(w, "idle")
    /\ present' = IF replaced /\ cur[w] = 0 THEN present
                  ELSE IF Outcome(w) THEN present \cup {call[w].key}
                  ELSE present \ {call[w].key}
    /\ call' = [call EXCEPT ![w] = [op |-> "none"]]
    /\ cur' = [cur EXCEPT ![w] = 0]
    /\ waiting' = [waiting EXCEPT ![w] = FALSE]
    /\ UNCHANGED <<lockState, waiter, token, nodes, ld, found, allowed>>

-----------------------------------------------------------------------------
(* lock_root and contended_lock *)

LockRoot(w) ==
    /\ pc[w] = "lockRoot"
    /\ IF lockState = Free
       THEN lockState' = WriterOnly /\ Goto(w, "rebalance")
       ELSE Goto(w, "lockLoad") /\ UNCHANGED lockState
    /\ UNCHANGED <<mutex, waiter, token, nodes, call, cur, ld, waiting, found, history>>

LockLoad(w) ==
    /\ pc[w] = "lockLoad"
    /\ IF ~lockState.writer /\ lockState.readers = 0
       THEN Goto(w, "lockTake") /\ ld' = [ld EXCEPT ![w] = lockState]
       ELSE IF ~lockState.waiter
       THEN Goto(w, "lockWait") /\ ld' = [ld EXCEPT ![w] = lockState]
       ELSE Goto(w, IF waiting[w] THEN "park" ELSE "lockLoad") /\ UNCHANGED ld
    /\ UNCHANGED <<lock, nodes, call, cur, waiting, found, history>>

(* Mutant: the writer stores WRITER over whatever lock_state is by now. *)
LockTakeBlind(w) ==
    /\ pc[w] = "lockTake"
    /\ lockState' = WriterOnly
    /\ Goto(w, IF waiting[w] THEN "clearWaiter" ELSE "rebalance")
    /\ UNCHANGED <<mutex, waiter, token, nodes, call, cur, ld, waiting, found, history>>

LockTake(w) ==
    /\ pc[w] = "lockTake"
    /\ IF lockState = ld[w]
       THEN /\ lockState' = WriterOnly
            /\ Goto(w, IF waiting[w] THEN "clearWaiter" ELSE "rebalance")
       ELSE Goto(w, "lockLoad") /\ UNCHANGED lockState
    /\ ld' = [ld EXCEPT ![w] = Free]
    /\ UNCHANGED <<mutex, waiter, token, nodes, call, cur, waiting, found, history>>

(* Mutant: the handle stays in `waiter` once the lock is held. *)
ClearWaiterNot(w) ==
    /\ pc[w] = "clearWaiter"
    /\ Goto(w, "rebalance")
    /\ UNCHANGED <<lock, nodes, call, cur, ld, waiting, found, history>>

ClearWaiter(w) ==
    /\ pc[w] = "clearWaiter"
    /\ waiter' = Nobody
    /\ Goto(w, "rebalance")
    /\ UNCHANGED <<mutex, lockState, token, nodes, call, cur, ld, waiting, found, history>>

(* Mutant: the thread goes to sleep without having left its handle. *)
LockWaitNoHandle(w) ==
    /\ pc[w] = "lockWait"
    /\ IF lockState = ld[w]
       THEN /\ lockState' = [ld[w] EXCEPT !.waiter = TRUE]
            /\ waiting' = [waiting EXCEPT ![w] = TRUE]
            /\ Goto(w, "park")
       ELSE Goto(w, "lockLoad") /\ UNCHANGED <<lockState, waiting>>
    /\ UNCHANGED <<mutex, waiter, token, nodes, call, cur, ld, found, history>>

LockWait(w) ==
    /\ pc[w] = "lockWait"
    /\ IF lockState = ld[w]
       THEN /\ lockState' = [ld[w] EXCEPT !.waiter = TRUE]
            /\ waiting' = [waiting EXCEPT ![w] = TRUE]
            /\ Goto(w, "setWaiter")
       ELSE Goto(w, "lockLoad") /\ UNCHANGED <<lockState, waiting>>
    /\ ld' = [ld EXCEPT ![w] = Free]
    /\ UNCHANGED <<mutex, waiter, token, nodes, call, cur, found, history>>

SetWaiter(w) ==
    /\ pc[w] = "setWaiter"
    /\ waiter' = w
    /\ Goto(w, "lockLoad")
    /\ UNCHANGED <<mutex, lockState, token, nodes, call, cur, ld, waiting, found, history>>

(* park() returns once the token is there, and takes it. *)
Park(w) ==
    /\ pc[w] = "park" /\ token[w]
    /\ token' = [token EXCEPT ![w] = FALSE]
    /\ Goto(w, "lockLoad")
    /\ UNCHANGED <<mutex, lockState, waiter, nodes, call, cur, ld, waiting, found, history>>

(* It may also return for no reason. *)
ParkSpurious(w) ==
    /\ pc[w] = "park"
    /\ Goto(w, "lockLoad")
    /\ UNCHANGED <<lock, nodes, call, cur, ld, waiting, found, history>>

-----------------------------------------------------------------------------
Find(r) ==
    \/ FindFirst(r) \/ FindState(r) \/ FindVisit(r) \/ FindEnter(r) \/ FindTree(r)
    \/ FindLeave(r) \/ FindWake(r) \/ FindReturn(r)

Update(w) ==
    \/ InsertFirst(w) \/ (\E red \in BOOLEAN : InsertLeaf(w, red))
    \/ Unlink(w) \/ TooSmall(w) \/ LargeEnough(w) \/ Untreeify(w)
    \/ Rebalance(w) \/ UnlockRoot(w) \/ Release(w)
    \/ LockRoot(w) \/ LockLoad(w) \/ LockTake(w) \/ ClearWaiter(w)
    \/ LockWait(w) \/ SetWaiter(w) \/ Park(w)

Next ==
    \/ \E r \in Readers : Find(r) \/ \E k \in Keys : FindBegin(r, k)
    \/ \E w \in Writers :
          \/ Update(w) \/ TakeMutex(w) \/ ParkSpurious(w)
          \/ \E o \in {"insert", "remove"}, k \in Keys : UpdateBegin(w, o, k)

Spec == Init /\ [][Next]_vars

(* A thread never stops between two of its steps; nothing is asked of park's
   spurious returns, nor of who gets the mutex. *)
FairSpec ==
    /\ Spec
    /\ \A r \in Readers : WF_vars(Find(r))
    /\ \A w \in Writers : WF_vars(Update(w))

-----------------------------------------------------------------------------
(* Properties *)

FindPcs == {"idle", "findFirst", "findState", "findVisit", "findEnter", "findTree",
            "findLeave", "findWake", "findDone"}
UpdatePcs == {"idle", "mutex", "insertFirst", "insertLeaf", "unlink", "shape", "untreeify",
              "lockRoot", "lockLoad", "lockTake", "clearWaiter", "lockWait", "setWaiter",
              "park", "rebalance", "unlockRoot", "release"}

LockStates == [writer : BOOLEAN, waiter : BOOLEAN, readers : Nat]

(* Every variable stays in its domain: lock_state never counts readers below
   zero, and never holds a writer together with readers or with a waiter. *)
TypeOK ==
    /\ mutex \in Writers \cup {Nobody} /\ waiter \in Writers \cup {Nobody}
    /\ lockState \in LockStates
    /\ lockState.writer => lockState = WriterOnly
    /\ token \in [Writers -> BOOLEAN] /\ waiting \in [Writers -> BOOLEAN]
    /\ pc \in [Threads -> FindPcs \cup UpdatePcs]
    /\ ld \in [Threads -> LockStates]
    /\ replaced \in BOOLEAN

(* While a writer rebalances the tree nobody searches it. *)
WriterAlone ==
    \A w \in Writers, r \in Readers :
        ~(pc[w] = "rebalance" /\ pc[r] \in {"findTree", "findLeave"})

(* The slot for the waiting thread is free when one comes to wait (`assert!
   (waiter.is_null())` in contended_lock), so no handle is lost. *)
WaiterSlotFree == \A w \in Writers : pc[w] = "setWaiter" => waiter = Nobody

(* No wakeup is lost: a writer that sleeps without a token has a reader ahead
   of it, still in the tree or on its way to wake it. *)
SleeperHasWaker ==
    \A w \in Writers :
        pc[w] = "park" /\ ~token[w]
            => /\ waiter = w
               /\ \E r \in Readers : pc[r] \in {"findTree", "findLeave", "findWake"}

(* find finds a key that is in the bin during the whole call and does not
   find one that is not, whether it walks the list or searches the tree or
   changes from one to the other on its way; with an update of that key in
   progress it may answer either way. *)
FindRegular == \A r \in Readers : pc[r] = "findDone" => found[r] \in allowed[r]

(* Between updates the list and the tree hold the same nodes: a find gives the
   same answer on either way. *)
ListIsTree ==
    LET from[n \in 0..Len(node)] == IF n = 0 THEN {} ELSE {n} \cup from[node[n].next]
    IN mutex = Nobody /\ ~replaced => from[first] = tree

(* A writer that has said it waits gets the lock, however many readers come. *)
WaiterServed ==
    \A w \in Writers : pc[w] = "setWaiter" ~> pc[w] = "rebalance"
=============================================================================
