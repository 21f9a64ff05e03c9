--------------------------- MODULE TreeBin_proofs ---------------------------
(***************************************************************************)
(* Proofs about TreeBin for any number of readers, writers and keys.       *)
(* First the lock: nobody searches a tree that is being rebalanced, no     *)
(* handle of a waiting thread is overwritten, and no wakeup is lost.  Then *)
(* the nodes: a search answers what the bin holds, on either of its ways,  *)
(* and list and tree agree between updates.                                *)
(***************************************************************************)
EXTENDS TreeBin, FiniteSetTheorems, NaturalsInduction, WellFoundedInduction,
        SequenceTheorems, TLAPS

(* The readers that lock_state counts *)
InTree == {r \in Readers : pc[r] \in {"findTree", "findLeave"}}

(* A writer at one of HoldPcs has the WRITER bit; at one of WaitPcs it is in
   contended_lock; SlotPcs are the steps from which it has left its handle. *)
HoldPcs == {"clearWaiter", "rebalance", "unlockRoot"}
WaitPcs == {"lockLoad", "lockTake", "setWaiter", "park"}
SlotPcs == {"lockLoad", "lockTake", "park", "clearWaiter"}

Types ==
    /\ mutex \in Writers \cup {Nobody} /\ waiter \in Writers \cup {Nobody}
    /\ lockState \in LockStates
    /\ token \in [Writers -> BOOLEAN] /\ waiting \in [Writers -> BOOLEAN]
    /\ pc \in [Threads -> FindPcs \cup UpdatePcs]
    /\ ld \in [Threads -> LockStates]
    /\ replaced \in BOOLEAN
    /\ \A r \in Readers : pc[r] \in FindPcs
    /\ \A w \in Writers : pc[w] \in UpdatePcs

(* The bin's mutex: at most one writer is past it. *)
MutexHeld == \A w \in Writers : pc[w] \notin {"idle", "mutex"} => mutex = w

ReadersCounted == lockState.readers = Cardinality(InTree)

(* The WRITER bit is its holder's; it never meets a reader or a waiter. *)
WriterBit ==
    /\ lockState.writer => lockState = WriterOnly
    /\ \A w \in Writers : pc[w] \in HoldPcs => lockState.writer
    /\ lockState.writer => \E w \in Writers : pc[w] \in HoldPcs

(* The WAITER bit stands for one writer that waits. *)
WaiterBit ==
    /\ lockState.waiter => \E w \in Writers : waiting[w] /\ pc[w] \in WaitPcs
    /\ \A w \in Writers :
          /\ waiting[w] /\ pc[w] \in WaitPcs => lockState.waiter
          /\ waiting[w] => pc[w] \in WaitPcs \cup HoldPcs \cup {"release"}
          /\ pc[w] \in {"setWaiter", "park", "clearWaiter"} => waiting[w]

(* Its handle is in `waiter` from setWaiter until it takes it back. *)
WaiterSlot ==
    /\ waiter # Nobody => waiting[waiter] /\ pc[waiter] \in SlotPcs
    /\ \A w \in Writers : waiting[w] /\ pc[w] \in SlotPcs => waiter = w

(* What a thread knows of the lock_state that its compare-and-swap expects *)
Expected ==
    /\ \A r \in Readers : pc[r] = "findEnter" => ~ld[r].writer /\ ~ld[r].waiter
    /\ \A w \in Writers :
          /\ pc[w] = "lockTake" => ~ld[w].writer /\ ld[w].readers = 0
          /\ pc[w] = "lockWait" => ~ld[w].writer /\ ~waiting[w]

(* A sleeper without a token has a reader ahead of it. *)
Sleepers ==
    \A w \in Writers :
        pc[w] = "park" /\ ~token[w]
            => \E r \in Readers : pc[r] \in {"findTree", "findLeave", "findWake"}

IInv ==
    /\ Types /\ MutexHeld /\ ReadersCounted /\ WriterBit
    /\ WaiterBit /\ WaiterSlot /\ Expected /\ Sleepers

-----------------------------------------------------------------------------
LEMMA InTreeFinite == IsFiniteSet(InTree)
<1> QED
  BY ThreadsAssumption, FS_Subset DEF InTree

LEMMA ReaderNotWriter ==
    /\ \A r \in Readers : r \in Threads /\ r \notin Writers
    /\ \A w \in Writers : w \in Threads /\ w \notin Readers /\ w # Nobody
<1> QED
  BY ThreadsAssumption DEF Threads

(* A step of a find that touches neither lock_state nor the tokens *)
LEMMA ReaderMoves ==
    ASSUME IInv, NEW r \in Readers, NEW l \in FindPcs,
           pc' = [pc EXCEPT ![r] = l],
           pc[r] \notin {"findTree", "findLeave", "findWake"},
           l \notin {"findTree", "findLeave", "findWake"},
           ld' \in [Threads -> LockStates],
           \A w \in Writers : ld'[w] = ld[w],
           \A q \in Readers : q # r => ld'[q] = ld[q],
           l = "findEnter" => ~ld'[r].writer /\ ~ld'[r].waiter,
           UNCHANGED <<lock, replaced, waiting>>
    PROVE  IInv'
<1> USE ReaderNotWriter
<1>1. Types'
  BY DEF IInv, Types, lock
<1>2. InTree' = InTree
  BY DEF IInv, Types, InTree
<1>3. ReadersCounted'
  BY <1>2 DEF IInv, ReadersCounted, lock
<1>4. \A w \in Writers : pc'[w] = pc[w]
  BY DEF IInv, Types
<1>5. MutexHeld' /\ WriterBit' /\ WaiterBit' /\ WaiterSlot'
  BY <1>4 DEF IInv, Types, MutexHeld, WriterBit, WaiterBit, WaiterSlot, lock
<1>6. Expected'
  BY <1>4 DEF IInv, Types, Expected
<1>7. Sleepers'
  <2> SUFFICES ASSUME NEW w \in Writers, pc'[w] = "park", ~token'[w]
               PROVE  \E q \in Readers : pc'[q] \in {"findTree", "findLeave", "findWake"}
    BY DEF Sleepers
  <2>1. PICK q \in Readers : pc[q] \in {"findTree", "findLeave", "findWake"}
    BY <1>4 DEF IInv, Sleepers, lock
  <2> QED
    BY <2>1 DEF IInv, Types
<1> QED
  BY <1>1, <1>3, <1>5, <1>6, <1>7 DEF IInv

(* ... nor to the lock_state it expects *)
LEMMA ReaderGoes ==
    ASSUME IInv, NEW r \in Readers, NEW l \in FindPcs,
           pc' = [pc EXCEPT ![r] = l],
           pc[r] \notin {"findTree", "findLeave", "findWake"},
           l \notin {"findTree", "findLeave", "findWake", "findEnter"},
           UNCHANGED <<lock, replaced, waiting, ld>>
    PROVE  IInv'
<1>1. ld \in [Threads -> LockStates]
  BY DEF IInv, Types
<1> QED
  BY <1>1, ReaderMoves

LEMMA FindInv ==
    ASSUME IInv, NEW r \in Readers, Find(r) \/ \E k \in Keys : FindBegin(r, k)
    PROVE  IInv'
<1> USE ReaderNotWriter
<1> DEFINE InPcs == {"findTree", "findLeave", "findWake"}
<1>0. /\ lockState \in LockStates /\ ld[r] \in LockStates
      /\ Cardinality(InTree) \in Nat
  BY InTreeFinite, FS_CardinalityType DEF IInv, Types
<1>1. CASE \E k \in Keys : FindBegin(r, k)
  <2>1. /\ "findFirst" \in FindPcs
        /\ pc[r] = "idle" /\ pc' = [pc EXCEPT ![r] = "findFirst"]
        /\ UNCHANGED <<lock, replaced, waiting, ld>>
    BY <1>1 DEF FindPcs, FindBegin, Goto, nodes
  <2> QED
    BY <2>1, ReaderGoes
<1>2. CASE FindFirst(r)
  <2>1. /\ "findState" \in FindPcs
        /\ pc[r] = "findFirst" /\ pc' = [pc EXCEPT ![r] = "findState"]
        /\ UNCHANGED <<lock, replaced, waiting, ld>>
    BY <1>2 DEF FindPcs, FindFirst, Goto, nodes
  <2> QED
    BY <2>1, ReaderGoes
<1>3. CASE FindState(r)
  <2>1. {"findDone", "findVisit", "findEnter"} \subseteq FindPcs
    BY DEF FindPcs
  <2>a. pc[r] = "findState" /\ UNCHANGED <<lock, replaced, waiting>>
    BY <1>3 DEF FindState, nodes
  <2>2. CASE cur[r] = 0
    <3>1. pc' = [pc EXCEPT ![r] = "findDone"] /\ UNCHANGED ld
      BY <1>3, <2>2 DEF FindState, Goto
    <3> QED
      BY <2>1, <2>a, <3>1, ReaderGoes
  <2>3. CASE cur[r] # 0 /\ (lockState.writer \/ lockState.waiter)
    <3>1. pc' = [pc EXCEPT ![r] = "findVisit"] /\ UNCHANGED ld
      BY <1>3, <2>3 DEF FindState, Goto
    <3> QED
      BY <2>1, <2>a, <3>1, ReaderGoes
  <2>4. CASE cur[r] # 0 /\ ~(lockState.writer \/ lockState.waiter)
    <3>1. ld' = [ld EXCEPT ![r] = lockState]
      BY <1>3, <2>4 DEF FindState
    <3>2. /\ ld' \in [Threads -> LockStates] /\ ld'[r] = lockState
          /\ \A t \in Threads : t # r => ld'[t] = ld[t]
      BY <3>1, <1>0 DEF IInv, Types
    <3>3. pc' = [pc EXCEPT ![r] = "findEnter"]
      BY <1>3, <2>4 DEF FindState, Goto
    <3> QED
      BY <2>1, <2>4, <2>a, <3>2, <3>3, ReaderMoves
  <2> QED
    BY <2>2, <2>3, <2>4
<1>4. CASE FindVisit(r)
  <2>1. {"findDone", "findState"} \subseteq FindPcs
    BY DEF FindPcs
  <2>2. /\ pc[r] = "findVisit" /\ UNCHANGED <<lock, replaced, waiting, ld>>
        /\ \E l \in {"findDone", "findState"} : pc' = [pc EXCEPT ![r] = l]
    BY <1>4 DEF FindVisit, Goto, nodes
  <2> QED
    BY <2>1, <2>2, ReaderGoes
<1>5. CASE FindEnter(r)
  <2> {"findTree", "findState"} \subseteq FindPcs
    BY DEF FindPcs
  <2>0. /\ ld' = [ld EXCEPT ![r] = Free] /\ Free \in LockStates
        /\ ~Free.writer /\ ~Free.waiter
    BY <1>5 DEF FindEnter, LockStates, Free
  <2>1. CASE lockState # ld[r]
    <3>1. /\ pc[r] = "findEnter" /\ pc' = [pc EXCEPT ![r] = "findState"]
          /\ UNCHANGED <<lock, replaced, waiting>>
      BY <1>5, <2>1 DEF FindEnter, Goto, lock, nodes
    <3>2. /\ ld' \in [Threads -> LockStates]
          /\ \A t \in Threads : t # r => ld'[t] = ld[t]
      BY <2>0 DEF IInv, Types
    <3> QED
      BY <3>1, <3>2, ReaderMoves
  <2>2. CASE lockState = ld[r]
    <3>1. /\ lockState' = [lockState EXCEPT !.readers = @ + 1]
          /\ pc' = [pc EXCEPT ![r] = "findTree"]
          /\ UNCHANGED <<mutex, waiter, token, waiting, replaced>>
          /\ pc[r] = "findEnter"
      BY <1>5, <2>2 DEF FindEnter, Goto, nodes
    <3>2. /\ ~lockState.writer /\ ~lockState.waiter
          /\ lockState' \in LockStates
          /\ ~lockState'.writer /\ ~lockState'.waiter
          /\ lockState'.readers = lockState.readers + 1
      BY <1>0, <2>2, <3>1 DEF IInv, Expected, LockStates
    <3>3. Types'
      BY <2>0, <3>1, <3>2 DEF IInv, Types
    <3>4. ReadersCounted'
      <4>1. InTree' = InTree \cup {r} /\ r \notin InTree
        BY <3>1 DEF IInv, Types, InTree
      <4> QED
        BY <4>1, <3>2, InTreeFinite, FS_AddElement DEF IInv, ReadersCounted
    <3>5. \A w \in Writers : pc'[w] = pc[w] /\ ld'[w] = ld[w]
      BY <2>0, <3>1 DEF IInv, Types
    <3>6. MutexHeld' /\ WriterBit' /\ WaiterBit' /\ WaiterSlot'
      BY <3>1, <3>2, <3>5 DEF IInv, Types, MutexHeld, WriterBit, WaiterBit, WaiterSlot
    <3>7. Expected'
      BY <2>0, <3>1, <3>5 DEF IInv, Types, Expected
    <3>8. Sleepers'
      BY <3>1 DEF IInv, Types, Sleepers
    <3> QED
      BY <3>3, <3>4, <3>6, <3>7, <3>8 DEF IInv
  <2> QED
    BY <2>1, <2>2
<1>6. CASE FindTree(r)
  <2>1. "findLeave" \in FindPcs
    BY DEF FindPcs
  <2>2. /\ pc' = [pc EXCEPT ![r] = "findLeave"] /\ pc[r] = "findTree"
        /\ UNCHANGED <<lock, replaced, waiting, ld>>
    BY <1>6 DEF FindTree, Goto, nodes
  <2>3. Types'
    BY <2>1, <2>2 DEF IInv, Types, lock
  <2>4. InTree' = InTree
    BY <2>2 DEF IInv, Types, InTree
  <2>5. ReadersCounted'
    BY <2>2, <2>4 DEF IInv, ReadersCounted, lock
  <2>6. \A w \in Writers : pc'[w] = pc[w]
    BY <2>2 DEF IInv, Types
  <2>7. MutexHeld' /\ WriterBit' /\ WaiterBit' /\ WaiterSlot' /\ Expected'
    BY <2>2, <2>6 DEF IInv, Types, MutexHeld, WriterBit, WaiterBit, WaiterSlot, Expected, lock
  <2>8. Sleepers'
    BY <2>2 DEF IInv, Types, Sleepers, lock
  <2> QED
    BY <2>3, <2>5, <2>7, <2>8 DEF IInv
<1>7. CASE FindLeave(r)
  <2>0. {"findWake", "findDone"} \subseteq FindPcs
    BY DEF FindPcs
  <2>1. /\ pc[r] = "findLeave" /\ r \in InTree
        /\ pc' = [pc EXCEPT ![r] = pc'[r]] /\ pc'[r] \in {"findWake", "findDone"}
        /\ lockState' = [lockState EXCEPT !.readers = @ - 1]
        /\ UNCHANGED <<mutex, waiter, token, waiting, replaced, ld>>
    BY <1>7 DEF FindLeave, Goto, nodes, InTree, IInv, Types
  <2>2. InTree' = InTree \ {r}
    BY <2>1 DEF IInv, Types, InTree
  <2>3. /\ Cardinality(InTree') = Cardinality(InTree) - 1
        /\ Cardinality(InTree') \in Nat
    BY <2>1, <2>2, InTreeFinite, FS_RemoveElement, FS_CardinalityType
  <2>4. /\ lockState.readers \in Nat \ {0} /\ ~lockState.writer
        /\ lockState' \in LockStates /\ lockState'.readers = lockState.readers - 1
        /\ lockState'.writer = FALSE /\ lockState'.waiter = lockState.waiter
    BY <1>0, <2>1, <2>3 DEF IInv, ReadersCounted, WriterBit, WriterOnly, Free, LockStates
  <2>5. Types'
    BY <2>0, <2>1, <2>4 DEF IInv, Types
  <2>6. ReadersCounted'
    BY <2>3, <2>4 DEF IInv, ReadersCounted
  <2>7. \A w \in Writers : pc'[w] = pc[w]
    BY <2>1 DEF IInv, Types
  <2>8. MutexHeld' /\ WriterBit' /\ WaiterBit' /\ WaiterSlot' /\ Expected'
    BY <2>1, <2>4, <2>7 DEF IInv, Types, MutexHeld, WriterBit, WaiterBit, WaiterSlot, Expected
  <2>9. Sleepers'
    <3> SUFFICES ASSUME NEW w \in Writers, pc'[w] = "park"
                 PROVE  \E q \in Readers : pc'[q] \in InPcs
      BY DEF Sleepers
    <3>1. lockState.waiter
      BY <2>7 DEF IInv, WaiterBit, WaitPcs
    <3>2. CASE lockState.readers = 1
      <4>1. lockState = [writer |-> FALSE, waiter |-> TRUE, readers |-> 1]
        BY <1>0, <2>4, <3>1, <3>2 DEF LockStates
      <4>2. pc'[r] = "findWake"
        BY <4>1, <1>7 DEF FindLeave, Goto, IInv, Types
      <4> QED
        BY <4>2
    <3>3. CASE lockState.readers # 1
      <4>1. Cardinality(InTree') # 0
        BY <2>3, <2>4, <2>6, <3>3 DEF IInv, ReadersCounted
      <4>2. InTree' # {}
        BY <4>1, FS_EmptySet
      <4>3. PICK q \in InTree' : TRUE
        BY <4>2
      <4> QED
        BY <4>3 DEF InTree
    <3> QED
      BY <3>2, <3>3
  <2> QED
    BY <2>5, <2>6, <2>8, <2>9 DEF IInv
<1>8. CASE FindWake(r)
  <2>0. "findDone" \in FindPcs
    BY DEF FindPcs
  <2>1. /\ pc[r] = "findWake" /\ pc' = [pc EXCEPT ![r] = "findDone"]
        /\ waiter # Nobody => token' = [token EXCEPT ![waiter] = TRUE]
        /\ waiter = Nobody => token' = token
        /\ UNCHANGED <<mutex, lockState, waiter, waiting, replaced, ld>>
    BY <1>8 DEF FindWake, Goto, nodes
  <2>2. Types'
    BY <2>0, <2>1 DEF IInv, Types
  <2>3. InTree' = InTree
    BY <2>1 DEF IInv, Types, InTree
  <2>4. ReadersCounted'
    BY <2>1, <2>3 DEF IInv, ReadersCounted
  <2>5. \A w \in Writers : pc'[w] = pc[w]
    BY <2>1 DEF IInv, Types
  <2>6. MutexHeld' /\ WriterBit' /\ WaiterBit' /\ WaiterSlot' /\ Expected'
    BY <2>1, <2>5 DEF IInv, Types, MutexHeld, WriterBit, WaiterBit, WaiterSlot, Expected
  <2>7. Sleepers'  \* the handle in `waiter` is the sleeper's: it has its token
    <3> SUFFICES ASSUME NEW w \in Writers, pc'[w] = "park" PROVE token'[w]
      BY DEF Sleepers
    <3>1. waiter = w
      BY <2>5 DEF IInv, WaiterBit, WaiterSlot, SlotPcs
    <3> QED
      BY <2>1, <3>1 DEF IInv, Types
  <2> QED
    BY <2>2, <2>4, <2>6, <2>7 DEF IInv
<1>9. CASE FindReturn(r)
  <2>1. /\ "idle" \in FindPcs
        /\ pc[r] = "findDone" /\ pc' = [pc EXCEPT ![r] = "idle"]
        /\ UNCHANGED <<lock, replaced, waiting, ld>>
    BY <1>9 DEF FindPcs, FindReturn, Goto, nodes
  <2> QED
    BY <2>1, ReaderGoes
<1> QED
  BY <1>1, <1>2, <1>3, <1>4, <1>5, <1>6, <1>7, <1>8, <1>9 DEF Find

-----------------------------------------------------------------------------
(* The steps of an update away from the root lock *)
QuietPcs == {"idle", "mutex", "insertFirst", "insertLeaf", "unlink", "shape", "untreeify",
             "lockRoot", "release"}

(* A step of a writer leaves the readers where they are. *)
LEMMA WriterKeepsReaders ==
    ASSUME IInv, NEW w \in Writers, pc' = [pc EXCEPT ![w] = pc'[w]]
    PROVE  /\ \A r \in Readers : pc'[r] = pc[r]
           /\ InTree' = InTree
           /\ \A v \in Writers : v # w => pc'[v] = pc[v]
<1>1. \A r \in Readers : pc'[r] = pc[r]
  BY ReaderNotWriter DEF IInv, Types
<1> QED
  BY <1>1, ReaderNotWriter DEF IInv, Types, InTree

(* At most one writer is past the mutex. *)
LEMMA OneWriter ==
    ASSUME IInv, NEW w \in Writers, NEW v \in Writers, v # w,
           pc[w] \notin {"idle", "mutex"}
    PROVE  pc[v] \in {"idle", "mutex"}
<1> QED
  BY DEF IInv, MutexHeld

LEMMA WriterMoves ==
    ASSUME IInv, NEW w \in Writers, NEW l \in QuietPcs, pc[w] \in QuietPcs,
           pc' = [pc EXCEPT ![w] = l],
           UNCHANGED <<lockState, waiter, token, ld>>,
           \/ mutex' = mutex /\ pc[w] \notin {"idle", "mutex"}
           \/ mutex' = mutex /\ l \in {"idle", "mutex"}
           \/ mutex = Nobody /\ mutex' = w
           \/ mutex = w /\ mutex' = Nobody /\ l = "idle",
           waiting' \in [Writers -> BOOLEAN], ~waiting'[w],
           \A v \in Writers : v # w => waiting'[v] = waiting[v],
           replaced' \in BOOLEAN
    PROVE  IInv'
<1> USE ReaderNotWriter
<1>1. /\ pc'[w] = l
      /\ \A r \in Readers : pc'[r] = pc[r]
      /\ \A v \in Writers : v # w => pc'[v] = pc[v]
      /\ InTree' = InTree
  BY WriterKeepsReaders DEF IInv, Types
<1>2. Types'
  <2>1. l \in UpdatePcs
    BY DEF QuietPcs, UpdatePcs
  <2> QED
    BY <1>1, <2>1 DEF IInv, Types
<1>3. MutexHeld'
  BY <1>1 DEF IInv, MutexHeld
<1>4. ReadersCounted'
  BY <1>1 DEF IInv, ReadersCounted
<1>5. WriterBit'
  BY <1>1 DEF IInv, WriterBit, QuietPcs, HoldPcs
<1>6. WaiterBit'
  BY <1>1 DEF IInv, WaiterBit, QuietPcs, WaitPcs, HoldPcs
<1>7. WaiterSlot'
  BY <1>1 DEF IInv, Types, WaiterSlot, QuietPcs, SlotPcs
<1>8. Expected'
  BY <1>1 DEF IInv, Types, Expected, QuietPcs
<1>9. Sleepers'
  BY <1>1 DEF IInv, Sleepers, QuietPcs
<1> QED
  BY <1>2, <1>3, <1>4, <1>5, <1>6, <1>7, <1>8, <1>9 DEF IInv

LEMMA UpdateQuietInv ==
    ASSUME IInv, NEW w \in Writers,
           \/ \E o \in {"insert", "remove"}, k \in Keys : UpdateBegin(w, o, k)
           \/ TakeMutex(w) \/ InsertFirst(w) \/ \E red \in BOOLEAN : InsertLeaf(w, red)
           \/ Unlink(w) \/ TooSmall(w) \/ LargeEnough(w) \/ Untreeify(w) \/ Release(w)
    PROVE  IInv'
<1> USE WriterMoves DEF Goto, lock, nodes, QuietPcs
<1>0. /\ waiting \in [Writers -> BOOLEAN] /\ replaced \in BOOLEAN
      /\ pc[w] \in QuietPcs \ {"release"} => ~waiting[w]
      /\ pc[w] \notin {"idle", "mutex"} => mutex = w
  BY DEF IInv, Types, WaiterBit, MutexHeld, WaitPcs, HoldPcs
<1>1. CASE \E o \in {"insert", "remove"}, k \in Keys : UpdateBegin(w, o, k)
  <2>1. /\ pc[w] = "idle" /\ pc' = [pc EXCEPT ![w] = "mutex"]
        /\ UNCHANGED <<mutex, lockState, waiter, token, ld, waiting, replaced>>
    BY <1>1 DEF UpdateBegin
  <2>2. ~waiting[w] /\ "mutex" \in QuietPcs /\ pc[w] \in QuietPcs
    BY <1>0, <2>1
  <2> QED
    BY <1>0, <2>1, <2>2
<1>2. CASE TakeMutex(w)
  BY <1>0, <1>2 DEF TakeMutex
<1>3. CASE InsertFirst(w)
  BY <1>0, <1>3 DEF InsertFirst
<1>4. CASE \E red \in BOOLEAN : InsertLeaf(w, red)
  BY <1>0, <1>4 DEF InsertLeaf
<1>5. CASE Unlink(w)
  BY <1>0, <1>5 DEF Unlink
<1>6. CASE TooSmall(w)
  BY <1>0, <1>6 DEF TooSmall
<1>7. CASE LargeEnough(w)
  BY <1>0, <1>7 DEF LargeEnough
<1>8. CASE Untreeify(w)
  BY <1>0, <1>8 DEF Untreeify
<1>9. CASE Release(w)
  BY <1>0, <1>9 DEF Release
<1> QED
  BY <1>1, <1>2, <1>3, <1>4, <1>5, <1>6, <1>7, <1>8, <1>9

-----------------------------------------------------------------------------
(* The steps of lock_root, contended_lock and unlock_root *)
LEMMA LockInv ==
    ASSUME IInv, NEW w \in Writers,
           \/ LockRoot(w) \/ LockLoad(w) \/ LockTake(w) \/ ClearWaiter(w) \/ LockWait(w)
           \/ SetWaiter(w) \/ Park(w) \/ ParkSpurious(w) \/ Rebalance(w) \/ UnlockRoot(w)
    PROVE  IInv'
<1> USE ReaderNotWriter DEF Goto
<1>0. /\ Types /\ mutex = w
      /\ lockState \in LockStates /\ ld[w] \in LockStates
      /\ Free \in LockStates /\ WriterOnly \in LockStates
      /\ Free.readers = 0 /\ ~Free.writer /\ ~Free.waiter
      /\ WriterOnly.readers = 0 /\ WriterOnly.writer /\ ~WriterOnly.waiter
  BY DEF IInv, Types, MutexHeld, LockStates, Free, WriterOnly, LockRoot, LockLoad, LockTake,
     ClearWaiter, LockWait, SetWaiter, Park, ParkSpurious, Rebalance, UnlockRoot
<1>1. /\ pc' = [pc EXCEPT ![w] = pc'[w]] /\ pc'[w] \in UpdatePcs \ {"idle", "mutex"}
      /\ pc[w] \notin {"idle", "mutex"}
      /\ mutex' = mutex /\ replaced' = replaced
  BY <1>0 DEF Types, UpdatePcs, nodes, lock, LockRoot, LockLoad, LockTake,
     ClearWaiter, LockWait, SetWaiter, Park, ParkSpurious, Rebalance, UnlockRoot
<1>2. /\ \A r \in Readers : pc'[r] = pc[r]
      /\ \A v \in Writers : v # w => pc'[v] = pc[v] /\ pc[v] \in {"idle", "mutex"}
      /\ InTree' = InTree
  BY <1>1, WriterKeepsReaders, OneWriter
<1>3. MutexHeld'
  BY <1>0, <1>1, <1>2 DEF IInv, MutexHeld
<1>4. Cardinality(InTree) \in Nat /\ (Cardinality(InTree) # 0 => \E r \in Readers : r \in InTree)
  BY InTreeFinite, FS_CardinalityType, FS_EmptySet DEF InTree
<1> DEFINE Lock == /\ Types' /\ ReadersCounted' /\ WriterBit' /\ WaiterBit' /\ WaiterSlot'
                   /\ Expected' /\ Sleepers'
<1>a. Lock => IInv'
  BY <1>3 DEF IInv
<1> HIDE DEF Lock
<1>5. CASE LockRoot(w)
  <2>1. CASE lockState = Free
    <3>1. lockState' = WriterOnly /\ pc'[w] = "rebalance" /\ UNCHANGED <<waiter, token, ld, waiting>>
      BY <1>0, <1>5, <2>1 DEF LockRoot, Types
    <3>2. Types' /\ ReadersCounted' /\ WriterBit'
      BY <1>0, <1>1, <1>2, <2>1, <3>1 DEF IInv, Types, ReadersCounted, WriterBit, HoldPcs, WriterOnly
    <3>3. WaiterBit' /\ WaiterSlot' /\ Expected' /\ Sleepers'
      BY <1>0, <1>1, <1>2, <1>5, <2>1, <3>1 DEF LockRoot, IInv, Types, WaiterBit, WaiterSlot, Expected,
         Sleepers, WaitPcs, SlotPcs, HoldPcs
    <3> QED
      BY <1>a, <3>2, <3>3 DEF Lock
  <2>2. CASE lockState # Free
    <3>1. pc[w] = "lockRoot" /\ pc'[w] = "lockLoad" /\ UNCHANGED <<lockState, waiter, token, ld, waiting>>
      BY <1>0, <1>5, <2>2 DEF LockRoot, Types
    <3>2. Types' /\ ReadersCounted' /\ WriterBit'
      BY <1>0, <1>1, <1>2, <3>1 DEF IInv, Types, ReadersCounted, WriterBit, HoldPcs
    <3>3. WaiterBit' /\ WaiterSlot' /\ Expected' /\ Sleepers'
      BY <1>0, <1>1, <1>2, <3>1 DEF IInv, Types, WaiterBit, WaiterSlot, Expected,
         Sleepers, WaitPcs, SlotPcs, HoldPcs
    <3> QED
      BY <1>a, <3>2, <3>3 DEF Lock
  <2> QED
    BY <2>1, <2>2
<1>6. CASE LockLoad(w)
  <2>1. /\ pc[w] = "lockLoad" /\ pc'[w] \in {"lockTake", "lockWait", "park", "lockLoad"}
        /\ UNCHANGED <<lockState, waiter, token, waiting>>
        /\ \A t \in Threads : t # w => ld'[t] = ld[t]
        /\ ld'[w] \in LockStates /\ ld' \in [Threads -> LockStates]
    BY <1>0, <1>6 DEF LockLoad, Types, lock
  <2>2. /\ pc'[w] = "lockTake" => ld'[w] = lockState /\ ~lockState.writer /\ lockState.readers = 0
        /\ pc'[w] = "lockWait" => ld'[w] = lockState /\ ~lockState.waiter
        /\ pc'[w] = "park" => waiting[w] /\ (lockState.writer \/ lockState.readers # 0)
    BY <1>0, <1>6 DEF LockLoad, Types
  <2>3. ~lockState.writer
    BY <1>2, <2>1 DEF IInv, WriterBit, HoldPcs
  <2>4. Types' /\ ReadersCounted' /\ WriterBit'
    BY <1>0, <1>1, <1>2, <2>1 DEF IInv, Types, ReadersCounted, WriterBit, HoldPcs
  <2>5. WaiterBit' /\ WaiterSlot'
    <3>1. pc'[w] = "lockWait" => ~waiting[w]
      BY <2>1, <2>2 DEF IInv, WaiterBit, WaitPcs
    <3> QED
      BY <1>0, <1>1, <1>2, <2>1, <2>2, <3>1 DEF IInv, Types, WaiterBit, WaiterSlot, WaitPcs, SlotPcs, HoldPcs
  <2>6. Expected'
    BY <1>0, <1>1, <1>2, <2>1, <2>2, <2>3 DEF IInv, Types, WaiterBit, WaitPcs, Expected
  <2>7. Sleepers'
    <3> SUFFICES ASSUME NEW v \in Writers, pc'[v] = "park"
                 PROVE  \E r \in Readers : pc'[r] \in {"findTree", "findLeave", "findWake"}
      BY DEF Sleepers
    <3>1. v = w /\ Cardinality(InTree) # 0
      BY <1>2, <2>2, <2>3 DEF IInv, ReadersCounted
    <3>2. PICK r \in Readers : r \in InTree
      BY <1>4, <3>1
    <3> QED
      BY <1>2, <3>2 DEF InTree
  <2> QED
    BY <1>a, <2>4, <2>5, <2>6, <2>7 DEF Lock
<1>7. CASE LockTake(w)
  <2>0. /\ pc[w] = "lockTake" /\ UNCHANGED <<waiter, token, waiting>>
        /\ ld' = [ld EXCEPT ![w] = Free]
    BY <1>7 DEF LockTake
  <2>a. /\ ld' \in [Threads -> LockStates]
        /\ \A t \in Threads : t # w => ld'[t] = ld[t]
    BY <1>0, <2>0 DEF Types
  <2>1. CASE lockState = ld[w]
    <3>1. /\ lockState' = WriterOnly
          /\ pc'[w] = IF waiting[w] THEN "clearWaiter" ELSE "rebalance"
          /\ lockState.readers = 0
      BY <1>0, <1>7, <2>1 DEF LockTake, Types, IInv, Expected
    <3>2. Types' /\ ReadersCounted' /\ WriterBit'
      BY <1>0, <1>1, <1>2, <2>0, <2>a, <3>1 DEF IInv, Types, ReadersCounted, WriterBit, HoldPcs, WriterOnly
    <3>3. WaiterBit' /\ WaiterSlot' /\ Expected' /\ Sleepers'
      BY <1>0, <1>1, <1>2, <2>0, <2>a, <3>1 DEF IInv, Types, WaiterBit, WaiterSlot, Expected,
         Sleepers, WaitPcs, SlotPcs, HoldPcs
    <3> QED
      BY <1>a, <3>2, <3>3 DEF Lock
  <2>2. CASE lockState # ld[w]
    <3>1. lockState' = lockState /\ pc'[w] = "lockLoad"
      BY <1>0, <1>7, <2>2 DEF LockTake, Types
    <3>2. Types' /\ ReadersCounted' /\ WriterBit'
      BY <1>0, <1>1, <1>2, <2>0, <2>a, <3>1 DEF IInv, Types, ReadersCounted, WriterBit, HoldPcs
    <3>3. WaiterBit' /\ WaiterSlot' /\ Expected' /\ Sleepers'
      BY <1>0, <1>1, <1>2, <2>0, <2>a, <3>1 DEF IInv, Types, WaiterBit, WaiterSlot, Expected,
         Sleepers, WaitPcs, SlotPcs, HoldPcs
    <3> QED
      BY <1>a, <3>2, <3>3 DEF Lock
  <2> QED
    BY <2>1, <2>2
<1>8. CASE ClearWaiter(w)
  <2>1. /\ pc[w] = "clearWaiter" /\ pc'[w] = "rebalance" /\ waiter' = Nobody
        /\ UNCHANGED <<lockState, token, ld, waiting>>
    BY <1>0, <1>8 DEF ClearWaiter, Types
  <2>2. Types' /\ ReadersCounted' /\ WriterBit'
    BY <1>0, <1>1, <1>2, <2>1 DEF IInv, Types, ReadersCounted, WriterBit, HoldPcs
  <2>3. WaiterBit' /\ WaiterSlot' /\ Expected' /\ Sleepers'
    BY <1>0, <1>1, <1>2, <2>1 DEF IInv, Types, WaiterBit, WaiterSlot, Expected,
       Sleepers, WaitPcs, SlotPcs, HoldPcs
  <2> QED
    BY <1>a, <2>2, <2>3 DEF Lock
<1>9. CASE LockWait(w)
  <2>0. /\ pc[w] = "lockWait" /\ UNCHANGED <<waiter, token>>
        /\ ld' = [ld EXCEPT ![w] = Free]
    BY <1>9 DEF LockWait
  <2>a. /\ ld' \in [Threads -> LockStates]
        /\ \A t \in Threads : t # w => ld'[t] = ld[t]
    BY <1>0, <2>0 DEF Types
  <2>1. CASE lockState = ld[w]
    <3>1. /\ lockState' = [lockState EXCEPT !.waiter = TRUE]
          /\ pc'[w] = "setWaiter" /\ waiting' = [waiting EXCEPT ![w] = TRUE]
          /\ ~lockState.writer
      BY <1>0, <1>9, <2>1 DEF LockWait, Types, IInv, Expected
    <3>2. /\ lockState' \in LockStates /\ lockState'.readers = lockState.readers
          /\ ~lockState'.writer /\ lockState'.waiter
          /\ waiting' \in [Writers -> BOOLEAN] /\ waiting'[w]
          /\ \A v \in Writers : v # w => waiting'[v] = waiting[v]
      BY <1>0, <3>1 DEF LockStates, Types
    <3>3. Types' /\ ReadersCounted' /\ WriterBit'
      BY <1>0, <1>1, <1>2, <2>0, <2>a, <3>1, <3>2 DEF IInv, Types, ReadersCounted, WriterBit, HoldPcs
    <3>4. WaiterBit' /\ WaiterSlot'
      BY <1>0, <1>1, <1>2, <2>0, <3>1, <3>2 DEF IInv, Types, WaiterBit, WaiterSlot, WaitPcs, SlotPcs, HoldPcs
    <3>5. Expected' /\ Sleepers'
      BY <1>0, <1>1, <1>2, <2>0, <2>a, <3>1, <3>2 DEF IInv, Types, Expected, Sleepers
    <3> QED
      BY <1>a, <3>3, <3>4, <3>5 DEF Lock
  <2>2. CASE lockState # ld[w]
    <3>1. UNCHANGED <<lockState, waiting>> /\ pc'[w] = "lockLoad"
      BY <1>0, <1>9, <2>2 DEF LockWait, Types
    <3>2. Types' /\ ReadersCounted' /\ WriterBit'
      BY <1>0, <1>1, <1>2, <2>0, <2>a, <3>1 DEF IInv, Types, ReadersCounted, WriterBit, HoldPcs
    <3>3. WaiterBit' /\ WaiterSlot' /\ Expected' /\ Sleepers'
      BY <1>0, <1>1, <1>2, <2>0, <2>a, <3>1 DEF IInv, Types, WaiterBit, WaiterSlot, Expected,
         Sleepers, WaitPcs, SlotPcs, HoldPcs
    <3> QED
      BY <1>a, <3>2, <3>3 DEF Lock
  <2> QED
    BY <2>1, <2>2
<1>10. CASE SetWaiter(w)
  <2>1. /\ pc[w] = "setWaiter" /\ pc'[w] = "lockLoad" /\ waiter' = w
        /\ UNCHANGED <<lockState, token, ld, waiting>>
    BY <1>0, <1>10 DEF SetWaiter, Types
  <2>2. Types' /\ ReadersCounted' /\ WriterBit'
    BY <1>0, <1>1, <1>2, <2>1 DEF IInv, Types, ReadersCounted, WriterBit, HoldPcs
  <2>3. WaiterBit' /\ WaiterSlot' /\ Expected' /\ Sleepers'
    BY <1>0, <1>1, <1>2, <2>1 DEF IInv, Types, WaiterBit, WaiterSlot, Expected,
       Sleepers, WaitPcs, SlotPcs, HoldPcs
  <2> QED
    BY <1>a, <2>2, <2>3 DEF Lock
<1>11. CASE Park(w) \/ ParkSpurious(w)
  <2>1. /\ pc[w] = "park" /\ pc'[w] = "lockLoad"
        /\ UNCHANGED <<lockState, waiter, ld, waiting>>
        /\ token' \in [Writers -> BOOLEAN]
    BY <1>0, <1>11 DEF Park, ParkSpurious, Types, lock
  <2>2. Types' /\ ReadersCounted' /\ WriterBit'
    BY <1>0, <1>1, <1>2, <2>1 DEF IInv, Types, ReadersCounted, WriterBit, HoldPcs
  <2>3. WaiterBit' /\ WaiterSlot' /\ Expected' /\ Sleepers'
    BY <1>0, <1>1, <1>2, <2>1 DEF IInv, Types, WaiterBit, WaiterSlot, Expected,
       Sleepers, WaitPcs, SlotPcs, HoldPcs
  <2> QED
    BY <1>a, <2>2, <2>3 DEF Lock
<1>12. CASE Rebalance(w)
  <2>1. /\ pc[w] = "rebalance" /\ pc'[w] = "unlockRoot"
        /\ UNCHANGED <<lockState, waiter, token, ld, waiting>>
    BY <1>0, <1>12 DEF Rebalance, Types, lock
  <2>2. Types' /\ ReadersCounted' /\ WriterBit'
    BY <1>0, <1>1, <1>2, <2>1 DEF IInv, Types, ReadersCounted, WriterBit, HoldPcs
  <2>3. WaiterBit' /\ WaiterSlot' /\ Expected' /\ Sleepers'
    BY <1>0, <1>1, <1>2, <2>1 DEF IInv, Types, WaiterBit, WaiterSlot, Expected,
       Sleepers, WaitPcs, SlotPcs, HoldPcs
  <2> QED
    BY <1>a, <2>2, <2>3 DEF Lock
<1>13. CASE UnlockRoot(w)
  <2>1. /\ pc[w] = "unlockRoot" /\ pc'[w] = "release" /\ lockState' = Free
        /\ UNCHANGED <<waiter, token, ld, waiting>>
    BY <1>0, <1>13 DEF UnlockRoot, Types, lock
  <2>2. lockState = WriterOnly
    BY <2>1 DEF IInv, WriterBit, HoldPcs
  <2>3. Types' /\ ReadersCounted' /\ WriterBit'
    BY <1>0, <1>1, <1>2, <2>1, <2>2 DEF IInv, Types, ReadersCounted, WriterBit, HoldPcs
  <2>4. WaiterBit' /\ WaiterSlot' /\ Expected' /\ Sleepers'
    BY <1>0, <1>1, <1>2, <2>1, <2>2 DEF IInv, Types, WaiterBit, WaiterSlot, Expected,
       Sleepers, WaitPcs, SlotPcs, HoldPcs
  <2> QED
    BY <1>a, <2>3, <2>4 DEF Lock
<1> QED
  BY <1>5, <1>6, <1>7, <1>8, <1>9, <1>10, <1>11, <1>12, <1>13

-----------------------------------------------------------------------------
LEMMA InitIInv == Init => IInv
<1> SUFFICES ASSUME Init PROVE IInv
  OBVIOUS
<1> USE ReaderNotWriter DEF Init
<1>1. Free \in LockStates /\ Free.readers = 0 /\ ~Free.writer /\ ~Free.waiter
  BY DEF Free, LockStates
<1>2. Types
  BY <1>1 DEF Types, FindPcs, UpdatePcs
<1>3. InTree = {}
  BY DEF InTree
<1>4. ReadersCounted
  BY <1>1, <1>3, FS_EmptySet DEF ReadersCounted
<1>5. MutexHeld /\ WriterBit /\ WaiterBit /\ WaiterSlot /\ Expected /\ Sleepers
  BY <1>1 DEF MutexHeld, WriterBit, WaiterBit, WaiterSlot, Expected, Sleepers, HoldPcs
<1> QED
  BY <1>2, <1>4, <1>5 DEF IInv

LEMMA NextIInv == IInv /\ [Next]_vars => IInv'
<1> SUFFICES ASSUME IInv, [Next]_vars PROVE IInv'
  OBVIOUS
<1>1. CASE UNCHANGED vars
  BY <1>1 DEF vars, lock, nodes, IInv, Types, MutexHeld, ReadersCounted, WriterBit, WaiterBit,
     WaiterSlot, Expected, Sleepers, InTree
<1>2. ASSUME NEW r \in Readers, Find(r) \/ \E k \in Keys : FindBegin(r, k) PROVE IInv'
  BY <1>2, FindInv
<1>3. ASSUME NEW w \in Writers,
             \/ Update(w) \/ TakeMutex(w) \/ ParkSpurious(w)
             \/ \E o \in {"insert", "remove"}, k \in Keys : UpdateBegin(w, o, k)
      PROVE  IInv'
  BY <1>3, UpdateQuietInv, LockInv DEF Update
<1> QED
  BY <1>1, <1>2, <1>3 DEF Next

(* The lock is in order in every reachable state. *)
THEOREM Invariance == Spec => []IInv
<1> QED
  BY InitIInv, NextIInv, PTL DEF Spec

(* lock_state, whatever the threads do to it, is a reader count with two bits,
   and the WRITER bit is alone in it: the plain store of unlock_root wipes out
   no reader and no waiter. *)
THEOREM TypeCorrect == Spec => []TypeOK
<1>1. IInv => TypeOK
  BY DEF IInv, Types, WriterBit, TypeOK
<1> QED
  BY <1>1, Invariance, PTL

(* No search runs in a tree that is being rebalanced. *)
THEOREM WriterAloneCorrect == Spec => []WriterAlone
<1>1. IInv => WriterAlone
  <2> SUFFICES ASSUME IInv, NEW w \in Writers, NEW r \in Readers,
                      pc[w] = "rebalance", pc[r] \in {"findTree", "findLeave"}
               PROVE  FALSE
    BY DEF WriterAlone
  <2>1. Cardinality(InTree) = 0
    BY DEF IInv, WriterBit, HoldPcs, ReadersCounted, WriterOnly, Free
  <2>2. InTree = {}
    BY <2>1, InTreeFinite, FS_EmptySet
  <2> QED
    BY <2>2 DEF InTree
<1> QED
  BY <1>1, Invariance, PTL

(* The assertion of contended_lock holds: the slot is free. *)
THEOREM WaiterSlotFreeCorrect == Spec => []WaiterSlotFree
<1>1. IInv => WaiterSlotFree
  <2> SUFFICES ASSUME IInv, NEW w \in Writers, pc[w] = "setWaiter", waiter # Nobody
               PROVE  FALSE
    BY DEF WaiterSlotFree
  <2>1. waiter \in Writers /\ pc[waiter] \in SlotPcs
    BY DEF IInv, Types, WaiterSlot
  <2>2. waiter = w
    BY <2>1, OneWriter DEF SlotPcs
  <2> QED
    BY <2>1, <2>2 DEF SlotPcs
<1> QED
  BY <1>1, Invariance, PTL

(* No wakeup is lost, with any number of readers coming and going. *)
THEOREM SleeperHasWakerCorrect == Spec => []SleeperHasWaker
<1>1. IInv => SleeperHasWaker
  <2> SUFFICES ASSUME IInv, NEW w \in Writers, pc[w] = "park", ~token[w]
               PROVE  /\ waiter = w
                      /\ \E r \in Readers : pc[r] \in {"findTree", "findLeave", "findWake"}
    BY DEF SleeperHasWaker
  <2>1. waiter = w
    BY DEF IInv, WaiterBit, WaiterSlot, SlotPcs
  <2> QED
    BY <2>1 DEF IInv, Sleepers
<1> QED
  BY <1>1, Invariance, PTL

-----------------------------------------------------------------------------
(* What a search answers.  For that the list must be in order: the nodes the
   bin was made with, and before them every later one, the newest first. *)
Rank(n) == IF n <= Len(FirstKeys) THEN n ELSE -n

KeysOf(S) == {node[n].key : n \in S}

(* No way leads out of S along the list. *)
Closed(S) == \A n \in S : node[n].next \in S \cup {0}

(* L is the list that starts at `first`: the nodes lead forward, also those
   that are no longer on it, and none leads past a node that is. *)
Chain(L) ==
    /\ L \subseteq DOMAIN node
    /\ first \in L \cup {0}
    /\ \A m \in L : first # 0 /\ Rank(first) <= Rank(m)
    /\ \A n \in DOMAIN node :
          /\ node[n].next # 0 => node[n].next \in DOMAIN node /\ Rank(n) < Rank(node[n].next)
          /\ \A m \in L : Rank(n) < Rank(m) => node[n].next # 0 /\ Rank(node[n].next) <= Rank(m)
    /\ Closed(L)
    /\ \A n \in L : /\ node[n].prev = 0 <=> n = first
                    /\ node[n].prev # 0 => node[n].prev \in L /\ node[node[n].prev].next = n
    /\ \A m, n \in L : node[m].key = node[n].key => m = n

(* A writer that has the mutex and something to do *)
Working(w) ==
    pc[w] \notin {"idle", "mutex"} /\ (pc[w] = "release" => cur[w] # 0)

(* The steps that come once the list is changed *)
LatePcs == {"shape", "untreeify", "lockRoot", "lockLoad", "lockTake", "clearWaiter", "lockWait",
            "setWaiter", "park", "rebalance", "unlockRoot", "release"}

(* How far the operation of a working writer has come *)
WriterAt(w, L) ==
    /\ pc[w] = "release" \/ ~replaced
    /\ Outcome(w) <=> call[w].key \notin present
    /\ pc[w] \in {"insertFirst", "insertLeaf"} => Outcome(w)
    /\ pc[w] \in {"unlink", "shape", "untreeify"} => ~Outcome(w)
    /\ pc[w] = "insertFirst" => call[w].key \notin KeysOf(L)
    /\ pc[w] # "insertFirst" => cur[w] \in DOMAIN node /\ node[cur[w]].key = call[w].key
    /\ pc[w] \in {"insertLeaf", "unlink"} => cur[w] \in L
    /\ pc[w] \in LatePcs => IF Outcome(w) THEN cur[w] \in L ELSE call[w].key \notin KeysOf(L)
    /\ pc[w] = "unlockRoot" \/ (pc[w] = "release" /\ ~replaced) => (cur[w] \in tree <=> Outcome(w))

(* List and tree differ by the node that an update is at. *)
TreeAgrees(L) ==
    /\ \A n \in L \ tree : \E w \in Writers : pc[w] = "insertLeaf" /\ cur[w] = n
    /\ ~replaced => \A n \in tree \ L :
                       \E w \in Writers : Working(w) /\ ~Outcome(w) /\ cur[w] = n
    /\ \A w \in Writers : Working(w) => WriterAt(w, L)
    /\ \A w \in Writers : pc[w] = "release" /\ cur[w] = 0
                            => replaced \/ (Outcome(w) <=> call[w].key \in present)

(* The finished updates have left the keys of the list, but for a key that is
   being updated. *)
PresentAgrees(L) ==
    \A k \in Keys : \/ \E w \in Writers : Working(w) /\ call[w].key = k
                    \/ k \in present <=> k \in KeysOf(L)

(* A walk that must find its key has it ahead, one that must not find it comes
   to no node that has it. *)
WalkPcs == {"findState", "findVisit", "findEnter"}
Ahead(n, k, L) == n # 0 /\ \E m \in L : node[m].key = k /\ Rank(n) <= Rank(m)
Clear(n, k) == \E S \in SUBSET DOMAIN node : Closed(S) /\ n \in S \cup {0} /\ k \notin KeysOf(S)

MayHit(r) == TRUE \in allowed[r]
MayMiss(r) == FALSE \in allowed[r]

(* The answers a search may give follow the updates ... *)
AnswersAt(r, L) ==
    /\ IF call[r].key \in present THEN MayHit(r) ELSE MayMiss(r)
    /\ \A w \in Writers : Working(w) /\ call[w].key = call[r].key
                            => IF Outcome(w) THEN MayHit(r) ELSE MayMiss(r)
    /\ \A n \in tree \ L : node[n].key = call[r].key => MayHit(r)

(* ... and its walk leads to one of them. *)
WalkAt(r, L) ==
    /\ pc[r] \in WalkPcs => /\ MayMiss(r) \/ Ahead(cur[r], call[r].key, L)
                            /\ MayHit(r) \/ Clear(cur[r], call[r].key)
    /\ pc[r] \in {"findVisit", "findEnter"} => cur[r] # 0
    /\ pc[r] \in {"findLeave", "findWake", "findDone"}
          => IF found[r] THEN MayHit(r) ELSE MayMiss(r)

ReaderAt(r, L) == AnswersAt(r, L) /\ WalkAt(r, L)

ListTypes ==
    /\ node \in Seq([key : Keys, next : Nat, prev : Nat]) /\ Len(FirstKeys) <= Len(node)
    /\ tree \subseteq DOMAIN node
    /\ cur \in [Threads -> Nat] /\ \A r \in Readers : cur[r] \in DOMAIN node \cup {0}
    /\ found \in [Readers -> BOOLEAN] /\ allowed \in [Readers -> SUBSET BOOLEAN]
    /\ DOMAIN call = Threads
    /\ \A t \in Threads : pc[t] # "idle" => call[t].key \in Keys
    /\ \A w \in Writers : pc[w] # "idle" => call[w].op \in {"insert", "remove"}

ListOK(L) ==
    /\ Chain(L) /\ TreeAgrees(L) /\ PresentAgrees(L)
    /\ \A r \in Readers : pc[r] # "idle" => ReaderAt(r, L)

-----------------------------------------------------------------------------
LEMMA RankFacts ==
    /\ Len(FirstKeys) \in Nat
    /\ \A n \in Nat : Rank(n) \in Int
    /\ \A m, n \in Nat \ {0} : Rank(m) = Rank(n) => m = n
    /\ \A n, x \in Nat \ {0} : n < x /\ Len(FirstKeys) < x => Rank(x) < Rank(n)
<1>1. Len(FirstKeys) \in Nat
  BY KeysAssumption
<1> QED
  BY <1>1 DEF Rank

LEMMA NodeFacts ==
    ASSUME ListTypes
    PROVE  /\ Len(node) \in Nat /\ DOMAIN node = 1..Len(node)
           /\ 0 \notin DOMAIN node /\ \A n \in DOMAIN node : n \in Nat \ {0}
           /\ \A n \in DOMAIN node : node[n] \in [key : Keys, next : Nat, prev : Nat]
<1> DEFINE Nodes == [key : Keys, next : Nat, prev : Nat]
<1>1. node \in Seq(Nodes)
  BY DEF ListTypes
<1> HIDE DEF Nodes
<1>2. Len(node) \in Nat /\ DOMAIN node = 1..Len(node)
  BY <1>1
<1>3. \A n \in 1..Len(node) : node[n] \in Nodes
  BY <1>1
<1> QED
  BY <1>2, <1>3 DEF Nodes

(* A writer past the mutex is the only one that works. *)
LEMMA OthersRest ==
    ASSUME IInv, NEW w \in Writers, pc[w] \notin {"idle", "mutex"}, NEW v \in Writers, v # w
    PROVE  ~Working(v) /\ pc[v] \in {"idle", "mutex"}
<1> QED
  BY OneWriter DEF Working

(* What the answers that a search may not give say of the list and the tree *)
LEMMA KeyOnList ==
    ASSUME IInv, ListTypes, NEW L, ListOK(L), NEW r \in Readers, pc[r] # "idle"
    PROVE  /\ ~MayMiss(r) => \E m \in L \cap tree : node[m].key = call[r].key
           /\ ~MayHit(r) => \A m \in L \cup tree : node[m].key # call[r].key
<1> DEFINE k == call[r].key
<1>0. ReaderAt(r, L) /\ k \in Keys
  BY ReaderNotWriter DEF ListOK, ListTypes
<1>1. ASSUME NEW w \in Writers, Working(w), call[w].key = k
      PROVE  MayHit(r) /\ MayMiss(r)
  <2>1. Outcome(w) <=> k \notin present
    BY <1>1 DEF ListOK, TreeAgrees, WriterAt
  <2> QED
    BY <1>0, <1>1, <2>1 DEF ReaderAt, AnswersAt, WalkAt
<1>2. CASE ~MayMiss(r)
  <2>1. k \in present /\ MayHit(r)
    BY <1>0, <1>2 DEF ReaderAt, AnswersAt, WalkAt
  <2>2. k \in KeysOf(L)
    BY <1>0, <1>1, <1>2, <2>1 DEF ListOK, PresentAgrees
  <2>3. PICK m \in L : node[m].key = k
    BY <2>2 DEF KeysOf
  <2>4. ASSUME m \notin tree PROVE FALSE
    <3>1. PICK w \in Writers : pc[w] = "insertLeaf" /\ cur[w] = m
      BY <2>4 DEF ListOK, TreeAgrees
    <3>2. Working(w)
      BY <3>1 DEF Working
    <3>3. node[cur[w]].key = call[w].key
      BY <3>1, <3>2 DEF ListOK, TreeAgrees, WriterAt
    <3> QED
      BY <1>1, <1>2, <2>3, <3>1, <3>2, <3>3
  <2> QED
    BY <2>1, <2>3, <2>4
<1>3. CASE ~MayHit(r)
  <2>1. k \notin present /\ MayMiss(r)
    BY <1>0, <1>3 DEF ReaderAt, AnswersAt, WalkAt
  <2>2. k \notin KeysOf(L)
    BY <1>0, <1>1, <1>3, <2>1 DEF ListOK, PresentAgrees
  <2>3. \A m \in L : node[m].key # k
    BY <2>2 DEF KeysOf
  <2> QED
    BY <1>0, <1>3, <2>1, <2>3 DEF ReaderAt, AnswersAt, WalkAt
<1> QED
  BY <1>2, <1>3

-----------------------------------------------------------------------------
(* A step of a search changes nothing but what is its own. *)
LEMMA FindKeeps ==
    ASSUME IInv, ListTypes, NEW L, ListOK(L), NEW r \in Readers,
           UNCHANGED <<nodes, present>>,
           \A t \in Threads : t # r => /\ pc'[t] = pc[t] /\ cur'[t] = cur[t] /\ call'[t] = call[t],
           \A q \in Readers : q # r => found'[q] = found[q] /\ allowed'[q] = allowed[q],
           pc'[r] = "idle" \/ ReaderAt(r, L)'
    PROVE  ListOK(L)'
<1> USE ReaderNotWriter DEF nodes
<1>1. \A w \in Writers : pc'[w] = pc[w] /\ cur'[w] = cur[w] /\ call'[w] = call[w]
  OBVIOUS
<1>2. \A w \in Writers : (Working(w)' <=> Working(w)) /\ (Outcome(w)' <=> Outcome(w))
  BY <1>1 DEF Working, Outcome
<1>3. Chain(L)'
  BY DEF ListOK, Chain, Closed
<1>4. KeysOf(L)' = KeysOf(L)
  BY DEF KeysOf
<1>5. TreeAgrees(L)'
  <2>1. \A w \in Writers : WriterAt(w, L) => WriterAt(w, L)'
    BY <1>1, <1>2, <1>4 DEF WriterAt
  <2> QED
    BY <1>1, <1>2, <2>1 DEF ListOK, TreeAgrees
<1>6. PresentAgrees(L)'
  BY <1>1, <1>2, <1>4 DEF ListOK, PresentAgrees
<1>7. ASSUME NEW q \in Readers, pc'[q] # "idle" PROVE ReaderAt(q, L)'
  <2>1. CASE q # r
    <3>1. /\ pc'[q] = pc[q] /\ cur'[q] = cur[q] /\ call'[q] = call[q]
          /\ found'[q] = found[q] /\ allowed'[q] = allowed[q]
      BY <2>1
    <3>2. ReaderAt(q, L)
      BY <1>7, <3>1 DEF ListOK
    <3>3. \A n, k : (Ahead(n, k, L)' <=> Ahead(n, k, L)) /\ (Clear(n, k)' <=> Clear(n, k))
      BY DEF Ahead, Clear, Closed, KeysOf
    <3>4. (MayHit(q)' <=> MayHit(q)) /\ (MayMiss(q)' <=> MayMiss(q))
      BY <3>1 DEF MayHit, MayMiss
    <3> QED
      BY <1>1, <1>2, <3>1, <3>2, <3>3, <3>4 DEF ReaderAt, AnswersAt, WalkAt
  <2> QED
    BY <1>7, <2>1
<1> QED
  BY <1>3, <1>5, <1>6, <1>7 DEF ListOK

Moves(r) ==
    /\ UNCHANGED <<nodes, call, history>>
    /\ \A t \in Threads : t # r => pc'[t] = pc[t] /\ cur'[t] = cur[t]
    /\ \A q \in Readers : q # r => found'[q] = found[q]
    /\ cur' \in [Threads -> Nat] /\ cur'[r] \in DOMAIN node \cup {0}
    /\ found' \in [Readers -> BOOLEAN]

LEMMA FindMoves ==
    ASSUME IInv, ListTypes, NEW L, ListOK(L), NEW r \in Readers, pc[r] # "idle", Moves(r),
           pc'[r] \in WalkPcs => /\ MayMiss(r) \/ Ahead(cur'[r], call[r].key, L)
                                 /\ MayHit(r) \/ Clear(cur'[r], call[r].key),
           pc'[r] \in {"findVisit", "findEnter"} => cur'[r] # 0,
           pc'[r] \in {"findLeave", "findWake", "findDone"}
              => IF found'[r] THEN MayHit(r) ELSE MayMiss(r)
    PROVE  ListTypes' /\ ListOK(L)'
<1> USE ReaderNotWriter DEF nodes, history, Moves
<1>1. /\ \A t \in Threads : t # r => pc'[t] = pc[t] /\ cur'[t] = cur[t]
      /\ \A q \in Readers : q # r => found'[q] = found[q]
  OBVIOUS
<1>2. ListTypes'
  BY DEF ListTypes
<1>3. ReaderAt(r, L)'
  <2>1. ReaderAt(r, L)
    BY DEF ListOK
  <2>2. \A w \in Writers : (Working(w)' <=> Working(w)) /\ (Outcome(w)' <=> Outcome(w))
    BY <1>1 DEF Working, Outcome
  <2>3. \A n, k : (Ahead(n, k, L)' <=> Ahead(n, k, L)) /\ (Clear(n, k)' <=> Clear(n, k))
    BY DEF Ahead, Clear, Closed, KeysOf
  <2>4. (MayHit(r)' <=> MayHit(r)) /\ (MayMiss(r)' <=> MayMiss(r))
    BY DEF MayHit, MayMiss
  <2> QED
    BY <2>1, <2>2, <2>3, <2>4 DEF ReaderAt, AnswersAt, WalkAt
<1> QED
  BY <1>1, <1>2, <1>3, FindKeeps

(* What an answer may be when a call starts *)
LEMMA FindBeginList ==
    ASSUME IInv, ListTypes, NEW L, ListOK(L), NEW r \in Readers, NEW k \in Keys, FindBegin(r, k)
    PROVE  ListTypes' /\ ListOK(L)'
<1> USE ReaderNotWriter DEF nodes
<1>1. /\ pc'[r] = "findFirst" /\ call'[r].key = k /\ ~replaced
      /\ \A t \in Threads : t # r => pc'[t] = pc[t] /\ call'[t] = call[t]
      /\ DOMAIN call' = Threads
      /\ UNCHANGED <<nodes, cur, found, present>>
  BY DEF FindBegin, Goto, IInv, Types, ListTypes
<1> DEFINE answers == {(k \in present)} \cup {Outcome(w) : w \in {v \in Writers : mutex = v /\ call[v].key = k}}
<1>2. allowed' = [allowed EXCEPT ![r] = answers]
  BY DEF FindBegin
<1>3. answers \subseteq BOOLEAN
  <2>1. (k \in present) \in BOOLEAN /\ \A w \in Writers : Outcome(w) \in BOOLEAN
    BY DEF Outcome
  <2> QED
    BY Zenon, <2>1
<1>4. /\ allowed'[r] = answers /\ \A q \in Readers : q # r => allowed'[q] = allowed[q]
      /\ allowed' \in [Readers -> SUBSET BOOLEAN]
  <2> HIDE DEF answers
  <2> QED
    BY <1>2, <1>3 DEF ListTypes
<1>5. ListTypes'
  <2>1. /\ \A t \in Threads : pc'[t] # "idle" => call'[t].key \in Keys
        /\ \A w \in Writers : pc'[w] # "idle" => call'[w].op \in {"insert", "remove"}
    BY <1>1 DEF ListTypes
  <2> QED
    BY <1>1, <1>4, <2>1 DEF ListTypes
<1>6. IF k \in present THEN MayHit(r)' ELSE MayMiss(r)'
  <2>1. (k \in present) \in allowed'[r]
    <3>1. (k \in present) \in {(k \in present)}
      OBVIOUS
    <3>2. (k \in present) \in answers
      BY Zenon, <3>1
    <3> QED
      BY Zenon, <1>4, <3>2
  <2>2. CASE k \in present
    <3>1. (k \in present) = TRUE
      BY <2>2
    <3> QED
      BY Zenon, <2>1, <2>2, <3>1 DEF MayHit
  <2>3. CASE k \notin present
    <3>1. (k \in present) = FALSE
      BY <2>3
    <3> QED
      BY Zenon, <2>1, <2>3, <3>1 DEF MayMiss
  <2> QED
    BY <2>2, <2>3
<1>7. \A w \in Writers : (Working(w)' <=> Working(w)) /\ (Outcome(w)' <=> Outcome(w))
                         /\ call'[w] = call[w]
  BY <1>1 DEF Working, Outcome
<1>8. ASSUME NEW w \in Writers, Working(w), call[w].key = k
      PROVE  IF Outcome(w) THEN MayHit(r)' ELSE MayMiss(r)'
  <2>1. mutex = w
    BY <1>8 DEF Working, IInv, MutexHeld
  <2>2. Outcome(w) \in answers
    BY <1>8, <2>1
  <2>3. CASE Outcome(w)
    <3>1. Outcome(w) = TRUE
      BY <2>3 DEF Outcome
    <3> QED
      BY Zenon, <1>4, <2>2, <2>3, <3>1 DEF MayHit
  <2>4. CASE ~Outcome(w)
    <3>1. Outcome(w) = FALSE
      BY <2>4 DEF Outcome
    <3> QED
      BY Zenon, <1>4, <2>2, <2>4, <3>1 DEF MayMiss
  <2> QED
    BY <2>3, <2>4
<1>9. ASSUME NEW n \in tree \ L, node[n].key = k PROVE MayHit(r)'
  <2>1. PICK w \in Writers : Working(w) /\ ~Outcome(w) /\ cur[w] = n
    BY <1>1, <1>9 DEF ListOK, TreeAgrees
  <2>2. WriterAt(w, L)
    BY <2>1 DEF ListOK, TreeAgrees
  <2>3. call[w].key = k /\ k \in present
    BY <1>9, <2>1, <2>2 DEF WriterAt
  <2> QED
    BY <1>6, <2>3
<1>10. ReaderAt(r, L)'
  BY <1>1, <1>6, <1>7, <1>8, <1>9 DEF ReaderAt, AnswersAt, WalkAt, WalkPcs
<1> QED
  BY <1>1, <1>4, <1>5, <1>10, FindKeeps

LEMMA FindList ==
    ASSUME IInv, ListTypes, NEW L, ListOK(L), NEW r \in Readers,
           Find(r) \/ \E k \in Keys : FindBegin(r, k)
    PROVE  ListTypes' /\ ListOK(L)'
<1> USE ReaderNotWriter DEF Goto
<1> DEFINE k == call[r].key
<1>0. /\ r \in Threads /\ cur[r] \in DOMAIN node \cup {0} /\ found[r] \in BOOLEAN
      /\ cur \in [Threads -> Nat] /\ found \in [Readers -> BOOLEAN]
  BY DEF ListTypes
<1>a. cur = [cur EXCEPT ![r] = cur[r]] /\ found = [found EXCEPT ![r] = found[r]]
  BY <1>0
<1>d. \A l, n, b :
         /\ pc' = [pc EXCEPT ![r] = l] /\ n \in DOMAIN node \cup {0} /\ b \in BOOLEAN
         /\ cur' = [cur EXCEPT ![r] = n] /\ found' = [found EXCEPT ![r] = b]
         /\ UNCHANGED <<nodes, call, history>>
         => Moves(r) /\ pc'[r] = l /\ cur'[r] = n /\ found'[r] = b
  BY <1>0, NodeFacts DEF IInv, Types, Moves
<1>b. pc[r] # "idle" => ReaderAt(r, L)
  BY DEF ListOK
<1>c. L \subseteq DOMAIN node /\ 0 \notin DOMAIN node /\ Closed(L) /\ first \in DOMAIN node \cup {0}
  BY NodeFacts DEF ListOK, Chain
<1>1. CASE \E j \in Keys : FindBegin(r, j)
  BY <1>1, FindBeginList
<1>2. CASE FindFirst(r)
  <2>1. /\ pc[r] = "findFirst" /\ pc' = [pc EXCEPT ![r] = "findState"]
        /\ cur' = [cur EXCEPT ![r] = first] /\ UNCHANGED <<nodes, call, history, found>>
    BY <1>2 DEF FindFirst
  <2>2. MayMiss(r) \/ Ahead(first, k, L)
    BY <2>1, KeyOnList DEF Ahead, ListOK, Chain
  <2>3. MayHit(r) \/ Clear(first, k)
    <3> SUFFICES ASSUME ~MayHit(r) PROVE Clear(first, k)
      OBVIOUS
    <3>1. k \notin KeysOf(L)
      BY <2>1, KeyOnList DEF KeysOf
    <3>2. first \in L \cup {0}
      BY DEF ListOK, Chain
    <3> QED
      BY <1>c, <3>1, <3>2 DEF Clear
  <2>m. Moves(r) /\ pc'[r] = "findState" /\ cur'[r] = first
    BY <1>d, <1>0, <1>a, <1>c, <2>1
  <2> QED
    BY <2>m, <1>c, <2>1, <2>2, <2>3, FindMoves
<1>3. CASE FindState(r)
  <2>1. pc[r] = "findState" /\ UNCHANGED <<nodes, call, history, cur>>
    BY <1>3 DEF FindState
  <2>2. (MayMiss(r) \/ Ahead(cur[r], k, L)) /\ (MayHit(r) \/ Clear(cur[r], k))
    BY <1>b, <2>1 DEF ReaderAt, AnswersAt, WalkAt, WalkPcs
  <2>3. CASE cur[r] = 0
    <3>1. MayMiss(r)
      BY <2>2, <2>3 DEF Ahead
    <3>2. pc' = [pc EXCEPT ![r] = "findDone"] /\ found' = [found EXCEPT ![r] = FALSE]
      BY <1>3, <2>3 DEF FindState
    <3>m. Moves(r) /\ pc'[r] = "findDone" /\ ~found'[r]
      BY <1>d, <1>0, <1>a, <2>1, <3>2
    <3> QED
      BY <3>m, <2>1, <3>1, <3>2, FindMoves DEF WalkPcs
  <2>4. CASE cur[r] # 0
    <3>1. found' = found /\ \E l \in {"findVisit", "findEnter"} : pc' = [pc EXCEPT ![r] = l]
      BY <1>3, <2>4 DEF FindState
    <3>m. Moves(r) /\ pc'[r] \in {"findVisit", "findEnter"} /\ cur'[r] = cur[r]
      BY <1>d, <1>0, <1>a, <2>1, <3>1
    <3> QED
      BY <3>m, <2>1, <2>2, <2>4, <3>1, FindMoves DEF WalkPcs
  <2> QED
    BY <2>3, <2>4
<1>4. CASE FindVisit(r)
  <2>1. pc[r] = "findVisit" /\ UNCHANGED <<nodes, call, history>>
    BY <1>4 DEF FindVisit
  <2>2. /\ (MayMiss(r) \/ Ahead(cur[r], k, L)) /\ (MayHit(r) \/ Clear(cur[r], k))
        /\ cur[r] \in DOMAIN node
    BY <1>0, <1>b, <2>1 DEF ReaderAt, AnswersAt, WalkAt, WalkPcs
  <2>3. CASE node[cur[r]].key = k
    <3>1. MayHit(r)
      <4> SUFFICES ASSUME Clear(cur[r], k) PROVE FALSE
        BY <2>2
      <4>1. PICK S \in SUBSET DOMAIN node : cur[r] \in S \cup {0} /\ k \notin KeysOf(S)
        BY DEF Clear
      <4> QED
        BY <1>c, <2>2, <2>3, <4>1 DEF KeysOf
    <3>2. /\ pc' = [pc EXCEPT ![r] = "findDone"] /\ found' = [found EXCEPT ![r] = TRUE]
          /\ cur' = [cur EXCEPT ![r] = 0]
      BY <1>4, <2>3 DEF FindVisit
    <3>m. Moves(r) /\ pc'[r] = "findDone" /\ found'[r]
      BY <1>d, <1>0, <2>1, <3>2
    <3> QED
      BY <3>m, <2>1, <3>1, <3>2, FindMoves DEF WalkPcs
  <2>4. CASE node[cur[r]].key # k
    <3> DEFINE n == node[cur[r]].next
    <3>1. /\ pc' = [pc EXCEPT ![r] = "findState"] /\ found' = found
          /\ cur' = [cur EXCEPT ![r] = n]
      BY <1>4, <2>4 DEF FindVisit
    <3>2. n \in DOMAIN node \cup {0}
      BY <2>2 DEF ListOK, Chain
    <3>3. MayMiss(r) \/ Ahead(n, k, L)
      <4> SUFFICES ASSUME Ahead(cur[r], k, L) PROVE Ahead(n, k, L)
        BY <2>2
      <4>1. PICK m \in L : node[m].key = k /\ Rank(cur[r]) <= Rank(m)
        BY DEF Ahead
      <4>2. m # cur[r] /\ m \in Nat \ {0} /\ cur[r] \in Nat \ {0}
        BY <1>c, <2>2, <2>4, <4>1, NodeFacts
      <4>3. Rank(cur[r]) < Rank(m)
        BY <4>1, <4>2, RankFacts
      <4>4. n # 0 /\ Rank(n) <= Rank(m)
        BY <2>2, <4>3 DEF ListOK, Chain
      <4> QED
        BY <4>1, <4>4 DEF Ahead
    <3>4. MayHit(r) \/ Clear(n, k)
      <4> SUFFICES ASSUME Clear(cur[r], k) PROVE Clear(n, k)
        BY <2>2
      <4>1. PICK S \in SUBSET DOMAIN node :
                Closed(S) /\ cur[r] \in S \cup {0} /\ k \notin KeysOf(S)
        BY DEF Clear
      <4>2. n \in S \cup {0}
        BY <1>c, <2>2, <4>1 DEF Closed
      <4> QED
        BY <4>1, <4>2 DEF Clear
    <3> HIDE DEF n
    <3>m. Moves(r) /\ pc'[r] = "findState" /\ cur'[r] = n
      BY <1>d, <1>0, <1>a, <2>1, <3>1, <3>2
    <3> QED
      BY <3>m, <2>1, <3>1, <3>2, <3>3, <3>4, FindMoves DEF WalkPcs
  <2> QED
    BY <2>3, <2>4
<1>5. CASE FindEnter(r)
  <2>1. pc[r] = "findEnter" /\ UNCHANGED <<nodes, call, history, found>>
    BY <1>5 DEF FindEnter
  <2>2. (MayMiss(r) \/ Ahead(cur[r], k, L)) /\ (MayHit(r) \/ Clear(cur[r], k))
    BY <1>b, <2>1 DEF ReaderAt, AnswersAt, WalkAt, WalkPcs
  <2>3. CASE lockState = ld[r]
    <3>1. pc' = [pc EXCEPT ![r] = "findTree"] /\ cur' = [cur EXCEPT ![r] = 0]
      BY <1>5, <2>3 DEF FindEnter
    <3>m. Moves(r) /\ pc'[r] = "findTree"
      BY <1>d, <1>0, <1>a, <2>1, <3>1
    <3> QED
      BY <3>m, <2>1, <3>1, FindMoves DEF WalkPcs
  <2>4. CASE lockState # ld[r]
    <3>1. pc' = [pc EXCEPT ![r] = "findState"] /\ cur' = cur
      BY <1>5, <2>4 DEF FindEnter
    <3>m. Moves(r) /\ pc'[r] = "findState" /\ cur'[r] = cur[r]
      BY <1>d, <1>0, <1>a, <2>1, <3>1
    <3> QED
      BY <3>m, <2>1, <2>2, <3>1, FindMoves DEF WalkPcs
  <2> QED
    BY <2>3, <2>4
<1>6. CASE FindTree(r)
  <2> DEFINE b == NodeOf(k, tree) # {}
  <2>1. /\ pc[r] = "findTree" /\ UNCHANGED <<nodes, call, history, cur>>
        /\ pc' = [pc EXCEPT ![r] = "findLeave"] /\ found' = [found EXCEPT ![r] = b]
    BY <1>6 DEF FindTree
  <2>2. b \in BOOLEAN /\ (b <=> \E n \in tree : node[n].key = k)
    BY DEF NodeOf
  <2>3. IF b THEN MayHit(r) ELSE MayMiss(r)
    BY <2>1, <2>2, KeyOnList
  <2> HIDE DEF b
  <2>m. Moves(r) /\ pc'[r] = "findLeave" /\ found'[r] = b
    BY <1>d, <1>0, <1>a, <2>1, <2>2
  <2> QED
    BY <2>m, <2>1, <2>2, <2>3, FindMoves DEF WalkPcs
<1>7. CASE FindLeave(r) \/ FindWake(r)
  <2>1. /\ pc[r] \in {"findLeave", "findWake"} /\ UNCHANGED <<nodes, call, history, cur, found>>
        /\ \E l \in {"findWake", "findDone"} : pc' = [pc EXCEPT ![r] = l]
    BY <1>7 DEF FindLeave, FindWake
  <2>2. IF found[r] THEN MayHit(r) ELSE MayMiss(r)
    BY <1>b, <2>1 DEF ReaderAt, AnswersAt, WalkAt
  <2>m. Moves(r) /\ pc'[r] \in {"findWake", "findDone"} /\ found'[r] = found[r]
    BY <1>d, <1>0, <1>a, <2>1
  <2> QED
    BY <2>m, <2>1, <2>2, FindMoves DEF WalkPcs
<1>8. CASE FindReturn(r)
  <2>1. /\ pc'[r] = "idle" /\ UNCHANGED <<nodes, cur, present>>
        /\ \A t \in Threads : t # r => pc'[t] = pc[t] /\ call'[t] = call[t]
        /\ DOMAIN call' = Threads
        /\ found' = [found EXCEPT ![r] = FALSE] /\ allowed' = [allowed EXCEPT ![r] = {}]
    BY <1>8 DEF FindReturn, IInv, Types, ListTypes
  <2>2. /\ \A q \in Readers : q # r => found'[q] = found[q] /\ allowed'[q] = allowed[q]
        /\ found' \in [Readers -> BOOLEAN] /\ allowed' \in [Readers -> SUBSET BOOLEAN]
    BY <2>1 DEF ListTypes
  <2>3. ListTypes'
    BY <2>1, <2>2 DEF ListTypes, nodes
  <2> QED
    BY <2>1, <2>2, <2>3, FindKeeps
<1> QED
  BY <1>1, <1>2, <1>3, <1>4, <1>5, <1>6, <1>7, <1>8 DEF Find

-----------------------------------------------------------------------------
(* A step of a writer leaves what is another thread's alone. *)
Frame(w) ==
    /\ \A t \in Threads : t # w => pc'[t] = pc[t] /\ cur'[t] = cur[t] /\ call'[t] = call[t]
    /\ found' = found
    /\ \A r \in Readers : (MayHit(r) => MayHit(r)') /\ (MayMiss(r) => MayMiss(r)')

(* A walk goes on where it was while the list stays as it is. *)
LEMMA WalkStays ==
    ASSUME NEW L, NEW w \in Writers, NEW r \in Readers, WalkAt(r, L), Frame(w), node' = node
    PROVE  WalkAt(r, L)'
<1>1. pc'[r] = pc[r] /\ cur'[r] = cur[r] /\ call'[r] = call[r]
  BY ReaderNotWriter DEF Frame
<1>2. \A n, k : (Ahead(n, k, L)' <=> Ahead(n, k, L)) /\ (Clear(n, k)' <=> Clear(n, k))
  BY DEF Ahead, Clear, Closed, KeysOf
<1> QED
  BY <1>1, <1>2 DEF WalkAt, Frame

(* What an update must show when it leaves the list alone *)
LEMMA ListStays ==
    ASSUME ListTypes, NEW L, ListOK(L), NEW w \in Writers, Frame(w), UNCHANGED <<node, first>>,
           TreeAgrees(L)', PresentAgrees(L)',
           \A r \in Readers : pc[r] # "idle" => AnswersAt(r, L)'
    PROVE  ListOK(L)'
<1>1. Chain(L)'
  BY DEF ListOK, Chain, Closed
<1>2. ASSUME NEW r \in Readers, pc'[r] # "idle" PROVE ReaderAt(r, L)'
  <2>1. pc[r] # "idle"
    BY <1>2, ReaderNotWriter DEF Frame
  <2>2. WalkAt(r, L)'
    BY <2>1, WalkStays DEF ListOK, ReaderAt
  <2> QED
    BY <2>1, <2>2 DEF ReaderAt
<1> QED
  BY <1>1, <1>2 DEF ListOK

LEMMA WriterTypes ==
    ASSUME ListTypes, NEW w \in Writers, Frame(w), node' = node, tree' \subseteq DOMAIN node,
           cur' \in [Threads -> Nat], DOMAIN call' = Threads,
           allowed' \in [Readers -> SUBSET BOOLEAN],
           pc'[w] # "idle" => call'[w].key \in Keys /\ call'[w].op \in {"insert", "remove"}
    PROVE  ListTypes'
<1> USE ReaderNotWriter
<1>1. \A r \in Readers : cur'[r] \in DOMAIN node \cup {0}
  BY DEF ListTypes, Frame
<1>2. \A t \in Threads : pc'[t] # "idle" => call'[t].key \in Keys
  BY DEF ListTypes, Frame
<1>3. \A v \in Writers : pc'[v] # "idle" => call'[v].op \in {"insert", "remove"}
  BY DEF ListTypes, Frame
<1> QED
  BY <1>1, <1>2, <1>3 DEF ListTypes, Frame

(* The others, when a writer past the mutex is at work *)
LEMMA Alone ==
    ASSUME IInv, ListTypes, NEW L, ListOK(L), NEW w \in Writers, pc[w] \notin {"idle", "mutex"},
           Frame(w)
    PROVE  /\ \A v \in Writers : v # w => /\ ~Working(v) /\ ~Working(v)'
                                          /\ pc[v] \in {"idle", "mutex"} /\ pc'[v] = pc[v]
                                          /\ cur'[v] = cur[v] /\ call'[v] = call[v]
           /\ \A r \in Readers : pc'[r] = pc[r] /\ call'[r] = call[r]
           /\ Working(w) => WriterAt(w, L)
           /\ \A n \in L \ tree : pc[w] = "insertLeaf" /\ cur[w] = n
           /\ ~replaced => \A n \in tree \ L : Working(w) /\ ~Outcome(w) /\ cur[w] = n
           /\ \A k \in Keys : k = call[w].key \/ (k \in present <=> k \in KeysOf(L))
           /\ call[w].key \in Keys /\ call[w].op \in {"insert", "remove"}
<1> USE ReaderNotWriter
<1>1. \A v \in Writers : v # w => pc[v] \in {"idle", "mutex"} /\ ~Working(v)
  BY OthersRest
<1>2. \A v \in Writers : v # w => /\ pc'[v] = pc[v] /\ cur'[v] = cur[v] /\ call'[v] = call[v]
                                  /\ ~Working(v)'
  BY <1>1 DEF Frame, Working
<1>3. \A r \in Readers : pc'[r] = pc[r] /\ call'[r] = call[r]
  BY DEF Frame
<1>4. Working(w) => WriterAt(w, L)
  BY DEF ListOK, TreeAgrees
<1>5. \A n \in L \ tree : pc[w] = "insertLeaf" /\ cur[w] = n
  BY <1>1 DEF ListOK, TreeAgrees
<1>6. ~replaced => \A n \in tree \ L : Working(w) /\ ~Outcome(w) /\ cur[w] = n
  BY <1>1 DEF ListOK, TreeAgrees
<1>7. \A k \in Keys : k = call[w].key \/ (k \in present <=> k \in KeysOf(L))
  BY <1>1 DEF ListOK, PresentAgrees
<1>8. call[w].key \in Keys /\ call[w].op \in {"insert", "remove"}
  BY DEF ListTypes
<1> QED
  BY <1>1, <1>2, <1>3, <1>4, <1>5, <1>6, <1>7, <1>8

(* The steps from the change of the list to unlock_root change only where the
   writer is. *)
LEMMA LockList ==
    ASSUME IInv, ListTypes, NEW L, ListOK(L), NEW w \in Writers,
           \/ LargeEnough(w) \/ LockRoot(w) \/ LockLoad(w) \/ LockTake(w) \/ ClearWaiter(w)
           \/ LockWait(w) \/ SetWaiter(w) \/ Park(w) \/ ParkSpurious(w)
    PROVE  ListTypes' /\ ListOK(L)'
<1> DEFINE lockPcs == {"lockRoot", "lockLoad", "lockTake", "clearWaiter", "lockWait", "setWaiter",
                       "park", "rebalance"}
<1>1. /\ UNCHANGED <<nodes, call, cur, found, history>> /\ pc' = [pc EXCEPT ![w] = pc'[w]]
      /\ pc[w] \in lockPcs \cup {"shape"} /\ pc'[w] \in lockPcs
  BY DEF Goto, lock, nodes, LargeEnough, LockRoot, LockLoad, LockTake, ClearWaiter, LockWait,
     SetWaiter, Park, ParkSpurious, IInv, Types, Threads
<1>2. Frame(w)
  BY <1>1 DEF Frame, IInv, Types, MayHit, MayMiss, history
<1>3. ListTypes'
  BY <1>1, <1>2, WriterTypes, ReaderNotWriter DEF ListTypes, nodes, history
<1>4. Working(w) /\ Working(w)' /\ (Outcome(w)' <=> Outcome(w)) /\ KeysOf(L)' = KeysOf(L)
  BY <1>1 DEF Working, Outcome, KeysOf, nodes
<1>5. WriterAt(w, L)'
  BY <1>1, <1>2, <1>4, Alone DEF WriterAt, LatePcs, nodes, history
<1>6. TreeAgrees(L)'
  BY <1>1, <1>2, <1>4, <1>5, Alone DEF TreeAgrees, nodes, history
<1>7. PresentAgrees(L)'
  BY <1>1, <1>2, <1>4, Alone DEF PresentAgrees, nodes, history
<1>8. ASSUME NEW r \in Readers, pc[r] # "idle" PROVE AnswersAt(r, L)'
  <2>1. AnswersAt(r, L)
    BY <1>8 DEF ListOK, ReaderAt
  <2> QED
    BY <1>1, <1>2, <1>4, <2>1, Alone DEF AnswersAt, Frame, nodes, history
<1> QED
  BY <1>1, <1>2, <1>3, <1>6, <1>7, <1>8, ListStays DEF nodes

(* The steps that change the tree, or put a list in the place of the bin *)
LEMMA TreeList ==
    ASSUME IInv, ListTypes, NEW L, ListOK(L), NEW w \in Writers,
           \/ \E red \in BOOLEAN : InsertLeaf(w, red)
           \/ TooSmall(w) \/ Untreeify(w) \/ Rebalance(w) \/ UnlockRoot(w)
    PROVE  ListTypes' /\ ListOK(L)'
<1>1. /\ UNCHANGED <<node, first, call, cur, found, history>> /\ pc' = [pc EXCEPT ![w] = pc'[w]]
      /\ pc[w] \in {"insertLeaf", "shape", "untreeify", "rebalance", "unlockRoot"}
  BY DEF Goto, lock, nodes, InsertLeaf, TooSmall, Untreeify, Rebalance, UnlockRoot,
     IInv, Types, Threads
<1>2. /\ Frame(w) /\ Working(w) /\ (Outcome(w)' <=> Outcome(w)) /\ KeysOf(L)' = KeysOf(L)
  BY <1>1 DEF Frame, IInv, Types, MayHit, MayMiss, history, Working, Outcome, KeysOf
<1>3. /\ \A v \in Writers : v # w => ~Working(v) /\ ~Working(v)' /\ pc[v] \in {"idle", "mutex"}
                                     /\ pc'[v] = pc[v] /\ cur'[v] = cur[v] /\ call'[v] = call[v]
      /\ \A r \in Readers : pc'[r] = pc[r] /\ call'[r] = call[r]
      /\ WriterAt(w, L) /\ ~replaced
      /\ \A n \in L \ tree : pc[w] = "insertLeaf" /\ cur[w] = n
      /\ \A n \in tree \ L : ~Outcome(w) /\ cur[w] = n
      /\ \A k \in Keys : k = call[w].key \/ (k \in present <=> k \in KeysOf(L))
      /\ call[w].key \in Keys /\ call[w].op \in {"insert", "remove"}
  <2>1. pc[w] \notin {"idle", "mutex"}
    BY <1>1
  <2>2. WriterAt(w, L)
    BY <1>2, <2>1, Alone
  <2>3. ~replaced
    BY <1>1, <2>2 DEF WriterAt
  <2> QED
    BY <1>2, <2>1, <2>2, <2>3, Alone
<1>4. /\ cur[w] \in DOMAIN node /\ cur[w] # 0 /\ node[cur[w]].key = call[w].key
      /\ cur[w] \in L => call[w].key \in KeysOf(L)
  BY <1>1, <1>3, NodeFacts DEF WriterAt, KeysOf
<1>5. tree \subseteq DOMAIN node /\ L \subseteq DOMAIN node
  BY DEF ListTypes, ListOK, Chain
<1> DEFINE After == /\ pc'[w] \in LatePcs
                    /\ tree' \subseteq DOMAIN node
                    /\ \A n \in tree' \ L : n \in tree \ L
                    /\ \A n \in L : n \in tree'
                    /\ IF Outcome(w) THEN cur[w] \in L ELSE call[w].key \notin KeysOf(L)
                    /\ pc'[w] \in {"shape", "untreeify"} => ~Outcome(w)
                    /\ pc'[w] = "release" \/ ~replaced'
                    /\ pc'[w] = "unlockRoot" \/ (pc'[w] = "release" /\ ~replaced')
                          => (cur[w] \in tree' <=> Outcome(w))
<1>6. ASSUME After PROVE ListTypes' /\ ListOK(L)'
  <2>1. ListTypes'
    BY <1>1, <1>2, <1>3, <1>6, WriterTypes, ReaderNotWriter DEF ListTypes, history
  <2>2. Working(w)'
    BY <1>1, <1>4, <1>6 DEF Working, LatePcs
  <2>3. WriterAt(w, L)'
    BY <1>1, <1>2, <1>3, <1>4, <1>6 DEF WriterAt, LatePcs, history
  <2>4. TreeAgrees(L)'
    BY <1>1, <1>2, <1>3, <1>4, <1>6, <2>2, <2>3 DEF TreeAgrees
  <2>5. PresentAgrees(L)'
    BY <1>1, <1>2, <1>3, <2>2 DEF PresentAgrees, history
  <2>6. ASSUME NEW r \in Readers, pc[r] # "idle" PROVE AnswersAt(r, L)'
    <3>1. AnswersAt(r, L)
      BY <2>6 DEF ListOK, ReaderAt
    <3>2. (MayHit(r)' <=> MayHit(r)) /\ (MayMiss(r)' <=> MayMiss(r))
      BY <1>1 DEF MayHit, MayMiss, history
    <3>3. \A v \in Writers : Working(v)' => Working(v) /\ (Outcome(v)' <=> Outcome(v))
                                            /\ call'[v] = call[v]
      BY <1>1, <1>2, <1>3
    <3> QED
      BY <1>1, <1>6, <3>1, <3>2, <3>3 DEF AnswersAt, history
  <2> QED
    BY <1>1, <1>2, <2>1, <2>4, <2>5, <2>6, ListStays
<1> HIDE DEF After
<1>7. pc \in [Threads -> FindPcs \cup UpdatePcs] /\ w \in Threads
  BY ReaderNotWriter DEF IInv, Types
<1>8. CASE \E red \in BOOLEAN : InsertLeaf(w, red)
  <2>1. /\ pc[w] = "insertLeaf" /\ tree' = tree \cup {cur[w]} /\ pc'[w] \in {"lockRoot", "release"}
        /\ replaced' = replaced
    BY <1>7, <1>8 DEF InsertLeaf, Goto
  <2>2. Outcome(w) /\ cur[w] \in L
    BY <1>3, <2>1 DEF WriterAt
  <2>3. After
    BY <1>3, <1>4, <1>5, <2>1, <2>2 DEF After, LatePcs
  <2> QED
    BY <1>6, <2>3
<1>9. CASE TooSmall(w)
  <2>1. /\ pc[w] = "shape" /\ tree' = (IF first = 0 THEN {} ELSE tree) /\ pc'[w] = "untreeify"
        /\ replaced' = replaced
    BY <1>7, <1>9 DEF TooSmall, Goto
  <2>2. first = 0 => L = {}
    BY DEF ListOK, Chain
  <2>3. After
    BY <1>3, <1>5, <2>1, <2>2 DEF After, WriterAt, LatePcs
  <2> QED
    BY <1>6, <2>3
<1>10. CASE Untreeify(w)
  <2>1. pc[w] = "untreeify" /\ tree' = tree /\ pc'[w] = "release" /\ replaced'
    BY <1>7, <1>10 DEF Untreeify, Goto
  <2>2. After
    BY <1>3, <1>5, <2>1 DEF After, WriterAt, LatePcs
  <2> QED
    BY <1>6, <2>2
<1>11. CASE Rebalance(w)
  <2>1. /\ pc[w] = "rebalance" /\ tree' = (IF Outcome(w) THEN tree ELSE tree \ {cur[w]})
        /\ pc'[w] = "unlockRoot" /\ replaced' = replaced
    BY <1>7, <1>11 DEF Rebalance, Goto
  <2>2. IF Outcome(w) THEN cur[w] \in L ELSE call[w].key \notin KeysOf(L)
    BY <1>3, <2>1 DEF WriterAt, LatePcs
  <2>3. Outcome(w) => cur[w] \in tree
    BY <1>3, <2>1, <2>2
  <2>4. After
    BY <1>3, <1>4, <1>5, <2>1, <2>2, <2>3 DEF After, LatePcs
  <2> QED
    BY <1>6, <2>4
<1>12. CASE UnlockRoot(w)
  <2>1. pc[w] = "unlockRoot" /\ tree' = tree /\ pc'[w] = "release" /\ replaced' = replaced
    BY <1>7, <1>12 DEF UnlockRoot, Goto, nodes
  <2>2. After
    BY <1>3, <1>5, <2>1 DEF After, WriterAt, LatePcs
  <2> QED
    BY <1>6, <2>2
<1> QED
  BY <1>8, <1>9, <1>10, <1>11, <1>12

(* Between two updates list, tree and history say the same. *)
LEMMA AtRest ==
    ASSUME NEW L, ListOK(L), \A v \in Writers : ~Working(v)
    PROVE  /\ L \subseteq tree /\ (~replaced => tree = L)
           /\ \A k \in Keys : k \in present <=> k \in KeysOf(L)
<1>1. \A n \in L : n \in tree
  BY DEF ListOK, TreeAgrees, Working
<1>2. ~replaced => \A n \in tree : n \in L
  BY DEF ListOK, TreeAgrees
<1>3. \A k \in Keys : k \in present <=> k \in KeysOf(L)
  BY DEF ListOK, PresentAgrees
<1> QED
  BY <1>1, <1>2, <1>3

LEMMA UpdateBeginList ==
    ASSUME IInv, ListTypes, NEW L, ListOK(L), NEW w \in Writers,
           NEW o \in {"insert", "remove"}, NEW k \in Keys, UpdateBegin(w, o, k)
    PROVE  ListTypes' /\ ListOK(L)'
<1>1. /\ UNCHANGED <<nodes, cur, found, history>> /\ pc[w] = "idle" /\ pc'[w] = "mutex"
      /\ call'[w].key = k /\ call'[w].op = o /\ DOMAIN call' = Threads
      /\ \A t \in Threads : t # w => pc'[t] = pc[t] /\ call'[t] = call[t]
  BY ReaderNotWriter DEF UpdateBegin, Goto, IInv, Types, ListTypes
<1>2. Frame(w)
  BY <1>1 DEF Frame, MayHit, MayMiss, history
<1>3. ListTypes'
  BY <1>1, <1>2, WriterTypes DEF ListTypes, nodes, history
<1>4. /\ ~Working(w) /\ ~Working(w)'
      /\ \A v \in Writers : v # w => /\ pc'[v] = pc[v] /\ cur'[v] = cur[v] /\ call'[v] = call[v]
                                     /\ (Working(v)' <=> Working(v)) /\ (Outcome(v)' <=> Outcome(v))
  BY <1>1, <1>2, ReaderNotWriter DEF Working, Frame, Outcome
<1>5. KeysOf(L)' = KeysOf(L)
  BY <1>1 DEF KeysOf, nodes
<1>6. TreeAgrees(L)'
  <2>1. \A v \in Writers : Working(v)' => Working(v) /\ v # w
    BY <1>4
  <2>2. \A v \in Writers : v # w /\ WriterAt(v, L) => WriterAt(v, L)'
    BY <1>1, <1>4, <1>5 DEF WriterAt, nodes, history
  <2>3. \A v \in Writers : Working(v)' => WriterAt(v, L)'
    BY <2>1, <2>2 DEF ListOK, TreeAgrees
  <2>4. \A n \in L \ tree : \E v \in Writers : pc'[v] = "insertLeaf" /\ cur'[v] = n
    BY <1>1, <1>4 DEF ListOK, TreeAgrees
  <2>5. ~replaced => \A n \in tree \ L :
                        \E v \in Writers : Working(v)' /\ ~Outcome(v)' /\ cur'[v] = n
    BY <1>1, <1>4 DEF ListOK, TreeAgrees
  <2>6. \A v \in Writers : pc'[v] = "release" /\ cur'[v] = 0
                             => replaced \/ (Outcome(v)' <=> call'[v].key \in present)
    BY <1>1, <1>4 DEF ListOK, TreeAgrees
  <2> QED
    BY <1>1, <2>3, <2>4, <2>5, <2>6 DEF TreeAgrees, nodes, history
<1>7. PresentAgrees(L)'
  BY <1>1, <1>4, <1>5 DEF ListOK, PresentAgrees, history
<1>8. ASSUME NEW r \in Readers, pc[r] # "idle" PROVE AnswersAt(r, L)'
  <2>1. AnswersAt(r, L)
    BY <1>8 DEF ListOK, ReaderAt
  <2>2. call'[r] = call[r]
    BY <1>1, ReaderNotWriter
  <2> QED
    BY <1>1, <1>2, <1>4, <2>1, <2>2 DEF AnswersAt, Frame, nodes, history
<1> QED
  BY <1>1, <1>2, <1>3, <1>6, <1>7, <1>8, ListStays DEF nodes

LEMMA TakeMutexList ==
    ASSUME IInv, ListTypes, NEW L, ListOK(L), NEW w \in Writers, TakeMutex(w)
    PROVE  ListTypes' /\ ListOK(L)'
<1> DEFINE k == call[w].key
           old == NodeOf(k, tree)
           nothing == replaced \/ (Outcome(w) <=> old # {})
<1>1. /\ UNCHANGED <<nodes, call, found, present>> /\ pc[w] = "mutex" /\ mutex = Nobody
      /\ pc' = [pc EXCEPT ![w] = pc'[w]]
      /\ pc'[w] = IF nothing THEN "release" ELSE IF Outcome(w) THEN "insertFirst" ELSE "unlink"
      /\ cur' = [cur EXCEPT ![w] = IF nothing \/ Outcome(w) THEN 0 ELSE CHOOSE n \in old : TRUE]
      /\ allowed' = IF nothing THEN allowed
                    ELSE [r \in Readers |-> IF pc[r] # "idle" /\ call[r].key = k
                                            THEN allowed[r] \cup {Outcome(w)} ELSE allowed[r]]
  BY ReaderNotWriter DEF TakeMutex, Goto, IInv, Types
<1>2. k \in Keys /\ call[w].op \in {"insert", "remove"}
  BY <1>1, ReaderNotWriter DEF ListTypes
<1>3. \A v \in Writers : ~Working(v) /\ pc[v] \in {"idle", "mutex"}
  BY <1>1, ReaderNotWriter DEF Working, IInv, MutexHeld
<1>4. /\ L \subseteq tree /\ (~replaced => tree = L)
      /\ \A j \in Keys : j \in present <=> j \in KeysOf(L)
  BY <1>3, AtRest
<1>5. old \subseteq tree /\ (\A n \in old : node[n].key = k) /\ (old # {} <=> k \in KeysOf(tree))
  BY DEF NodeOf, KeysOf
<1>6. tree \subseteq DOMAIN node /\ DOMAIN node \subseteq Nat /\ 0 \notin DOMAIN node
  BY NodeFacts DEF ListTypes
<1>7. /\ ~nothing /\ ~Outcome(w) => cur'[w] \in old
      /\ nothing \/ Outcome(w) => cur'[w] = 0
      /\ cur' \in [Threads -> Nat]
      /\ \A t \in Threads : t # w => cur'[t] = cur[t]
  <2>1. ~nothing /\ ~Outcome(w) => (CHOOSE n \in old : TRUE) \in old
    OBVIOUS
  <2> HIDE DEF nothing, old
  <2>2. w \in Threads /\ cur \in [Threads -> Nat]
    BY ReaderNotWriter DEF ListTypes
  <2>3. old \subseteq Nat
    BY <1>5, <1>6
  <2> QED
    BY <1>1, <2>1, <2>2, <2>3
<1>8. /\ allowed' \in [Readers -> SUBSET BOOLEAN]
      /\ \A r \in Readers : allowed[r] \subseteq allowed'[r]
  <2>1. Outcome(w) \in BOOLEAN
    BY DEF Outcome
  <2>2. allowed \in [Readers -> SUBSET BOOLEAN]
    BY DEF ListTypes
  <2> HIDE DEF nothing, old
  <2>3. CASE nothing
    BY <1>1, <2>2, <2>3
  <2>4. CASE ~nothing
    BY <1>1, <2>1, <2>2, <2>4
  <2> QED
    BY <2>3, <2>4
<1>9. ASSUME ~nothing, NEW r \in Readers, pc[r] # "idle", call[r].key = k
      PROVE  IF Outcome(w) THEN MayHit(r)' ELSE MayMiss(r)'
  <2>1. Outcome(w) \in allowed'[r]
    <3> HIDE DEF nothing
    <3> QED
      BY <1>1, <1>9
  <2>2. CASE Outcome(w)
    <3>1. Outcome(w) = TRUE
      BY <2>2 DEF Outcome
    <3> QED
      BY Zenon, <2>1, <2>2, <3>1 DEF MayHit
  <2>3. CASE ~Outcome(w)
    <3>1. Outcome(w) = FALSE
      BY <2>3 DEF Outcome
    <3> QED
      BY Zenon, <2>1, <2>3, <3>1 DEF MayMiss
  <2> QED
    BY <2>2, <2>3
<1>a. nothing => replaced \/ (Outcome(w) <=> k \in present)
  BY <1>2, <1>4, <1>5
<1>b. ~nothing => ~replaced /\ (Outcome(w) <=> k \notin KeysOf(L)) /\ (Outcome(w) <=> k \notin present)
  BY <1>2, <1>4, <1>5
<1>c. pc'[w] = (IF nothing THEN "release" ELSE IF Outcome(w) THEN "insertFirst" ELSE "unlink")
  BY <1>1
<1>d. ~nothing /\ ~Outcome(w) => cur'[w] \in L /\ cur'[w] \in DOMAIN node /\ node[cur'[w]].key = k
  BY <1>4, <1>5, <1>6, <1>7
<1> HIDE DEF nothing, old
<1>10. Frame(w)
  <2>1. \A t \in Threads : t # w => pc'[t] = pc[t]
    BY <1>1 DEF IInv, Types
  <2> QED
    BY <1>1, <1>7, <1>8, <2>1 DEF Frame, MayHit, MayMiss
<1>11. ListTypes'
  BY <1>1, <1>2, <1>7, <1>8, <1>10, WriterTypes DEF ListTypes, nodes
<1>12. /\ Outcome(w)' <=> Outcome(w)
       /\ KeysOf(L)' = KeysOf(L)
       /\ Working(w)' <=> ~nothing
  BY <1>1, <1>7, <1>c DEF Outcome, KeysOf, Working, nodes
<1>13. \A v \in Writers : v # w => ~Working(v)' /\ pc'[v] \in {"idle", "mutex"} /\ call'[v] = call[v]
  BY <1>1, <1>3, <1>10, ReaderNotWriter DEF Frame, Working
<1>14. ~nothing => WriterAt(w, L)'
  BY <1>1, <1>7, <1>b, <1>c, <1>d, <1>12 DEF WriterAt, LatePcs, nodes
<1>15. TreeAgrees(L)'
  <2>1. L \ tree = {} /\ (~replaced => tree \ L = {})
    BY <1>4
  <2>2. ~nothing => pc'[w] # "release"
    BY <1>c
  <2> QED
    BY <1>1, <1>7, <1>12, <1>13, <1>14, <1>a, <2>1, <2>2 DEF TreeAgrees, nodes
<1>16. PresentAgrees(L)'
  BY <1>1, <1>4, <1>12 DEF PresentAgrees
<1>17. ASSUME NEW r \in Readers, pc[r] # "idle" PROVE AnswersAt(r, L)'
  <2>1. AnswersAt(r, L)
    BY <1>17 DEF ListOK, ReaderAt
  <2>2. ASSUME NEW v \in Writers, Working(v)', call'[v].key = call'[r].key
        PROVE  IF Outcome(v)' THEN MayHit(r)' ELSE MayMiss(r)'
    BY <1>1, <1>9, <1>12, <1>13, <1>17, <2>2
  <2> QED
    BY <1>1, <1>10, <2>1, <2>2 DEF AnswersAt, Frame, nodes
<1> QED
  BY <1>1, <1>10, <1>11, <1>15, <1>16, <1>17, ListStays DEF nodes

LEMMA ReleaseList ==
    ASSUME IInv, ListTypes, NEW L, ListOK(L), NEW w \in Writers, Release(w)
    PROVE  ListTypes' /\ ListOK(L)'
<1> DEFINE k == call[w].key
<1>1. /\ UNCHANGED <<nodes, found, allowed>> /\ pc[w] = "release" /\ pc'[w] = "idle" /\ cur'[w] = 0
      /\ present' = IF replaced /\ cur[w] = 0 THEN present
                    ELSE IF Outcome(w) THEN present \cup {k} ELSE present \ {k}
      /\ cur' \in [Threads -> Nat] /\ DOMAIN call' = Threads
      /\ \A t \in Threads : t # w => pc'[t] = pc[t] /\ cur'[t] = cur[t] /\ call'[t] = call[t]
  BY ReaderNotWriter DEF Release, Goto, IInv, Types, ListTypes
<1>2. Frame(w)
  BY <1>1 DEF Frame, MayHit, MayMiss
<1>3. ListTypes'
  BY <1>1, <1>2, WriterTypes DEF ListTypes, nodes
<1>4. /\ \A v \in Writers : ~Working(v)' /\ pc'[v] \in {"idle", "mutex"}
      /\ L \subseteq tree
      /\ k \in Keys
      /\ \A r \in Readers : pc'[r] = pc[r] /\ call'[r] = call[r]
  <2>1. ~Working(w)'
    BY <1>1 DEF Working
  <2> QED
    BY <1>1, <1>2, <2>1, Alone
<1>5. CASE cur[w] = 0
  <2>1. \A v \in Writers : ~Working(v)
    BY <1>1, <1>5, OthersRest DEF Working
  <2>2. present' = present
    <3>1. replaced \/ (Outcome(w) <=> k \in present)
      BY <1>1, <1>5 DEF ListOK, TreeAgrees
    <3> QED
      BY <1>1, <1>5, <3>1
  <2>3. TreeAgrees(L)'
    BY <1>1, <1>4, <2>1, AtRest DEF TreeAgrees, nodes
  <2>4. PresentAgrees(L)'
    BY <1>1, <2>1, <2>2, AtRest DEF PresentAgrees, KeysOf, nodes
  <2>5. ASSUME NEW r \in Readers, pc[r] # "idle" PROVE AnswersAt(r, L)'
    <3>1. AnswersAt(r, L)
      BY <2>5 DEF ListOK, ReaderAt
    <3> QED
      BY <1>1, <1>2, <1>4, <2>2, <3>1 DEF AnswersAt, Frame, nodes
  <2> QED
    BY <1>1, <1>2, <1>3, <2>3, <2>4, <2>5, ListStays DEF nodes
<1>6. CASE cur[w] # 0
  <2>1. Working(w)
    BY <1>1, <1>6 DEF Working
  <2>2. /\ IF Outcome(w) THEN cur[w] \in L ELSE k \notin KeysOf(L)
        /\ node[cur[w]].key = k
        /\ ~replaced => (cur[w] \in tree <=> Outcome(w))
    <3>1. WriterAt(w, L)
      BY <2>1 DEF ListOK, TreeAgrees
    <3> QED
      BY <1>1, <3>1 DEF WriterAt, LatePcs
  <2>3. k \in KeysOf(L) <=> Outcome(w)
    BY <2>2 DEF KeysOf
  <2>4. /\ \A j \in Keys : j # k => (j \in present' <=> j \in present)
        /\ k \in present' <=> Outcome(w)
    BY <1>1, <1>6
  <2>5. TreeAgrees(L)'
    <3>1. ~replaced => \A n \in tree \ L : ~Outcome(w) /\ cur[w] = n
      BY <1>1, <1>2, Alone
    <3>2. ~replaced => tree \ L = {}
      BY <2>2, <3>1
    <3> QED
      BY <1>1, <1>4, <3>2 DEF TreeAgrees, nodes
  <2>6. PresentAgrees(L)'
    <3>1. \A j \in Keys : j = k \/ (j \in present <=> j \in KeysOf(L))
      BY <1>1, <1>2, Alone
    <3>2. KeysOf(L)' = KeysOf(L)
      BY <1>1 DEF KeysOf, nodes
    <3> QED
      BY <2>3, <2>4, <3>1, <3>2 DEF PresentAgrees
  <2>7. ASSUME NEW r \in Readers, pc[r] # "idle" PROVE AnswersAt(r, L)'
    <3>1. AnswersAt(r, L)
      BY <2>7 DEF ListOK, ReaderAt
    <3>2. call[r].key \in Keys
      BY <2>7, ReaderNotWriter DEF ListTypes
    <3>3. IF call[r].key \in present' THEN MayHit(r) ELSE MayMiss(r)
      BY <2>1, <2>4, <3>1, <3>2 DEF AnswersAt
    <3> QED
      BY <1>1, <1>2, <1>4, <3>1, <3>3 DEF AnswersAt, Frame, nodes
  <2> QED
    BY <1>1, <1>2, <1>3, <2>5, <2>6, <2>7, ListStays DEF nodes
<1> QED
  BY <1>5, <1>6

-----------------------------------------------------------------------------
(* The new node comes before all that were there ... *)
LEMMA InsertFirstList ==
    ASSUME IInv, ListTypes, NEW L, ListOK(L), NEW w \in Writers, InsertFirst(w),
           NEW x, x = Len(node) + 1
    PROVE  ListTypes' /\ ListOK(L \cup {x})'
<1> DEFINE k == call[w].key
           M == L \cup {x}
<1>1. /\ UNCHANGED <<tree, replaced, call, found, history>> /\ pc[w] = "insertFirst"
      /\ pc'[w] = "insertLeaf" /\ first' = x /\ cur'[w] = x
      /\ cur' = [cur EXCEPT ![w] = x]
      /\ \A t \in Threads : t # w => pc'[t] = pc[t] /\ cur'[t] = cur[t]
  BY ReaderNotWriter DEF InsertFirst, Goto, IInv, Types, ListTypes
<1>2. /\ Len(node) \in Nat /\ DOMAIN node = 1..Len(node) /\ 0 \notin DOMAIN node
      /\ x \in Nat \ {0} /\ x \notin DOMAIN node
      /\ \A n \in DOMAIN node : n \in Nat \ {0} /\ n < x
  BY NodeFacts
<1>3. /\ node' \in Seq([key : Keys, next : Nat, prev : Nat])
      /\ Len(node') = x /\ DOMAIN node' = DOMAIN node \cup {x}
      /\ node'[x].key = k /\ node'[x].next = first /\ node'[x].prev = 0
      /\ \A n \in DOMAIN node : /\ node'[n].key = node[n].key /\ node'[n].next = node[n].next
                                /\ node'[n].prev = IF n = first THEN x ELSE node[n].prev
  <2> DEFINE Nodes == [key : Keys, next : Nat, prev : Nat]
             new == [key |-> k, next |-> first, prev |-> 0]
             old == [n \in 1..Len(node) |->
                        IF n = first THEN [node[n] EXCEPT !.prev = x] ELSE node[n]]
  <2>1. node' = Append(old, new)
    BY <1>2 DEF InsertFirst
  <2>2. first \in Nat /\ k \in Keys
    BY <1>1, <1>2, ReaderNotWriter DEF ListTypes, ListOK, Chain
  <2>3. new \in Nodes /\ new.key = k /\ new.next = first /\ new.prev = 0
    BY <2>2
  <2>4. ASSUME NEW n \in 1..Len(node)
        PROVE  /\ old[n] \in Nodes
               /\ old[n].key = node[n].key /\ old[n].next = node[n].next
               /\ old[n].prev = IF n = first THEN x ELSE node[n].prev
    BY <1>2, NodeFacts
  <2>5. old \in [1..Len(node) -> Nodes]
    BY <2>4
  <2> HIDE DEF new, Nodes, old
  <2>6. old \in Seq(Nodes) /\ Len(old) = Len(node)
    BY <1>2, <2>5, LenProperties
  <2>7. /\ node' \in Seq(Nodes) /\ Len(node') = x /\ node'[x] = new
        /\ \A n \in 1..Len(node) : node'[n] = old[n]
    BY <1>2, <2>1, <2>3, <2>6
  <2>8. DOMAIN node' = 1..x /\ 1..x = 1..Len(node) \cup {x}
    <3>1. DOMAIN node' = 1..Len(node')
      BY <2>7
    <3> QED
      BY <1>2, <2>7, <3>1
  <2>9. \A n \in DOMAIN node : node'[n] = old[n]
    BY <1>2, <2>7
  <2>10. \A n \in DOMAIN node : /\ node'[n].key = node[n].key /\ node'[n].next = node[n].next
                                 /\ node'[n].prev = IF n = first THEN x ELSE node[n].prev
    BY <1>2, <2>4, <2>9
  <2>11. DOMAIN node' = DOMAIN node \cup {x} /\ Len(node') = x
    BY <1>2, <2>7, <2>8
  <2>12. node' \in Seq([key : Keys, next : Nat, prev : Nat])
    BY <2>7 DEF Nodes
  <2> QED
    BY <2>3, <2>7, <2>10, <2>11, <2>12
<1>4. Frame(w)
  BY <1>1 DEF Frame, MayHit, MayMiss, history
<1>5. ListTypes'
  <2>1. \A r \in Readers : cur'[r] \in DOMAIN node' \cup {0}
    BY <1>1, <1>3, ReaderNotWriter DEF ListTypes
  <2>2. cur' \in [Threads -> Nat] /\ tree \subseteq DOMAIN node' /\ Len(FirstKeys) <= Len(node')
    <3>1. Len(FirstKeys) <= Len(node')
      BY <1>2, <1>3, RankFacts DEF ListTypes
    <3>2. cur' \in [Threads -> Nat]
      BY <1>1, <1>2 DEF ListTypes
    <3> QED
      BY <1>1, <1>3, <3>1, <3>2 DEF ListTypes
  <2>3. \A t \in Threads : pc'[t] # "idle" => call'[t].key \in Keys
    BY <1>1 DEF ListTypes
  <2>4. \A v \in Writers : pc'[v] # "idle" => call'[v].op \in {"insert", "remove"}
    BY <1>1, ReaderNotWriter DEF ListTypes
  <2>5. found' \in [Readers -> BOOLEAN] /\ allowed' \in [Readers -> SUBSET BOOLEAN]
        /\ DOMAIN call' = Threads /\ tree' = tree
    BY <1>1 DEF ListTypes, history
  <2> QED
    BY <1>3, <2>1, <2>2, <2>3, <2>4, <2>5 DEF ListTypes
<1>6. Working(w) /\ Working(w)' /\ Outcome(w) /\ Outcome(w)' /\ WriterAt(w, L)
  BY <1>1 DEF Working, ListOK, TreeAgrees, WriterAt, Outcome
<1>7. L \subseteq DOMAIN node /\ k \notin KeysOf(L) /\ tree = L /\ tree \subseteq DOMAIN node /\ ~replaced
  <2>1. k \notin KeysOf(L) /\ ~replaced
    BY <1>1, <1>6 DEF WriterAt
  <2>2. \A n \in L : n \in tree
    BY <1>1, <1>4, Alone
  <2>3. \A n \in tree : n \in L
    BY <1>1, <1>4, <1>6, <2>1, Alone
  <2> QED
    BY <2>1, <2>2, <2>3 DEF ListOK, Chain
<1>8. \A n \in DOMAIN node : Rank(x) < Rank(n) /\ Rank(n) \in Int /\ Rank(x) \in Int
  <2>1. Len(FirstKeys) < x
    BY <1>2, RankFacts DEF ListTypes
  <2> QED
    BY <1>2, <2>1, RankFacts
<1>9. /\ \A S \in SUBSET DOMAIN node : KeysOf(S)' = KeysOf(S)
      /\ KeysOf(M)' = KeysOf(L) \cup {k}
  <2>1. \A S \in SUBSET DOMAIN node : KeysOf(S)' = KeysOf(S)
    BY <1>3 DEF KeysOf
  <2>2. KeysOf(M)' = KeysOf(L)' \cup {k}
    BY <1>3 DEF KeysOf
  <2> QED
    BY <1>7, <2>1, <2>2
<1>10. Chain(M)'
  <2>1. M \subseteq DOMAIN node' /\ first' \in M
    BY <1>1, <1>3, <1>7
  <2>2. \A m \in M : first' # 0 /\ Rank(first') <= Rank(m)
    <3>1. \A m \in L : Rank(x) <= Rank(m)
      BY <1>7, <1>8
    <3>2. Rank(x) <= Rank(x)
      BY <1>2, RankFacts
    <3> QED
      BY <1>1, <1>2, <3>1, <3>2
  <2>3. ASSUME NEW n \in DOMAIN node', node'[n].next # 0
        PROVE  node'[n].next \in DOMAIN node' /\ Rank(n) < Rank(node'[n].next)
    <3>1. CASE n = x
      BY <1>3, <1>7, <1>8, <2>3, <3>1 DEF ListOK, Chain
    <3>2. CASE n # x
      BY <1>3, <2>3, <3>2 DEF ListOK, Chain
    <3> QED
      BY <3>1, <3>2
  <2>4. ASSUME NEW n \in DOMAIN node', NEW m \in M, Rank(n) < Rank(m)
        PROVE  node'[n].next # 0 /\ Rank(node'[n].next) <= Rank(m)
    <3>1. m # x /\ m \in L
      <4>1. ~(Rank(x) < Rank(x)) /\ \A i \in DOMAIN node : ~(Rank(i) < Rank(x))
        BY <1>2, <1>8, RankFacts
      <4> QED
        BY <1>3, <2>4, <4>1
    <3>2. CASE n = x
      BY <1>3, <3>1, <3>2 DEF ListOK, Chain
    <3>3. CASE n # x
      BY <1>3, <2>4, <3>1, <3>3 DEF ListOK, Chain
    <3> QED
      BY <3>2, <3>3
  <2>5. Closed(M)'
    BY <1>3, <1>7 DEF ListOK, Chain, Closed
  <2>6. ASSUME NEW n \in M
        PROVE  /\ node'[n].prev = 0 <=> n = first'
               /\ node'[n].prev # 0 => node'[n].prev \in M /\ node'[node'[n].prev].next = n
    <3>1. CASE n = x
      BY <1>1, <1>3, <3>1
    <3>2. CASE n # x /\ n = first
      BY <1>1, <1>2, <1>3, <1>7, <3>2
    <3>3. CASE n # x /\ n # first
      <4>1. n \in L /\ n \in DOMAIN node
        BY <1>7, <3>3
      <4>2. node[n].prev # 0 /\ node[n].prev \in L /\ node[node[n].prev].next = n
        BY <3>3, <4>1 DEF ListOK, Chain
      <4>3. node'[n].prev = node[n].prev /\ node'[node[n].prev].next = n
        BY <1>3, <1>7, <3>3, <4>1, <4>2
      <4> QED
        BY <1>1, <3>3, <4>2, <4>3
    <3> QED
      BY <3>1, <3>2, <3>3
  <2>7. \A m, n \in M : node'[m].key = node'[n].key => m = n
    <3>1. \A m \in L : node'[m].key # k
      BY <1>3, <1>7 DEF KeysOf
    <3>2. \A m, n \in L : node'[m].key = node'[n].key => m = n
      BY <1>3, <1>7 DEF ListOK, Chain
    <3> QED
      BY <1>3, <3>1, <3>2
  <2> QED
    BY <2>1, <2>2, <2>3, <2>4, <2>5, <2>6, <2>7 DEF Chain
<1>11. WriterAt(w, M)'
  BY <1>1, <1>2, <1>3, <1>6, <1>7 DEF WriterAt, LatePcs, history
<1>12. TreeAgrees(M)'
  BY <1>1, <1>4, <1>7, <1>11, Alone DEF TreeAgrees
<1>13. PresentAgrees(M)'
  <2>1. \A j \in Keys : j = k \/ (j \in present <=> j \in KeysOf(L))
    BY <1>1, <1>4, Alone
  <2> QED
    BY <1>1, <1>6, <1>9, <2>1 DEF PresentAgrees, history
<1>14. ASSUME NEW r \in Readers, pc'[r] # "idle" PROVE ReaderAt(r, M)'
  <2>1. /\ pc'[r] = pc[r] /\ cur'[r] = cur[r] /\ call'[r] = call[r] /\ found'[r] = found[r]
        /\ ReaderAt(r, L)
    BY <1>1, <1>14, ReaderNotWriter DEF ListOK
  <2>2. (MayHit(r)' <=> MayHit(r)) /\ (MayMiss(r)' <=> MayMiss(r))
    BY <1>1 DEF MayHit, MayMiss, history
  <2>3. \A n, j : Ahead(n, j, L) => Ahead(n, j, M)'
    BY <1>3, <1>7 DEF Ahead
  <2>4. \A n, j : Clear(n, j) => Clear(n, j)'
    <3> SUFFICES ASSUME NEW n, NEW j, Clear(n, j) PROVE Clear(n, j)'
      OBVIOUS
    <3>1. PICK S \in SUBSET DOMAIN node : Closed(S) /\ n \in S \cup {0} /\ j \notin KeysOf(S)
      BY DEF Clear
    <3>2. Closed(S)'
      BY <1>3, <3>1 DEF Closed
    <3> QED
      <4>1. S \in SUBSET DOMAIN node' /\ j \notin KeysOf(S)'
        BY <1>3, <1>9, <3>1
      <4>2. Closed(S)' /\ n \in S \cup {0}
        BY <3>1, <3>2
      <4> QED
        BY <4>1, <4>2 DEF Clear
  <2>5. AnswersAt(r, M)'
    <3>1. \A v \in Writers : Working(v)' => Working(v) /\ (Outcome(v)' <=> Outcome(v))
      BY <1>1, <1>4, <1>6, Alone
    <3> QED
      BY <1>1, <1>7, <2>1, <2>2, <3>1 DEF ReaderAt, AnswersAt, history
  <2>6. WalkAt(r, M)'
    BY <2>1, <2>2, <2>3, <2>4 DEF ReaderAt, WalkAt
  <2> QED
    BY <2>5, <2>6 DEF ReaderAt
<1> QED
  BY <1>5, <1>10, <1>12, <1>13, <1>14 DEF ListOK

(* ... and the removed one is bridged: what came before it leads to what came
   after, and a walk that stands on it still goes on from there. *)
LEMMA UnlinkList ==
    ASSUME IInv, ListTypes, NEW L, ListOK(L), NEW w \in Writers, Unlink(w), NEW p, p = cur[w]
    PROVE  ListTypes' /\ ListOK(L \ {p})'
<1> DEFINE k == call[w].key
           M == L \ {p}
           before == node[p].prev
           after == node[p].next
<1>1. /\ UNCHANGED <<tree, replaced, call, cur, found, history>> /\ pc[w] = "unlink"
      /\ pc'[w] = "shape"
      /\ first' = IF before = 0 THEN after ELSE first
      /\ \A t \in Threads : t # w => pc'[t] = pc[t]
  BY ReaderNotWriter DEF Unlink, Goto, IInv, Types, ListTypes
<1>2. Frame(w)
  BY <1>1 DEF Frame, MayHit, MayMiss, history
<1>3. Working(w) /\ Working(w)' /\ (Outcome(w)' <=> Outcome(w)) /\ WriterAt(w, L)
  BY <1>1 DEF Working, Outcome, ListOK, TreeAgrees
<1>4. /\ ~Outcome(w) /\ p \in L /\ node[p].key = k /\ k \in present /\ ~replaced /\ k \in Keys
      /\ L \subseteq DOMAIN node /\ tree = L
  <2>1. ~Outcome(w) /\ p \in L /\ node[p].key = k /\ k \in present /\ ~replaced
    BY <1>1, <1>3 DEF WriterAt
  <2>2. \A n \in L : n \in tree
    BY <1>1, <1>2, Alone
  <2>3. \A n \in tree : n \in L
    BY <1>1, <1>2, <2>1, Alone
  <2>4. k \in Keys
    BY <1>1, <1>2, Alone
  <2> QED
    BY <2>1, <2>2, <2>3, <2>4 DEF ListOK, Chain
<1>5. /\ DOMAIN node \subseteq Nat \ {0} /\ Len(node) \in Nat /\ DOMAIN node = 1..Len(node)
      /\ \A n \in DOMAIN node : Rank(n) \in Int /\ Rank(p) \in Int
      /\ \A m, n \in DOMAIN node : Rank(m) = Rank(n) => m = n
  BY <1>4, NodeFacts, RankFacts
<1>6. /\ before \in L \cup {0} /\ after \in L \cup {0} /\ first \in L
      /\ before = 0 <=> p = first
      /\ before # 0 => node[before].next = p /\ Rank(before) < Rank(p)
      /\ after # 0 => Rank(p) < Rank(after)
  <2>1. /\ before \in L \cup {0}
        /\ before = 0 <=> p = first
        /\ before # 0 => node[before].next = p
    BY <1>4 DEF ListOK, Chain
  <2>2. before # 0 => Rank(before) < Rank(p)
    <3>1. before # 0 => before \in DOMAIN node /\ node[before].next # 0
      <4>1. p # 0
        BY <1>4, <1>5
      <4> HIDE DEF before
      <4> QED
        BY <1>4, <2>1, <4>1
    <3> QED
      BY <2>1, <3>1 DEF ListOK, Chain
  <2>3. after \in L \cup {0}
    BY <1>4 DEF ListOK, Chain, Closed
  <2>4. after # 0 => Rank(p) < Rank(after)
    BY <1>4 DEF ListOK, Chain
  <2>5. first \in L
    BY <1>4, <1>5 DEF ListOK, Chain
  <2> QED
    BY <2>1, <2>2, <2>3, <2>4, <2>5
<1>7. before # p /\ after # p /\ (before # 0 => before # after) /\ p # 0
  BY <1>4, <1>5, <1>6
<1>8. /\ DOMAIN node' = DOMAIN node
      /\ node' \in Seq([key : Keys, next : Nat, prev : Nat]) /\ Len(node') = Len(node)
      /\ \A n \in DOMAIN node :
            /\ node'[n].key = node[n].key
            /\ node'[n].next = IF n = before THEN after ELSE node[n].next
            /\ node'[n].prev = IF n = after THEN before ELSE node[n].prev
  <2> DEFINE Nodes == [key : Keys, next : Nat, prev : Nat]
  <2>1. node' = [n \in DOMAIN node |->
                    CASE n = before -> [node[n] EXCEPT !.next = after]
                      [] n = after  -> [node[n] EXCEPT !.prev = before]
                      [] OTHER      -> node[n]]
    BY DEF Unlink
  <2>2. before \in Nat /\ after \in Nat
    BY <1>4, <1>5, <1>6
  <2>3. ASSUME NEW n \in DOMAIN node
        PROVE  /\ node'[n] \in Nodes
               /\ node'[n].key = node[n].key
               /\ node'[n].next = IF n = before THEN after ELSE node[n].next
               /\ node'[n].prev = IF n = after THEN before ELSE node[n].prev
    <3>1. node[n] \in Nodes /\ n # 0
      BY <1>5, NodeFacts
    <3>2. CASE n = before
      <4>1. node'[n] = [node[n] EXCEPT !.next = after] /\ n # after
        BY <1>7, <2>1, <3>1, <3>2
      <4> QED
        BY <2>2, <3>1, <3>2, <4>1
    <3>3. CASE n # before /\ n = after
      <4>1. node'[n] = [node[n] EXCEPT !.prev = before]
        BY <2>1, <3>3
      <4> QED
        BY <2>2, <3>1, <3>3, <4>1
    <3>4. CASE n # before /\ n # after
      <4>1. node'[n] = node[n]
        BY <2>1, <3>4
      <4> QED
        BY <3>1, <3>4, <4>1
    <3> QED
      BY <3>2, <3>3, <3>4
  <2>4. node' \in [1..Len(node) -> Nodes]
    BY <1>5, <2>1, <2>3
  <2> HIDE DEF Nodes
  <2>5. node' \in Seq(Nodes) /\ Len(node') = Len(node)
    BY <1>5, <2>4, LenProperties
  <2>6. node' \in Seq([key : Keys, next : Nat, prev : Nat])
    BY <2>5 DEF Nodes
  <2> QED
    BY <1>5, <2>3, <2>4, <2>5, <2>6
<1> HIDE DEF before, after
<1>9. ListTypes'
  <2>1. DOMAIN node' = DOMAIN node /\ Len(node') = Len(node)
    BY <1>8
  <2>2. \A t \in Threads : pc'[t] # "idle" => call'[t].key \in Keys
    BY <1>1 DEF ListTypes
  <2>3. \A v \in Writers : pc'[v] # "idle" => call'[v].op \in {"insert", "remove"}
    BY <1>1, ReaderNotWriter DEF ListTypes
  <2> QED
    BY <1>1, <1>8, <2>1, <2>2, <2>3 DEF ListTypes, history
<1>10. \A S \in SUBSET DOMAIN node : KeysOf(S)' = KeysOf(S)
  BY <1>8 DEF KeysOf
<1>11. Chain(M)'
  <2>1. M \subseteq DOMAIN node' /\ first' \in M \cup {0}
    BY <1>1, <1>4, <1>6, <1>7, <1>8
  <2>2. ASSUME NEW m \in M PROVE first' # 0 /\ Rank(first') <= Rank(m)
    <3>1. m \in DOMAIN node /\ Rank(m) \in Int /\ first # 0 /\ Rank(first) <= Rank(m) /\ m # p
      BY <1>4, <1>5, <2>2 DEF ListOK, Chain
    <3>2. CASE before = 0
      <4>1. Rank(p) < Rank(m)
        BY <1>4, <1>5, <1>6, <3>1, <3>2
      <4> QED
        BY <1>1, <1>4, <2>2, <3>2, <4>1 DEF ListOK, Chain, after
    <3> QED
      BY <1>1, <3>1, <3>2
  <2>3. ASSUME NEW n \in DOMAIN node', node'[n].next # 0
        PROVE  node'[n].next \in DOMAIN node' /\ Rank(n) < Rank(node'[n].next)
    <3>1. CASE n = before
      <4>1. node'[n].next = after /\ after \in L
        BY <1>6, <1>8, <2>3, <3>1
      <4>2. Rank(n) < Rank(p) /\ Rank(p) < Rank(after)
        BY <1>5, <1>6, <1>8, <2>3, <3>1, <4>1
      <4>3. Rank(n) \in Int /\ Rank(p) \in Int /\ Rank(after) \in Int
        BY <1>4, <1>5, <1>8, <2>3, <4>1
      <4> QED
        BY <1>4, <1>8, <4>1, <4>2, <4>3
    <3>2. CASE n # before
      BY <1>8, <2>3, <3>2 DEF ListOK, Chain
    <3> QED
      BY <3>1, <3>2
  <2>4. ASSUME NEW n \in DOMAIN node', NEW m \in M, Rank(n) < Rank(m)
        PROVE  node'[n].next # 0 /\ Rank(node'[n].next) <= Rank(m)
    <3>1. m \in L /\ m \in DOMAIN node /\ n \in DOMAIN node /\ m # p
      BY <1>4, <1>8, <2>4
    <3>2. node[n].next # 0 /\ Rank(node[n].next) <= Rank(m)
      BY <2>4, <3>1 DEF ListOK, Chain
    <3>3. CASE n = before
      <4>1. Rank(p) < Rank(m)
        BY <1>4, <1>5, <1>6, <3>1, <3>2, <3>3
      <4>2. node[p].next # 0 /\ Rank(node[p].next) <= Rank(m)
        BY <1>4, <3>1, <4>1 DEF ListOK, Chain
      <4> QED
        BY <1>8, <3>1, <3>3, <4>2 DEF after
    <3>4. CASE n # before
      BY <1>8, <3>1, <3>2, <3>4
    <3> QED
      BY <3>3, <3>4
  <2>5. Closed(M)'
    <3> SUFFICES ASSUME NEW n \in M PROVE node'[n].next \in M \cup {0}
      BY DEF Closed
    <3>1. n \in L /\ n \in DOMAIN node /\ n # p /\ node[n].next \in L \cup {0}
      BY <1>4 DEF ListOK, Chain, Closed
    <3>2. CASE n = before
      BY <1>6, <1>7, <1>8, <3>1, <3>2
    <3>3. CASE n # before
      <4>1. node[n].next # p  \* only one node of the list leads to p
        <5> SUFFICES ASSUME node[n].next = p PROVE FALSE
          OBVIOUS
        <5>1. Rank(n) < Rank(p) /\ Rank(n) \in Int
          BY <1>5, <1>7, <3>1 DEF ListOK, Chain
        <5>2. before # 0
          <6>1. Rank(first) <= Rank(n)
            BY <3>1 DEF ListOK, Chain
          <6> QED
            BY <1>4, <1>5, <1>6, <5>1, <6>1
        <5>3. before \in L /\ before \in DOMAIN node /\ Rank(before) \in Int
              /\ Rank(before) < Rank(p) /\ node[before].next = p
          BY <1>4, <1>5, <1>6, <5>2
        <5>4. CASE Rank(n) < Rank(before)
          <6>1. Rank(node[n].next) <= Rank(before)
            BY <3>1, <5>3, <5>4 DEF ListOK, Chain
          <6> QED
            BY <1>5, <3>1, <5>3, <6>1
        <5>5. CASE Rank(before) < Rank(n)
          <6>1. Rank(node[before].next) <= Rank(n)
            BY <3>1, <5>3, <5>5 DEF ListOK, Chain
          <6> QED
            BY <1>5, <3>1, <5>1, <5>3, <6>1
        <5>6. CASE Rank(n) = Rank(before)
          BY <1>5, <3>1, <3>3, <5>3, <5>6
        <5> QED
          BY <5>1, <5>3, <5>4, <5>5, <5>6
      <4> QED
        BY <1>8, <3>1, <3>3, <4>1
    <3> QED
      BY <3>2, <3>3
  <2>6. ASSUME NEW n \in M
        PROVE  /\ node'[n].prev = 0 <=> n = first'
               /\ node'[n].prev # 0 => node'[n].prev \in M /\ node'[node'[n].prev].next = n
    <3>1. /\ n \in L /\ n \in DOMAIN node /\ n # p /\ n # 0
          /\ node[n].prev = 0 <=> n = first
          /\ node[n].prev # 0 => node[n].prev \in L /\ node[node[n].prev].next = n
      BY <1>4, <1>5 DEF ListOK, Chain
    <3>2. CASE n = after
      <4>1. node'[n].prev = before
        BY <1>8, <3>1, <3>2
      <4>2. before = 0 => first' = n
        BY <1>1, <3>2
      <4>3. ASSUME before # 0
            PROVE  before \in M /\ node'[before].next = n /\ n # first'
        <5>1. before \in L /\ before \in DOMAIN node /\ before # p
          BY <1>4, <1>6, <1>7, <4>3
        <5>2. node'[before].next = n
          BY <1>8, <3>2, <5>1
        <5>3. n # first
          <6>1. Rank(first) <= Rank(p) /\ Rank(p) < Rank(n)
            BY <1>4, <1>6, <3>1, <3>2 DEF ListOK, Chain
          <6> QED
            BY <1>4, <1>5, <1>6, <3>1, <6>1
        <5> QED
          BY <1>1, <4>3, <5>1, <5>2, <5>3
      <4> QED
        BY <4>1, <4>2, <4>3
    <3>3. CASE n # after
      <4>1. node'[n].prev = node[n].prev
        BY <1>8, <3>1, <3>3
      <4>2. node[n].prev # p
        BY <1>7, <3>1, <3>3 DEF after
      <4>3. node[n].prev # 0 => node[n].prev # before
        BY <1>6, <3>1
      <4>4. node[n].prev # 0 => node[n].prev \in DOMAIN node /\ node'[node[n].prev].next = n
        BY <1>4, <1>8, <3>1, <4>3
      <4>5. n = first' <=> n = first
        BY <1>1, <1>6, <3>1, <3>3
      <4> QED
        BY <3>1, <4>1, <4>2, <4>4, <4>5
    <3> QED
      BY <3>2, <3>3
  <2>7. \A m, n \in M : node'[m].key = node'[n].key => m = n
    BY <1>4, <1>8 DEF ListOK, Chain
  <2> QED
    BY <2>1, <2>2, <2>3, <2>4, <2>5, <2>6, <2>7 DEF Chain
<1>12. k \notin KeysOf(M) /\ \A j : j # k => (j \in KeysOf(M) <=> j \in KeysOf(L))
  <2>1. \A n \in M : node[n].key # k
    BY <1>4 DEF ListOK, Chain
  <2> QED
    BY <1>4, <2>1 DEF KeysOf
<1>13. KeysOf(M)' = KeysOf(M)
  <2>1. M \subseteq DOMAIN node
    BY <1>4
  <2> QED
    BY <1>10, <2>1
<1>14. WriterAt(w, M)'
  BY <1>1, <1>3, <1>4, <1>8, <1>12, <1>13 DEF WriterAt, LatePcs, history
<1>15. TreeAgrees(M)'
  BY <1>1, <1>2, <1>3, <1>4, <1>14, Alone DEF TreeAgrees
<1>16. PresentAgrees(M)'
  <2>1. \A j \in Keys : j = k \/ (j \in present <=> j \in KeysOf(L))
    BY <1>1, <1>2, Alone
  <2> QED
    BY <1>1, <1>3, <1>12, <1>13, <2>1 DEF PresentAgrees, history
<1>17. ASSUME NEW r \in Readers, pc'[r] # "idle" PROVE ReaderAt(r, M)'
  <2>1. /\ pc'[r] = pc[r] /\ cur'[r] = cur[r] /\ call'[r] = call[r] /\ found'[r] = found[r]
        /\ ReaderAt(r, L)
    BY <1>1, <1>17, ReaderNotWriter DEF ListOK
  <2>2. (MayHit(r)' <=> MayHit(r)) /\ (MayMiss(r)' <=> MayMiss(r))
    BY <1>1 DEF MayHit, MayMiss, history
  <2>3. \A n, j : j # k /\ Ahead(n, j, L) => Ahead(n, j, M)'
    BY <1>4, <1>8 DEF Ahead
  <2>4. \A n, j : Clear(n, j) => Clear(n, j)'
    <3> SUFFICES ASSUME NEW n, NEW j, Clear(n, j) PROVE Clear(n, j)'
      OBVIOUS
    <3>1. PICK S \in SUBSET DOMAIN node : Closed(S) /\ n \in S \cup {0} /\ j \notin KeysOf(S)
      BY DEF Clear
    <3>2. Closed(S)'
      <4> SUFFICES ASSUME NEW i \in S PROVE node'[i].next \in S \cup {0}
        BY DEF Closed
      <4>1. node[i].next \in S \cup {0}
        BY <3>1 DEF Closed
      <4>2. CASE i = before
        <5>1. p \in S
          BY <1>5, <1>6, <1>7, <4>1, <4>2
        <5> QED
          BY <1>8, <3>1, <4>2, <5>1 DEF Closed, after
      <4>3. CASE i # before
        BY <1>8, <4>1, <4>3
      <4> QED
        BY <4>2, <4>3
    <3> QED
      <4>1. S \in SUBSET DOMAIN node' /\ j \notin KeysOf(S)'
        BY <1>8, <1>10, <3>1
      <4>2. Closed(S)' /\ n \in S \cup {0}
        BY <3>1, <3>2
      <4> QED
        BY <4>1, <4>2 DEF Clear
  <2>5. call[r].key = k => MayHit(r) /\ MayMiss(r)
    BY <1>3, <1>4, <2>1 DEF ReaderAt, AnswersAt
  <2>6. AnswersAt(r, M)'
    <3>1. \A v \in Writers : Working(v)' => Working(v) /\ (Outcome(v)' <=> Outcome(v))
      BY <1>1, <1>2, <1>3, Alone
    <3>2. \A n \in tree' \ M : n = p /\ node'[n].key = k
      BY <1>1, <1>4, <1>8
    <3> QED
      BY <1>1, <2>1, <2>2, <2>5, <3>1, <3>2 DEF ReaderAt, AnswersAt, history
  <2>7. WalkAt(r, M)'
    BY <2>1, <2>2, <2>3, <2>4, <2>5 DEF ReaderAt, WalkAt
  <2> QED
    BY <2>6, <2>7 DEF ReaderAt
<1> QED
  BY <1>9, <1>11, <1>15, <1>16, <1>17 DEF ListOK

-----------------------------------------------------------------------------
LEMMA InitFInv == Init => ListTypes /\ ListOK(DOMAIN FirstKeys)
<1> SUFFICES ASSUME Init PROVE ListTypes /\ ListOK(DOMAIN FirstKeys)
  OBVIOUS
<1> DEFINE N == Len(FirstKeys)
           L == DOMAIN FirstKeys
<1>1. N \in Nat /\ L = 1..N /\ \A i \in 1..N : FirstKeys[i] \in Keys
  BY KeysAssumption
<1>2. /\ node = [i \in 1..N |-> [key |-> FirstKeys[i], prev |-> i - 1,
                                 next |-> IF i = N THEN 0 ELSE i + 1]]
      /\ first = (IF FirstKeys = <<>> THEN 0 ELSE 1) /\ tree = 1..N /\ replaced = FALSE
      /\ pc = [t \in Threads |-> "idle"] /\ call = [t \in Threads |-> [op |-> "none"]]
      /\ cur = [t \in Threads |-> 0] /\ found = [r \in Readers |-> FALSE]
      /\ allowed = [r \in Readers |-> {}]
      /\ present = {FirstKeys[i] : i \in 1..N}
  BY <1>1 DEF Init
<1>3. first = IF N = 0 THEN 0 ELSE 1
  <2>1. FirstKeys = <<>> <=> N = 0
    BY <1>1, KeysAssumption, EmptySeq
  <2> QED
    BY <1>2, <2>1
<1> HIDE DEF N
<1>4. /\ node \in Seq([key : Keys, next : Nat, prev : Nat]) /\ Len(node) = N /\ DOMAIN node = 1..N
      /\ \A i \in 1..N : /\ node[i].key = FirstKeys[i] /\ node[i].prev = i - 1
                         /\ node[i].next = IF i = N THEN 0 ELSE i + 1
  <2> DEFINE Nodes == [key : Keys, next : Nat, prev : Nat]
  <2>1. ASSUME NEW i \in 1..N
        PROVE  /\ node[i] \in Nodes
               /\ node[i].key = FirstKeys[i] /\ node[i].prev = i - 1
               /\ node[i].next = IF i = N THEN 0 ELSE i + 1
    BY <1>1, <1>2
  <2>2. node \in [1..N -> Nodes]
    BY <1>2, <2>1
  <2> HIDE DEF Nodes
  <2>3. node \in Seq(Nodes) /\ Len(node) = N
    BY <1>1, <2>2, LenProperties
  <2>4. node \in Seq([key : Keys, next : Nat, prev : Nat])
    BY <2>3 DEF Nodes
  <2> QED
    BY <2>1, <2>2, <2>3, <2>4
<1>5. \A v \in Writers : ~Working(v) /\ pc[v] = "idle"
  BY <1>2, ReaderNotWriter DEF Working
<1>6. \A i \in 1..N : Rank(i) = i
  BY <1>1 DEF Rank, N
<1>7. ListTypes
  <2>1. Len(FirstKeys) <= Len(node)
    <3>1. Len(node) = Len(FirstKeys) /\ Len(FirstKeys) \in Nat
      BY <1>1, <1>4 DEF N
    <3> QED
      BY <3>1
  <2> QED
    BY <1>2, <1>4, <2>1, ReaderNotWriter DEF ListTypes
<1>8. Chain(L)
  <2>1. L \subseteq DOMAIN node /\ first \in L \cup {0}
    BY <1>1, <1>3, <1>4
  <2>2. \A m \in L : first # 0 /\ Rank(first) <= Rank(m)
    BY <1>1, <1>3, <1>6
  <2>a. \A n \in 1..N : /\ n \in Nat /\ 1 <= n /\ n <= N /\ Rank(n) = n
                         /\ node[n].next = (IF n = N THEN 0 ELSE n + 1) /\ node[n].prev = n - 1
    BY <1>1, <1>4, <1>6
  <2>b. \A n \in Nat : 1 <= n /\ n <= N => n \in 1..N
    BY <1>1
  <2>3. ASSUME NEW n \in 1..N, node[n].next # 0
        PROVE  node[n].next \in 1..N /\ Rank(n) < Rank(node[n].next)
    <3>1. node[n].next = n + 1 /\ n + 1 \in 1..N
      BY <1>1, <2>3, <2>a
    <3> QED
      BY <2>a, <3>1
  <2>4. ASSUME NEW n \in 1..N, NEW m \in 1..N, Rank(n) < Rank(m)
        PROVE  node[n].next # 0 /\ Rank(node[n].next) <= Rank(m)
    <3>1. n < m /\ m <= N
      BY <2>4, <2>a
    <3>2. node[n].next = n + 1 /\ n + 1 \in 1..N /\ n + 1 <= m
      BY <1>1, <2>a, <3>1
    <3> QED
      BY <2>a, <3>2
  <2>5. Closed(1..N)
    BY <2>3 DEF Closed
  <2>6. ASSUME NEW n \in 1..N
        PROVE  /\ node[n].prev = 0 <=> n = first
               /\ node[n].prev # 0 => node[n].prev \in 1..N /\ node[node[n].prev].next = n
    <3>1. n \in Nat /\ 1 <= n /\ n <= N /\ node[n].prev = n - 1 /\ first = 1
      BY <1>1, <1>3, <2>a
    <3>2. ASSUME n # 1 PROVE n - 1 \in 1..N /\ node[n - 1].next = n
      <4>1. n - 1 \in 1..N /\ n - 1 # N
        BY <1>1, <3>1, <3>2
      <4> QED
        BY <2>a, <3>1, <4>1
    <3> QED
      BY <3>1, <3>2
  <2>7. \A m, n \in L : node[m].key = node[n].key => m = n
    BY <1>1, <1>4, KeysAssumption
  <2> QED
    BY <1>1, <1>4, <2>1, <2>2, <2>3, <2>4, <2>5, <2>6, <2>7 DEF Chain
<1>9. TreeAgrees(L) /\ PresentAgrees(L)
  <2>1. tree = L /\ present = KeysOf(L)
    BY <1>1, <1>2, <1>4 DEF KeysOf
  <2> QED
    BY <1>5, <2>1 DEF TreeAgrees, PresentAgrees
<1>10. \A r \in Readers : pc[r] = "idle"
  BY <1>2, ReaderNotWriter
<1> QED
  BY <1>7, <1>8, <1>9, <1>10 DEF ListOK

(* Every step leads to such a list. *)
LEMMA NextList ==
    ASSUME IInv, ListTypes, NEW L, ListOK(L), [Next]_vars
    PROVE  ListTypes' /\ \E M : ListOK(M)'
<1>1. CASE UNCHANGED vars
  <2>1. ListTypes'
    BY <1>1 DEF vars, nodes, history, ListTypes
  <2>2. \A S : KeysOf(S)' = KeysOf(S) /\ (Closed(S)' <=> Closed(S))
    BY <1>1 DEF vars, nodes, KeysOf, Closed
  <2>3. \A v \in Writers : (Working(v)' <=> Working(v)) /\ (Outcome(v)' <=> Outcome(v))
    BY <1>1 DEF vars, Working, Outcome
  <2>4. Chain(L)'
    BY <1>1, <2>2 DEF vars, nodes, ListOK, Chain
  <2>5. TreeAgrees(L)' /\ PresentAgrees(L)'
    <3>1. \A v \in Writers : WriterAt(v, L) => WriterAt(v, L)'
      BY <1>1, <2>2, <2>3 DEF vars, nodes, history, WriterAt
    <3> QED
      BY <1>1, <2>2, <2>3, <3>1 DEF vars, nodes, history, ListOK, TreeAgrees, PresentAgrees
  <2>6. ASSUME NEW r \in Readers, pc'[r] # "idle" PROVE ReaderAt(r, L)'
    <3>1. ReaderAt(r, L)
      BY <1>1, <2>6 DEF vars, ListOK
    <3>2. (MayHit(r)' <=> MayHit(r)) /\ (MayMiss(r)' <=> MayMiss(r))
      BY <1>1 DEF vars, history, MayHit, MayMiss
    <3>3. \A n, j : (Ahead(n, j, L)' <=> Ahead(n, j, L)) /\ (Clear(n, j)' <=> Clear(n, j))
      BY <1>1, <2>2 DEF vars, nodes, Ahead, Clear
    <3> QED
      BY <1>1, <2>3, <3>1, <3>2, <3>3 DEF vars, nodes, history, ReaderAt, AnswersAt, WalkAt
  <2> QED
    BY <2>1, <2>4, <2>5, <2>6 DEF ListOK
<1>2. ASSUME NEW r \in Readers, Find(r) \/ \E k \in Keys : FindBegin(r, k)
      PROVE  ListTypes' /\ ListOK(L)'
  BY <1>2, FindList
<1>3. ASSUME NEW w \in Writers, \E o \in {"insert", "remove"}, k \in Keys : UpdateBegin(w, o, k)
      PROVE  ListTypes' /\ ListOK(L)'
  BY <1>3, UpdateBeginList
<1>4. ASSUME NEW w \in Writers, InsertFirst(w) PROVE ListTypes' /\ \E M : ListOK(M)'
  <2>1. PICK x : x = Len(node) + 1
    OBVIOUS
  <2> QED
    BY <1>4, <2>1, InsertFirstList
<1>5. ASSUME NEW w \in Writers, Unlink(w) PROVE ListTypes' /\ \E M : ListOK(M)'
  <2>1. PICK p : p = cur[w]
    OBVIOUS
  <2> QED
    BY <1>5, <2>1, UnlinkList
<1>6. ASSUME NEW w \in Writers,
             \/ Update(w) /\ ~InsertFirst(w) /\ ~Unlink(w)
             \/ TakeMutex(w) \/ ParkSpurious(w)
      PROVE  ListTypes' /\ ListOK(L)'
  BY <1>6, TakeMutexList, LockList, TreeList, ReleaseList DEF Update
<1> QED
  BY <1>1, <1>2, <1>3, <1>4, <1>5, <1>6 DEF Next

(* There is a set of nodes that is the list, and it is in order. *)
FInv == IInv /\ ListTypes /\ \E L \in SUBSET DOMAIN node : ListOK(L)

(* The bin's list is in order and complete in every reachable state. *)
THEOREM ListInvariance == Spec => []FInv
<1>1. Init => FInv
  <2> SUFFICES ASSUME Init PROVE FInv
    OBVIOUS
  <2>1. ListTypes /\ ListOK(DOMAIN FirstKeys)
    BY InitFInv
  <2> QED
    BY <2>1, InitIInv DEF FInv, ListOK, Chain
<1>2. FInv /\ [Next]_vars => FInv'
  <2> SUFFICES ASSUME FInv, [Next]_vars PROVE FInv'
    OBVIOUS
  <2>1. PICK L : ListOK(L)
    BY DEF FInv
  <2>2. ListTypes' /\ \E M : ListOK(M)'
    BY <2>1, NextList DEF FInv
  <2>3. PICK M : ListOK(M)'
    BY <2>2
  <2>4. M \in SUBSET DOMAIN node'
    BY <2>3 DEF ListOK, Chain
  <2> QED
    BY <2>2, <2>3, <2>4, NextIInv DEF FInv
<1> QED
  BY <1>1, <1>2, PTL DEF Spec

(* A search answers what the bin held at some moment of the call, for any
   number of searches and updates and any keys, on either of its ways. *)
THEOREM FindRegularCorrect == Spec => []FindRegular
<1>1. FInv => FindRegular
  <2> SUFFICES ASSUME FInv, NEW r \in Readers, pc[r] = "findDone" PROVE found[r] \in allowed[r]
    BY DEF FindRegular
  <2>1. PICK L : ListOK(L)
    BY DEF FInv
  <2>2. IF found[r] THEN MayHit(r) ELSE MayMiss(r)
    BY <2>1 DEF ListOK, ReaderAt, WalkAt
  <2>3. found[r] \in BOOLEAN
    BY DEF FInv, ListTypes
  <2>4. CASE found[r]
    <3>1. found[r] = TRUE
      BY <2>3, <2>4
    <3> QED
      BY Zenon, <2>2, <2>4, <3>1 DEF MayHit
  <2>5. CASE ~found[r]
    <3>1. found[r] = FALSE
      BY <2>3, <2>5
    <3> QED
      BY Zenon, <2>2, <2>5, <3>1 DEF MayMiss
  <2> QED
    BY <2>4, <2>5
<1> QED
  BY <1>1, ListInvariance, PTL

-----------------------------------------------------------------------------
(* A set of numbers has a least one. *)
LEMMA LeastNat ==
    ASSUME NEW T \in SUBSET Nat, T # {}
    PROVE  \E x \in T : \A y \in T : x <= y
<1> DEFINE R == OpToRel(<, Nat)
<1>1. IsWellFoundedOn(R, Nat)
  BY NatLessThanWellFounded
<1>2. PICK x \in T : \A y \in T : ~ (<<y, x>> \in R)
  <2> HIDE DEF R
  <2> QED
    BY <1>1, WFMin
<1>3. \A y \in T : <<y, x>> \in Nat \X Nat /\ ~(y < x)
  BY <1>2 DEF OpToRel
<1>4. ASSUME NEW y \in T PROVE x <= y
  <2>1. x \in Nat /\ y \in Nat /\ ~(y < x)
    BY <1>3
  <2> HIDE DEF R
  <2> QED
    BY <2>1
<1> QED
  BY <1>4

(* The nodes that a walk from n comes to *)
WalkFrom(f) ==
    f = [n \in 0..Len(node) |-> IF n = 0 THEN {} ELSE {n} \cup f[node[n].next]]

LEMMA WalkExists ==
    ASSUME ListTypes, NEW L, Chain(L)
    PROVE  \E f : WalkFrom(f)
<1> DEFINE Reach(n) == {m \in DOMAIN node :
                           \A S \in SUBSET DOMAIN node : Closed(S) /\ n \in S => m \in S}
           f == [n \in 0..Len(node) |-> IF n = 0 THEN {} ELSE Reach(n)]
<1>1. /\ DOMAIN node = 1..Len(node) /\ Len(node) \in Nat /\ 0 \notin DOMAIN node
      /\ \A n \in DOMAIN node : node[n].next \in DOMAIN node \cup {0}
  BY NodeFacts DEF Chain
<1>2. ASSUME NEW n \in DOMAIN node PROVE Reach(n) = {n} \cup f[node[n].next]
  <2> DEFINE after == node[n].next
             T == {n} \cup f[after]
  <2>0. after \in 0..Len(node) /\ n # 0
    BY <1>1
  <2>a. f[after] = IF after = 0 THEN {} ELSE Reach(after)
    BY <2>0
  <2>1. T \subseteq Reach(n)
    <3>1. n \in Reach(n)
      OBVIOUS
    <3>2. ASSUME after # 0, NEW m \in Reach(after) PROVE m \in Reach(n)
      <4>1. ASSUME NEW S \in SUBSET DOMAIN node, Closed(S), n \in S PROVE m \in S
        BY <3>2, <4>1 DEF Closed
      <4> QED
        BY <4>1
    <3> HIDE DEF Reach, f
    <3> QED
      BY <2>a, <3>1, <3>2
  <2>2. Closed(T) /\ T \subseteq DOMAIN node
    <3>1. ASSUME after # 0, NEW i \in Reach(after)
          PROVE  node[i].next \in Reach(after) \cup {0}
      <4>1. ASSUME NEW S \in SUBSET DOMAIN node, Closed(S), after \in S, node[i].next # 0
            PROVE  node[i].next \in S
        BY <3>1, <4>1 DEF Closed
      <4>2. node[i].next \in DOMAIN node \cup {0}
        BY <1>1
      <4> QED
        BY <4>1, <4>2
    <3>2. after # 0 => after \in Reach(after)
      BY <1>1
    <3>3. after # 0 => Reach(after) \subseteq DOMAIN node
      OBVIOUS
    <3> HIDE DEF Reach, f
    <3> QED
      BY <1>1, <2>a, <3>1, <3>2, <3>3 DEF Closed
  <2>3. Reach(n) \subseteq T
    <3> HIDE DEF f, after
    <3> QED
      BY <2>2
  <2> QED
    BY <2>1, <2>3
<1>3. f = [n \in 0..Len(node) |-> IF n = 0 THEN {} ELSE {n} \cup f[node[n].next]]
  <2>1. \A n \in 0..Len(node) : n # 0 => n \in DOMAIN node
    BY <1>1
  <2>2. \A n \in 0..Len(node) : f[n] = IF n = 0 THEN {} ELSE Reach(n)
    OBVIOUS
  <2>3. f = [n \in 0..Len(node) |-> f[n]]
    OBVIOUS
  <2> HIDE DEF Reach, f
  <2>4. \A n \in 0..Len(node) : f[n] = IF n = 0 THEN {} ELSE {n} \cup f[node[n].next]
    BY <1>2, <2>1, <2>2
  <2> QED
    BY <2>3, <2>4
<1> HIDE DEF f
<1> QED
  BY <1>3 DEF WalkFrom

(* It comes to the whole list from the first node on. *)
LEMMA WalkIsList ==
    ASSUME ListTypes, NEW L, Chain(L), NEW f, WalkFrom(f)
    PROVE  f[first] = L
<1> DEFINE From(n) == {m \in L : Rank(n) <= Rank(m)}
           N == Len(FirstKeys)
           Bad == {n \in L : f[n] # From(n)}
           far == {N - Rank(n) : n \in Bad}
<1>1. /\ DOMAIN node = 1..Len(node) /\ Len(node) \in Nat /\ L \subseteq DOMAIN node
      /\ \A n \in DOMAIN node : n \in 0..Len(node) /\ n # 0 /\ n \in Nat /\ Rank(n) \in Int
      /\ \A m, n \in DOMAIN node : Rank(m) = Rank(n) => m = n
  BY NodeFacts, RankFacts DEF Chain
<1>2. f[0] = {} /\ \A n \in DOMAIN node : f[n] = {n} \cup f[node[n].next]
  BY <1>1 DEF WalkFrom
<1>3. \A n \in DOMAIN node : N - Rank(n) \in Nat
  BY <1>1, RankFacts DEF Rank
<1>4. Bad = {}
  <2> SUFFICES ASSUME Bad # {} PROVE FALSE
    OBVIOUS
  <2>1. far \in SUBSET Nat /\ far # {}
    BY <1>1, <1>3
  <2>2. PICK d \in far : \A e \in far : d <= e
    <3> HIDE DEF far
    <3> QED
      BY <2>1, LeastNat
  <2>3. PICK n \in Bad : d = N - Rank(n)
    BY <2>2
  <2>4. n \in L /\ n \in DOMAIN node /\ f[n] # From(n)
    BY <1>1, <2>3
  <2>5. \A m \in L : Rank(n) < Rank(m) => f[m] = From(m)
    <3> SUFFICES ASSUME NEW m \in L, Rank(n) < Rank(m), m \in Bad PROVE FALSE
      OBVIOUS
    <3>1. N - Rank(n) <= N - Rank(m)
      <4>1. N - Rank(m) \in far
        OBVIOUS
      <4> HIDE DEF far
      <4> QED
        BY <2>2, <2>3, <4>1
    <3>2. Rank(n) \in Int /\ Rank(m) \in Int /\ N \in Int
      BY <1>1, <2>4, RankFacts
    <3> QED
      BY <3>1, <3>2
  <2>6. node[n].next \in L \cup {0}
    BY <2>4 DEF Chain, Closed
  <2>7. CASE node[n].next = 0
    <3>1. \A m \in L : ~(Rank(n) < Rank(m))
      BY <2>4, <2>7 DEF Chain
    <3>2. ASSUME NEW m \in L PROVE Rank(n) <= Rank(m) <=> m = n
      <4>1. Rank(n) \in Int /\ Rank(m) \in Int /\ ~(Rank(n) < Rank(m))
        BY <1>1, <2>4, <3>1
      <4>2. Rank(m) = Rank(n) => m = n
        BY <1>1, <2>4
      <4> QED
        BY <4>1, <4>2
    <3>3. From(n) = {n}
      BY <2>4, <3>2
    <3> QED
      BY <1>2, <2>4, <2>7, <3>3
  <2>8. CASE node[n].next # 0
    <3> DEFINE after == node[n].next
    <3>1. after \in L /\ Rank(n) < Rank(after)
      BY <2>4, <2>6, <2>8 DEF Chain
    <3>2. \A m \in L : Rank(n) < Rank(m) => Rank(after) <= Rank(m)
      BY <2>4 DEF Chain
    <3>3. f[after] = From(after)
      BY <2>5, <3>1
    <3> HIDE DEF after
    <3>4. From(n) = {n} \cup From(after)
      <4>1. ASSUME NEW m \in L PROVE Rank(n) <= Rank(m) <=> m = n \/ Rank(after) <= Rank(m)
        <5>1. Rank(n) \in Int /\ Rank(m) \in Int /\ Rank(after) \in Int
          BY <1>1, <2>4, <3>1
        <5>2. Rank(m) = Rank(n) => m = n
          BY <1>1, <2>4
        <5> QED
          BY <3>1, <3>2, <5>1, <5>2
      <4> QED
        BY <2>4, <4>1
    <3> QED
      BY <1>2, <2>4, <3>3, <3>4 DEF after
  <2> QED
    BY <2>7, <2>8
<1>5. CASE first = 0
  BY <1>2, <1>5 DEF Chain
<1>6. CASE first # 0
  <2>1. first \in L /\ \A m \in L : Rank(first) <= Rank(m)
    BY <1>6 DEF Chain
  <2>2. f[first] = From(first)
    BY <1>4, <2>1
  <2> QED
    BY <2>1, <2>2
<1> QED
  BY <1>5, <1>6

(* Between updates the list and the tree hold the same nodes. *)
THEOREM ListIsTreeCorrect == Spec => []ListIsTree
<1>1. FInv => ListIsTree
  <2> SUFFICES ASSUME FInv PROVE ListIsTree
    OBVIOUS
  <2> DEFINE from == CHOOSE f : f = [n \in 0..Len(node) |->
                                        IF n = 0 THEN {} ELSE {n} \cup f[node[n].next]]
  <2>1. PICK L : ListOK(L)
    BY DEF FInv
  <2>2. WalkFrom(from)
    <3>1. \E f : f = [n \in 0..Len(node) |-> IF n = 0 THEN {} ELSE {n} \cup f[node[n].next]]
      BY <2>1, WalkExists DEF FInv, ListOK, WalkFrom
    <3> QED
      BY <3>1 DEF WalkFrom
  <2> HIDE DEF from
  <2>3. from[first] = L
    BY <2>1, <2>2, WalkIsList DEF FInv, ListOK
  <2>4. ASSUME mutex = Nobody, ~replaced PROVE tree = L
    <3>1. \A v \in Writers : ~Working(v)
      BY <2>4, ReaderNotWriter DEF FInv, IInv, MutexHeld, Working
    <3> QED
      BY <2>1, <2>4, <3>1, AtRest
  <2>5. mutex = Nobody /\ ~replaced => from[first] = tree
    BY <2>3, <2>4
  <2> QED
    BY <2>5 DEF ListIsTree, from
<1> QED
  BY <1>1, ListInvariance, PTL
=============================================================================
