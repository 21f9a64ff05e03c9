----------------------------- MODULE ResizeCtl -----------------------------
(***************************************************************************)
(* How the threads of chashmap's HashMap agree on its table: the first     *)
(* allocation (init_table, try_presize) and the cooperative doubling       *)
(* (add_count, help_transfer, try_presize, transfer).  All of it runs on   *)
(* five atomics (table, next_table, transfer_index, size_ctl, count) with  *)
(* no lock; one action is one atomic load, store or compare-and-swap.      *)
(*                                                                         *)
(* A table is named by its length, 0 is the null pointer: every table the  *)
(* map allocates after the first is twice as long as the one it replaces.  *)
(* What the bins hold is the business of CHashMap, which extends this      *)
(* module; here a bin is moved to the next table or it is not.             *)
(***************************************************************************)
EXTENDS Integers

CONSTANTS
    Threads,
    Caps,        \* the lengths a table may have: the powers of two up to MaxCap
    InitCap,     \* DEFAULT_CAPACITY
    MaxCap,      \* MAXIMUM_CAPACITY
    Stride,      \* bins claimed at a time by a transferring thread
    MaxResizers, \* MAX_RESIZERS
    CountRange   \* bound: the element counts explored

ASSUME CapsAssumption ==
    /\ Caps \subseteq Nat \ {0}
    /\ {InitCap, MaxCap} \subseteq Caps
    /\ \A n \in Caps : n <= MaxCap /\ (n < MaxCap => 2 * n \in Caps)
    /\ \A m, n \in Caps : m < n => 2 * m <= n
ASSUME StrideAssumption == Stride \in Nat \ {0}
ASSUME ResizersAssumption == MaxResizers \in Nat \ {0, 1}
ASSUME CountAssumption == CountRange \subseteq Int /\ 0 \in CountRange

Null == 0

VARIABLES
    table,          \* the current table
    nextTable,      \* the table being filled, Null outside a resize
    transferIndex,  \* bins below it are still unclaimed
    sizeCtl,        \* >= 0: the count that triggers the next resize (0 before
                    \* the first table); -1: first table being allocated;
                    \* below: stamp of the resize + 1 + threads in it
    count,          \* the element counter
    moved,          \* moved[n]: the bins of table n that hold BinEntry::Moved
    fwd,            \* fwd[n]: Table::next_table of table n
    pc,             \* where each thread is; "idle" outside these routines
    rt,             \* the routine that called transfer
    tab,            \* local `table`; what the routine returned, once idle
    nt,             \* local `next_table`
    ld,             \* the value loaded that the coming CAS expects
    idx,            \* transfer's `i`
    bound,          \* transfer's `bound`
    fin,            \* transfer's `finishing`
    arg,            \* add_count's `count`, try_presize's `requested_capacity`
    lateJoin        \* history: whether a thread has joined a resize with a
                    \* size_ctl that is no stamp of the table it will move

shared == <<table, nextTable, transferIndex, sizeCtl, count, moved, fwd>>
loop == <<idx, bound, fin>>
locals == <<rt, tab, nt, ld, idx, bound, fin, arg>>
resizeVars == <<shared, pc, locals>>
watchedVars == <<resizeVars, lateJoin>>

-----------------------------------------------------------------------------
(* Sizes and stamps *)

(* load_factor!: three quarters of a table *)
LoadFactor(n) == n - (n \div 4)

(* resize_stamp(n) << RESIZE_STAMP_SHIFT: a block of MaxResizers + 1
   negative numbers for each table length, below -1, no two blocks meeting. *)
ResizeStamp(n) == -(n * (MaxResizers + 1)) - 2

(* the capacity try_presize asks for to hold `size` elements: half as much
   again, rounded up to a power of two *)
RequestedCapacity(size) ==
    IF size >= MaxCap \div 2
    THEN MaxCap
    ELSE CHOOSE c \in Caps : /\ c >= size + size \div 2 + 1
                             /\ \A d \in Caps : d >= size + size \div 2 + 1 => c <= d

-----------------------------------------------------------------------------
Goto(t, l) == pc' = [pc EXCEPT ![t] = l]

Set(f, t, v) == [f EXCEPT ![t] = v]

(* Leave a routine: its locals die, its result stays in tab. *)
Return(t, result) ==
    /\ Goto(t, "idle")
    /\ tab' = Set(tab, t, result)
    /\ rt' = Set(rt, t, "none")
    /\ nt' = Set(nt, t, Null)
    /\ ld' = Set(ld, t, 0)
    /\ idx' = Set(idx, t, 0)
    /\ bound' = Set(bound, t, 0)
    /\ fin' = Set(fin, t, FALSE)
    /\ arg' = Set(arg, t, 0)

(* Enter the loop of transfer, with the table to fill or with Null. *)
EnterTransfer(t, next) ==
    /\ Goto(t, IF next = Null THEN "TransferAllocate" ELSE "TransferAdvance")
    /\ ld' = Set(ld, t, 0)
    /\ UNCHANGED <<rt, tab, nt, idx, bound, fin, arg>>

(* Leave transfer for its caller. *)
LeaveTransfer(t) ==
    IF rt[t] = "help" THEN Return(t, nt[t])
    ELSE /\ Goto(t, IF rt[t] = "add" THEN "AddReload" ELSE "PresizeLoad")
         /\ tab' = Set(tab, t, Null)
         /\ nt' = Set(nt, t, Null)
         /\ ld' = Set(ld, t, 0)
         /\ idx' = Set(idx, t, 0)
         /\ bound' = Set(bound, t, 0)
         /\ fin' = Set(fin, t, FALSE)
         /\ UNCHANGED <<rt, arg>>

-----------------------------------------------------------------------------
(* What the map's operations do before they call a routine *)

LoadTable(t) ==
    /\ pc[t] = "idle"
    /\ tab' = Set(tab, t, table)
    /\ UNCHANGED <<shared, pc, rt, nt, ld, loop, arg>>

CallInitTable(t) ==
    /\ pc[t] = "idle" /\ tab[t] = Null
    /\ Goto(t, "InitLoadTable")
    /\ UNCHANGED <<shared, locals>>

(* help_transfer is called by a thread that met a Moved entry in tab *)
CallHelpTransfer(t) ==
    /\ pc[t] = "idle" /\ tab[t] # Null /\ moved[tab[t]] # {}
    /\ Goto(t, "HelpForward")
    /\ rt' = Set(rt, t, "help")
    /\ UNCHANGED <<shared, tab, nt, ld, loop, arg>>

CallTryPresize(t, size) ==
    /\ pc[t] = "idle"
    /\ Goto(t, "PresizeLoad")
    /\ rt' = Set(rt, t, "presize")
    /\ tab' = Set(tab, t, Null)
    /\ arg' = Set(arg, t, RequestedCapacity(size))
    /\ UNCHANGED <<shared, nt, ld, loop>>

(* The fetch_add / fetch_sub of add_count(d, _) and its early return.  For a
   negative d the code computes fetch_sub(|d|) - d: the count before the
   subtraction plus |d|. *)
CallAddCount(t, d, hint) ==
    /\ pc[t] = "idle"
    /\ count' = count + d
    /\ UNCHANGED <<table, nextTable, transferIndex, sizeCtl, moved, fwd>>
    /\ IF hint
       THEN /\ Goto(t, "AddLoadSizeCtl")
            /\ rt' = Set(rt, t, "add")
            /\ tab' = Set(tab, t, Null)
            /\ arg' = Set(arg, t, IF d >= 0 THEN count + d ELSE count - d)
            /\ UNCHANGED <<nt, ld, loop>>
       ELSE UNCHANGED <<pc, locals>>

-----------------------------------------------------------------------------
(* init_table *)

InitLoadTable(t) ==
    /\ pc[t] = "InitLoadTable"
    /\ IF table # Null
       THEN Return(t, table)
       ELSE Goto(t, "InitLoadSizeCtl") /\ UNCHANGED locals
    /\ UNCHANGED shared

InitLoadSizeCtl(t) ==
    /\ pc[t] = "InitLoadSizeCtl"
    /\ Goto(t, IF sizeCtl < 0 THEN "InitLoadTable" ELSE "InitClaim")
    /\ ld' = Set(ld, t, sizeCtl)
    /\ UNCHANGED <<shared, rt, tab, nt, loop, arg>>

InitClaim(t) ==
    /\ pc[t] = "InitClaim"
    /\ IF sizeCtl = ld[t]
       THEN sizeCtl' = -1 /\ Goto(t, "InitRecheck")
       ELSE Goto(t, "InitLoadTable") /\ UNCHANGED sizeCtl
    /\ UNCHANGED <<table, nextTable, transferIndex, count, moved, fwd, locals>>

(* Mutant: the table is not looked at again once -1 is taken. *)
InitRecheckSkipped(t) ==
    /\ pc[t] = "InitRecheck"
    /\ Goto(t, "InitStoreTable")
    /\ UNCHANGED <<shared, locals>>

InitRecheck(t) ==
    /\ pc[t] = "InitRecheck"
    /\ Goto(t, IF table = Null THEN "InitStoreTable" ELSE "InitStoreSizeCtl")
    /\ tab' = Set(tab, t, table)
    /\ UNCHANGED <<shared, rt, nt, ld, loop, arg>>

InitStoreTable(t) ==
    LET n == IF ld[t] > 0 THEN ld[t] ELSE InitCap IN
    /\ pc[t] = "InitStoreTable"
    /\ table' = n
    /\ tab' = Set(tab, t, n)
    /\ ld' = Set(ld, t, LoadFactor(n))
    /\ Goto(t, "InitStoreSizeCtl")
    /\ UNCHANGED <<nextTable, transferIndex, sizeCtl, count, moved, fwd, rt, nt, loop, arg>>

(* Mutant: a late claim stores the first threshold, not what it took away. *)
InitStoreFirstThreshold(t) ==
    /\ pc[t] = "InitStoreSizeCtl"
    /\ sizeCtl' = LoadFactor(InitCap)
    /\ Return(t, tab[t])
    /\ UNCHANGED <<table, nextTable, transferIndex, count, moved, fwd>>

InitStoreSizeCtl(t) ==
    /\ pc[t] = "InitStoreSizeCtl"
    /\ sizeCtl' = ld[t]
    /\ Return(t, tab[t])
    /\ UNCHANGED <<table, nextTable, transferIndex, count, moved, fwd>>

-----------------------------------------------------------------------------
(* add_count, past the counter *)

AddLoadSizeCtl(t) ==
    /\ pc[t] = "AddLoadSizeCtl"
    /\ IF arg[t] < sizeCtl
       THEN Return(t, Null)
       ELSE /\ Goto(t, "AddLoadTable")
            /\ ld' = Set(ld, t, sizeCtl)
            /\ UNCHANGED <<rt, tab, nt, loop, arg>>
    /\ UNCHANGED shared

AddLoadTable(t) ==
    /\ pc[t] = "AddLoadTable"
    /\ IF \/ table = Null
          \/ table >= MaxCap
          \/ ld[t] < 0 /\ ld[t] \in {ResizeStamp(table) + MaxResizers, ResizeStamp(table) + 1}
       THEN Return(t, Null)
       ELSE /\ Goto(t, IF ld[t] < 0 THEN "AddLoadNext" ELSE "AddStart")
            /\ tab' = Set(tab, t, table)
            /\ UNCHANGED <<rt, nt, ld, loop, arg>>
    /\ UNCHANGED shared

AddLoadNext(t) ==
    /\ pc[t] = "AddLoadNext"
    /\ IF nextTable = Null
       THEN Return(t, Null)
       ELSE /\ Goto(t, "AddLoadIndex")
            /\ nt' = Set(nt, t, nextTable)
            /\ UNCHANGED <<rt, tab, ld, loop, arg>>
    /\ UNCHANGED shared

AddLoadIndex(t) ==
    /\ pc[t] = "AddLoadIndex"
    /\ IF transferIndex <= 0
       THEN Return(t, Null)
       ELSE Goto(t, "AddJoin") /\ UNCHANGED locals
    /\ UNCHANGED shared

(* Mutant: the joining thread does not check that size_ctl is what it read. *)
AddJoinBlind(t) ==
    /\ pc[t] = "AddJoin"
    /\ sizeCtl' = ld[t] + 1
    /\ EnterTransfer(t, nt[t])
    /\ UNCHANGED <<table, nextTable, transferIndex, count, moved, fwd>>

AddJoin(t) ==
    /\ pc[t] = "AddJoin"
    /\ IF sizeCtl = ld[t]
       THEN sizeCtl' = ld[t] + 1 /\ EnterTransfer(t, nt[t])
       ELSE Goto(t, "AddReload") /\ UNCHANGED <<sizeCtl, locals>>
    /\ UNCHANGED <<table, nextTable, transferIndex, count, moved, fwd>>

(* Mutant: the claim of a resize is a store instead of a compare-and-swap. *)
AddStartStore(t) ==
    /\ pc[t] = "AddStart"
    /\ sizeCtl' = ResizeStamp(tab[t]) + 2
    /\ EnterTransfer(t, Null)
    /\ UNCHANGED <<table, nextTable, transferIndex, count, moved, fwd>>

AddStart(t) ==
    /\ pc[t] = "AddStart"
    /\ IF sizeCtl = ld[t]
       THEN sizeCtl' = ResizeStamp(tab[t]) + 2 /\ EnterTransfer(t, Null)
       ELSE Goto(t, "AddReload") /\ UNCHANGED <<sizeCtl, locals>>
    /\ UNCHANGED <<table, nextTable, transferIndex, count, moved, fwd>>

AddReload(t) ==
    /\ pc[t] = "AddReload"
    /\ Goto(t, "AddLoadSizeCtl")
    /\ arg' = Set(arg, t, count)
    /\ nt' = Set(nt, t, Null)
    /\ UNCHANGED <<shared, rt, tab, ld, loop>>

-----------------------------------------------------------------------------
(* help_transfer *)

HelpForward(t) ==
    /\ pc[t] = "HelpForward"
    /\ IF fwd[tab[t]] = Null
       THEN Return(t, tab[t])
       ELSE /\ Goto(t, "HelpCheckNext")
            /\ nt' = Set(nt, t, fwd[tab[t]])
            /\ UNCHANGED <<rt, tab, ld, loop, arg>>
    /\ UNCHANGED shared

HelpCheckNext(t) ==
    /\ pc[t] = "HelpCheckNext"
    /\ IF nextTable # nt[t]
       THEN Return(t, nt[t])
       ELSE Goto(t, "HelpCheckTable") /\ UNCHANGED locals
    /\ UNCHANGED shared

HelpCheckTable(t) ==
    /\ pc[t] = "HelpCheckTable"
    /\ IF table # tab[t]
       THEN Return(t, nt[t])
       ELSE Goto(t, "HelpLoadSizeCtl") /\ UNCHANGED locals
    /\ UNCHANGED shared

HelpLoadSizeCtl(t) ==
    /\ pc[t] = "HelpLoadSizeCtl"
    /\ IF sizeCtl >= 0 \/ sizeCtl \in {ResizeStamp(tab[t]) + MaxResizers, ResizeStamp(tab[t]) + 1}
       THEN Return(t, nt[t])
       ELSE /\ Goto(t, "HelpLoadIndex")
            /\ ld' = Set(ld, t, sizeCtl)
            /\ UNCHANGED <<rt, tab, nt, loop, arg>>
    /\ UNCHANGED shared

HelpLoadIndex(t) ==
    /\ pc[t] = "HelpLoadIndex"
    /\ IF transferIndex <= 0
       THEN Return(t, nt[t])
       ELSE Goto(t, "HelpJoin") /\ UNCHANGED locals
    /\ UNCHANGED shared

HelpJoin(t) ==
    /\ pc[t] = "HelpJoin"
    /\ IF sizeCtl = ld[t]
       THEN sizeCtl' = ld[t] + 1 /\ EnterTransfer(t, nt[t])
       ELSE Goto(t, "HelpCheckNext") /\ UNCHANGED <<sizeCtl, locals>>
    /\ UNCHANGED <<table, nextTable, transferIndex, count, moved, fwd>>

-----------------------------------------------------------------------------
(* try_presize *)

PresizeLoad(t) ==
    /\ pc[t] = "PresizeLoad"
    /\ IF sizeCtl < 0
       THEN Return(t, Null)
       ELSE /\ Goto(t, "PresizeLoadTable")
            /\ ld' = Set(ld, t, sizeCtl)
            /\ UNCHANGED <<rt, tab, nt, loop, arg>>
    /\ UNCHANGED shared

PresizeLoadTable(t) ==
    /\ pc[t] = "PresizeLoadTable"
    /\ IF table # Null /\ (arg[t] <= ld[t] \/ table >= MaxCap)
       THEN Return(t, Null)
       ELSE /\ Goto(t, IF table = Null THEN "PresizeClaim" ELSE "PresizeCheckTable")
            /\ tab' = Set(tab, t, table)
            /\ UNCHANGED <<rt, nt, ld, loop, arg>>
    /\ UNCHANGED shared

PresizeClaim(t) ==
    /\ pc[t] = "PresizeClaim"
    /\ IF sizeCtl = ld[t]
       THEN sizeCtl' = -1 /\ Goto(t, "PresizeRecheck")
       ELSE Goto(t, "PresizeLoad") /\ UNCHANGED sizeCtl
    /\ UNCHANGED <<table, nextTable, transferIndex, count, moved, fwd, locals>>

PresizeRecheck(t) ==
    /\ pc[t] = "PresizeRecheck"
    /\ Goto(t, IF table = tab[t] THEN "PresizeStoreTable" ELSE "PresizeStoreSizeCtl")
    /\ UNCHANGED <<shared, locals>>

PresizeStoreTable(t) ==
    LET n == IF arg[t] >= ld[t] THEN arg[t] ELSE ld[t] IN
    /\ pc[t] = "PresizeStoreTable"
    /\ table' = n
    /\ ld' = Set(ld, t, LoadFactor(n))
    /\ Goto(t, "PresizeStoreSizeCtl")
    /\ UNCHANGED <<nextTable, transferIndex, sizeCtl, count, moved, fwd, rt, tab, nt, loop, arg>>

PresizeStoreSizeCtl(t) ==
    /\ pc[t] = "PresizeStoreSizeCtl"
    /\ sizeCtl' = ld[t]
    /\ Goto(t, "PresizeLoad")
    /\ UNCHANGED <<table, nextTable, transferIndex, count, moved, fwd, locals>>

PresizeCheckTable(t) ==
    /\ pc[t] = "PresizeCheckTable"
    /\ Goto(t, IF table = tab[t] THEN "PresizeStart" ELSE "PresizeLoad")
    /\ UNCHANGED <<shared, locals>>

PresizeStart(t) ==
    /\ pc[t] = "PresizeStart"
    /\ IF sizeCtl = ld[t]
       THEN sizeCtl' = ResizeStamp(tab[t]) + 2 /\ EnterTransfer(t, Null)
       ELSE Goto(t, "PresizeLoad") /\ UNCHANGED <<sizeCtl, locals>>
    /\ UNCHANGED <<table, nextTable, transferIndex, count, moved, fwd>>

-----------------------------------------------------------------------------
(* transfer *)

TransferAllocate(t) ==
    /\ pc[t] = "TransferAllocate"
    /\ nextTable' = 2 * tab[t]
    /\ Goto(t, "TransferOpen")
    /\ UNCHANGED <<table, transferIndex, sizeCtl, count, moved, fwd, locals>>

TransferOpen(t) ==
    /\ pc[t] = "TransferOpen"
    /\ transferIndex' = tab[t]
    /\ Goto(t, "TransferLoadNext")
    /\ UNCHANGED <<table, nextTable, sizeCtl, count, moved, fwd, locals>>

(* The load of next_table and the use of its length: on a null pointer the
   process ends there, and no step follows. *)
TransferLoadNext(t) ==
    /\ pc[t] = "TransferLoadNext" /\ nextTable # Null
    /\ nt' = Set(nt, t, nextTable)
    /\ Goto(t, "TransferAdvance")
    /\ UNCHANGED <<shared, rt, tab, ld, loop, arg>>

(* Mutant: i below zero is not taken for the end. *)
BodyForNoLowerEnd(t, i) ==
    IF i >= tab[t] \/ i + tab[t] >= nt[t]
    THEN IF fin[t] THEN "TransferClearNext" ELSE "TransferLoadSizeCtl"
    ELSE "TransferBin"

(* Where the loop body goes with `i`: off either end of the table is the end
   of this thread's work. *)
BodyFor(t, i) ==
    IF i < 0 \/ i >= tab[t] \/ i + tab[t] >= nt[t]
    THEN IF fin[t] THEN "TransferClearNext" ELSE "TransferLoadSizeCtl"
    ELSE "TransferBin"

(* One round of `while advance`: the next bin of the claim or, past its
   bound, a look at transfer_index. *)
TransferAdvance(t) ==
    LET i == idx[t] - 1 IN
    /\ pc[t] = "TransferAdvance"
    /\ IF i >= bound[t] \/ fin[t]
       THEN /\ idx' = Set(idx, t, i)
            /\ Goto(t, BodyFor(t, i))
            /\ UNCHANGED ld
       ELSE IF transferIndex <= 0
       THEN /\ idx' = Set(idx, t, -1)
            /\ Goto(t, BodyFor(t, -1))
            /\ UNCHANGED ld
       ELSE /\ idx' = Set(idx, t, i)
            /\ ld' = Set(ld, t, transferIndex)
            /\ Goto(t, "TransferClaim")
    /\ UNCHANGED <<shared, rt, tab, nt, bound, fin, arg>>

(* The claim of [next_bound, next_index).  The loop body then starts at
   next_index itself, one above the claim. *)
TransferClaim(t) ==
    LET nextBound == IF ld[t] > Stride THEN ld[t] - Stride ELSE 0 IN
    /\ pc[t] = "TransferClaim"
    /\ IF transferIndex = ld[t]
       THEN /\ transferIndex' = nextBound
            /\ bound' = Set(bound, t, nextBound)
            /\ idx' = Set(idx, t, ld[t])
            /\ Goto(t, BodyFor(t, ld[t]))
       ELSE Goto(t, "TransferAdvance") /\ UNCHANGED <<transferIndex, bound, idx>>
    /\ ld' = Set(ld, t, 0)
    /\ UNCHANGED <<table, nextTable, sizeCtl, count, moved, fwd, rt, tab, nt, fin, arg>>

TransferSkipMoved(t) ==
    /\ pc[t] = "TransferBin" /\ idx[t] \in moved[tab[t]]
    /\ Goto(t, "TransferAdvance")
    /\ UNCHANGED <<shared, locals>>

(* Table::get_moved: make the old table point at the new one before any of
   its bins is marked *)
TransferForward(t) ==
    /\ pc[t] = "TransferBin" /\ fwd[tab[t]] = Null
    /\ fwd' = Set(fwd, tab[t], nt[t])
    /\ UNCHANGED <<table, nextTable, transferIndex, sizeCtl, count, moved, pc, locals>>

TransferMoveBin(t) ==
    /\ pc[t] = "TransferBin" /\ idx[t] \notin moved[tab[t]] /\ fwd[tab[t]] # Null
    /\ moved' = [moved EXCEPT ![tab[t]] = @ \cup {idx[t]}]
    /\ Goto(t, "TransferAdvance")
    /\ UNCHANGED <<table, nextTable, transferIndex, sizeCtl, count, fwd, locals>>

TransferLoadSizeCtl(t) ==
    /\ pc[t] = "TransferLoadSizeCtl"
    /\ ld' = Set(ld, t, sizeCtl)
    /\ Goto(t, "TransferDone")
    /\ UNCHANGED <<shared, rt, tab, nt, loop, arg>>

(* Mutant: the last thread commits from where it stands, without the sweep. *)
TransferDoneNoSweep(t) ==
    /\ pc[t] = "TransferDone"
    /\ IF sizeCtl # ld[t]
       THEN Goto(t, "TransferLoadSizeCtl") /\ UNCHANGED <<sizeCtl, locals>>
       ELSE /\ sizeCtl' = ld[t] - 1
            /\ IF ld[t] - 2 # ResizeStamp(tab[t])
               THEN LeaveTransfer(t)
               ELSE fin' = Set(fin, t, TRUE) /\ Goto(t, "TransferAdvance")
                    /\ UNCHANGED <<rt, tab, nt, idx, ld, bound, arg>>
    /\ UNCHANGED <<table, nextTable, transferIndex, count, moved, fwd>>

(* Mutant: every thread takes itself for the last one. *)
TransferDoneAllLast(t) ==
    /\ pc[t] = "TransferDone"
    /\ IF sizeCtl # ld[t]
       THEN Goto(t, "TransferLoadSizeCtl") /\ UNCHANGED <<sizeCtl, locals>>
       ELSE /\ sizeCtl' = ld[t] - 1
            /\ fin' = Set(fin, t, TRUE)
            /\ idx' = Set(idx, t, tab[t])
            /\ Goto(t, "TransferAdvance")
            /\ UNCHANGED <<rt, tab, nt, ld, bound, arg>>
    /\ UNCHANGED <<table, nextTable, transferIndex, count, moved, fwd>>

(* Mutant: the last thread is looked for one too low, and nobody is it. *)
TransferDoneNoneLast(t) ==
    /\ pc[t] = "TransferDone"
    /\ IF sizeCtl # ld[t]
       THEN Goto(t, "TransferLoadSizeCtl") /\ UNCHANGED <<sizeCtl, locals>>
       ELSE sizeCtl' = ld[t] - 1 /\ LeaveTransfer(t)
    /\ UNCHANGED <<table, nextTable, transferIndex, count, moved, fwd>>

(* The thread signs off.  The last one to do so sweeps the whole table once
   more and commits. *)
TransferDone(t) ==
    /\ pc[t] = "TransferDone"
    /\ IF sizeCtl # ld[t]
       THEN Goto(t, "TransferLoadSizeCtl") /\ UNCHANGED <<sizeCtl, locals>>
       ELSE /\ sizeCtl' = ld[t] - 1
            /\ IF ld[t] - 2 # ResizeStamp(tab[t])
               THEN LeaveTransfer(t)
               ELSE /\ fin' = Set(fin, t, TRUE)
                    /\ idx' = Set(idx, t, tab[t])
                    /\ ld' = Set(ld, t, 0)
                    /\ Goto(t, "TransferAdvance")
                    /\ UNCHANGED <<rt, tab, nt, bound, arg>>
    /\ UNCHANGED <<table, nextTable, transferIndex, count, moved, fwd>>

TransferClearNext(t) ==
    /\ pc[t] = "TransferClearNext"
    /\ nextTable' = Null
    /\ Goto(t, "TransferSwap")
    /\ UNCHANGED <<table, transferIndex, sizeCtl, count, moved, fwd, locals>>

TransferSwap(t) ==
    /\ pc[t] = "TransferSwap"
    /\ table' = nt[t]
    /\ Goto(t, "TransferCommit")
    /\ UNCHANGED <<nextTable, transferIndex, sizeCtl, count, moved, fwd, locals>>

TransferCommit(t) ==
    /\ pc[t] = "TransferCommit"
    /\ sizeCtl' = 2 * tab[t] - (tab[t] \div 2)
    /\ LeaveTransfer(t)
    /\ UNCHANGED <<table, nextTable, transferIndex, count, moved, fwd>>

-----------------------------------------------------------------------------
Init ==
    /\ table = Null /\ nextTable = Null
    /\ transferIndex = 0 /\ sizeCtl = 0 /\ count = 0
    /\ moved = [n \in Caps |-> {}]
    /\ fwd = [n \in Caps |-> Null]
    /\ pc = [t \in Threads |-> "idle"]
    /\ rt = [t \in Threads |-> "none"]
    /\ tab = [t \in Threads |-> Null]
    /\ nt = [t \in Threads |-> Null]
    /\ ld = [t \in Threads |-> 0]
    /\ idx = [t \in Threads |-> 0]
    /\ bound = [t \in Threads |-> 0]
    /\ fin = [t \in Threads |-> FALSE]
    /\ arg = [t \in Threads |-> 0]
    /\ lateJoin = FALSE

(* A step of a thread inside a routine *)
InitTable(t) ==
    \/ InitLoadTable(t) \/ InitLoadSizeCtl(t) \/ InitClaim(t)
    \/ InitRecheck(t) \/ InitStoreTable(t) \/ InitStoreSizeCtl(t)

AddCount(t) ==
    \/ AddLoadSizeCtl(t) \/ AddLoadTable(t) \/ AddLoadNext(t) \/ AddLoadIndex(t)
    \/ AddJoin(t) \/ AddStart(t) \/ AddReload(t)

HelpTransfer(t) ==
    \/ HelpForward(t) \/ HelpCheckNext(t) \/ HelpCheckTable(t)
    \/ HelpLoadSizeCtl(t) \/ HelpLoadIndex(t) \/ HelpJoin(t)

TryPresize(t) ==
    \/ PresizeLoad(t) \/ PresizeLoadTable(t) \/ PresizeClaim(t) \/ PresizeRecheck(t)
    \/ PresizeStoreTable(t) \/ PresizeStoreSizeCtl(t) \/ PresizeCheckTable(t) \/ PresizeStart(t)

TransferLoop(t) ==
    \/ TransferAllocate(t) \/ TransferOpen(t) \/ TransferLoadNext(t)
    \/ TransferAdvance(t) \/ TransferClaim(t)
    \/ TransferLoadSizeCtl(t) \/ TransferDone(t)
    \/ TransferClearNext(t) \/ TransferSwap(t) \/ TransferCommit(t)

TransferBinStep(t) == TransferSkipMoved(t) \/ TransferForward(t) \/ TransferMoveBin(t)

Step(t) ==
    InitTable(t) \/ AddCount(t) \/ HelpTransfer(t) \/ TryPresize(t)
    \/ TransferLoop(t) \/ TransferBinStep(t)

Call(t) ==
    \/ LoadTable(t) \/ CallInitTable(t) \/ CallHelpTransfer(t)
    \/ \E size \in CountRange \cap Nat : CallTryPresize(t, size)
    \/ \E d \in {-1, 1}, hint \in BOOLEAN :
          count + d \in CountRange /\ CallAddCount(t, d, hint)

Next == \E t \in Threads : Step(t) \/ Call(t)

(* The routines compare size_ctl with the value they loaded, not its stamp with
   that of their table: a thread that is late joins whatever is open by then.
   A step of such a join is one that does not match. *)
StampIs(sc, n) == ResizeStamp(n) <= sc /\ sc <= ResizeStamp(n) + MaxResizers

JoinsMatch ==
    \A t \in Threads :
        pc[t] \in {"AddJoin", "HelpJoin"} /\ pc'[t] = "TransferAdvance"
            => StampIs(ld[t], tab[t])

Remember == lateJoin' = (lateJoin \/ ~JoinsMatch)

Spec == Init /\ [][Next /\ Remember]_watchedVars

(* No thread stops in the middle of a routine: the code never blocks there
   and the scheduler runs every runnable thread. *)
FairSpec == Spec /\ \A t \in Threads : WF_resizeVars(Step(t))

-----------------------------------------------------------------------------
(* Properties *)

Pcs == {"idle", "InitLoadTable", "InitLoadSizeCtl", "InitClaim", "InitRecheck",
        "InitStoreTable", "InitStoreSizeCtl", "AddLoadSizeCtl", "AddLoadTable",
        "AddLoadNext", "AddLoadIndex", "AddJoin", "AddStart", "AddReload",
        "HelpForward", "HelpCheckNext", "HelpCheckTable", "HelpLoadSizeCtl",
        "HelpLoadIndex", "HelpJoin", "PresizeLoad", "PresizeLoadTable",
        "PresizeClaim", "PresizeRecheck", "PresizeStoreTable",
        "PresizeStoreSizeCtl", "PresizeCheckTable", "PresizeStart",
        "TransferAllocate", "TransferOpen", "TransferLoadNext",
        "TransferAdvance", "TransferClaim", "TransferBin",
        "TransferLoadSizeCtl", "TransferDone", "TransferClearNext",
        "TransferSwap", "TransferCommit"}

SharedTypes ==
    /\ table \in Caps \cup {Null} /\ nextTable \in Caps \cup {Null}
    /\ transferIndex \in Nat /\ sizeCtl \in Int /\ count \in CountRange
    /\ moved \in [Caps -> SUBSET Nat]
    /\ \A n \in Caps : moved[n] \subseteq 0..(n - 1)
    /\ fwd \in [Caps -> Caps \cup {Null}]

LocalTypes ==
    /\ pc \in [Threads -> Pcs]
    /\ rt \in [Threads -> {"none", "help", "add", "presize"}]
    /\ tab \in [Threads -> Caps \cup {Null}]
    /\ nt \in [Threads -> Caps \cup {Null}]
    /\ ld \in [Threads -> Int] /\ idx \in [Threads -> Int]
    /\ bound \in [Threads -> Nat] /\ fin \in [Threads -> BOOLEAN]
    /\ arg \in [Threads -> Int]

(* Every variable stays in its domain: a table pointer is null or a table the
   map allocated, a moved bin is a bin of its table. *)
TypeOK == SharedTypes /\ LocalTypes

(* The first table is stored over a null pointer, whichever of init_table and
   try_presize allocates it: no element put in another one is lost
   (`assert!(old_table.is_null())` in try_presize; init_table does not look). *)
FirstTableOnce ==
    \A t \in Threads :
        pc[t] \in {"InitStoreTable", "PresizeStoreTable"} => table = Null

(* The thread that swaps the tables does so when every bin of the old one
   holds Moved, however the claims were cut and whoever took them: no element
   stays behind in the table that is dropped. *)
SwapComplete ==
    \A t \in Threads :
        /\ pc[t] \in {"TransferClearNext", "TransferSwap", "TransferCommit"}
        /\ nt[t] = 2 * tab[t]
        => moved[tab[t]] = 0..(tab[t] - 1)

(* The table only ever moves on to the one twice as long, from a table whose
   bins have all moved. *)
Doubles ==
    table # Null /\ table' # table
        => /\ table' = 2 * table
           /\ moved[table] = 0..(table - 1)
           /\ fwd[table] = table'
TableDoubles == [][Doubles]_resizeVars

(* Whoever marks a bin of a table agrees on the table that follows it (the
   two assertions of Table::get_moved). *)
ForwardAgrees ==
    \A t \in Threads : pc[t] = "TransferBin" => fwd[tab[t]] \in {Null, nt[t]}

(* As long as nobody has joined late, at most one resize is open: next_table is
   free when a thread allocates (`assert!(now_garbage.is_null())` in transfer).
   After a late join three threads may find it taken. *)
OneResizeAtATime ==
    \/ lateJoin
    \/ \A t \in Threads : pc[t] = "TransferAllocate" => nextTable = Null

(* As long as nobody has joined late, size_ctl between calls is the threshold of
   the current table: a claim of the first allocation that came after it puts
   back what it took away.  A late join may leave a stamp. *)
ThresholdAtRest ==
    \/ lateJoin
    \/ (\A t \in Threads : pc[t] = "idle")
           => sizeCtl = IF table = Null THEN 0 ELSE LoadFactor(table)

(* Drop asserts that next_table is null: with no call in progress, no resize
   is half done. *)
NothingOpenAtRest ==
    (\A t \in Threads : pc[t] = "idle") => nextTable = Null

(* A resize that began is committed, or somebody joins late: whoever is counted
   in size_ctl signs off, and the last one knows that it is. *)
ResizeCompletes == nextTable # Null ~> nextTable = Null \/ lateJoin
=============================================================================
