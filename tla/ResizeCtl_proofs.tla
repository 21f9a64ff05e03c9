-------------------------- MODULE ResizeCtl_proofs --------------------------
(***************************************************************************)
(* Proofs about ResizeCtl for any number of threads, tables and elements.  *)
(*                                                                         *)
(* The first part is about the code as it is.  TypeOK, FirstTableOnce and  *)
(* SwapComplete need one another: the last sweep reads bins the type       *)
(* invariant must place inside the table, and the type invariant must know *)
(* that a thread past the first allocation never meets a null table.  IInv *)
(* is their common strengthening.                                          *)
(*                                                                         *)
(* The second part says what the stamp in size_ctl is good for: until a    *)
(* thread joins a resize with a stamp that is not its table's (lateJoin),  *)
(* size_ctl counts the threads that transfer, all of them move the same    *)
(* table, and the last to sign off is the last.  One resize is open at a   *)
(* time, then, for any number of threads.                                  *)
(***************************************************************************)
EXTENDS ResizeCtl, WellFoundedInduction, FiniteSetTheorems, TLAPS

AddPcs == {"AddLoadSizeCtl", "AddLoadTable", "AddLoadNext", "AddLoadIndex", "AddJoin",
           "AddStart", "AddReload"}
HelpPcs == {"HelpForward", "HelpCheckNext", "HelpCheckTable", "HelpLoadSizeCtl",
            "HelpLoadIndex", "HelpJoin"}
PresizePcs == {"PresizeLoad", "PresizeLoadTable", "PresizeClaim", "PresizeRecheck",
               "PresizeStoreTable", "PresizeStoreSizeCtl", "PresizeCheckTable", "PresizeStart"}
CommitPcs == {"TransferClearNext", "TransferSwap", "TransferCommit"}
FillPcs == {"TransferAdvance", "TransferClaim", "TransferBin", "TransferLoadSizeCtl",
            "TransferDone"} \cup CommitPcs
TransferPcs == {"TransferAllocate", "TransferOpen", "TransferLoadNext"} \cup FillPcs

(* The steps a thread may be at before there is a table; the owners of -1
   among them; those that hold the size_ctl they read. *)
EarlyPcs == {"idle", "InitLoadTable", "InitLoadSizeCtl", "InitClaim", "InitRecheck",
             "InitStoreTable", "AddLoadSizeCtl", "AddLoadTable", "PresizeLoad",
             "PresizeLoadTable", "PresizeClaim", "PresizeRecheck", "PresizeStoreTable"}
OwnerPcs == {"InitRecheck", "InitStoreTable", "PresizeRecheck", "PresizeStoreTable"}
ReadPcs == OwnerPcs \cup {"InitClaim", "PresizeLoadTable", "PresizeClaim"}

(* The steps at which the local table, or next table, is a table. *)
TabPcs == {"AddLoadNext", "AddLoadIndex", "AddJoin", "AddStart", "PresizeCheckTable",
           "PresizeStart"} \cup HelpPcs \cup TransferPcs
NextPcs == {"AddLoadIndex", "AddJoin"} \cup (HelpPcs \ {"HelpForward"}) \cup FillPcs

(* While there is no table only the first allocation goes on, by the one
   thread that took size_ctl from 0 to -1. *)
BeforeTable ==
    table = Null =>
        /\ sizeCtl \in {0, -1}
        /\ \A t \in Threads :
              /\ pc[t] \in EarlyPcs
              /\ tab[t] = Null
              /\ pc[t] \in ReadPcs => ld[t] = 0
              /\ pc[t] \in OwnerPcs => sizeCtl = -1
        /\ \A t, u \in Threads : pc[t] \in OwnerPcs /\ pc[u] \in OwnerPcs => t = u

(* What a thread knows at each step from what it read before. *)
Locals(t) ==
    /\ pc[t] \in TabPcs => tab[t] # Null
    /\ pc[t] \in NextPcs => nt[t] # Null
    /\ pc[t] \in {"AddStart", "PresizeCheckTable", "PresizeStart", "TransferAllocate"}
          => tab[t] < MaxCap
    /\ pc[t] \in {"PresizeClaim", "PresizeRecheck", "PresizeStoreTable"} => tab[t] = Null
    /\ pc[t] \in AddPcs => rt[t] = "add"
    /\ pc[t] \in HelpPcs => rt[t] = "help"
    /\ pc[t] \in PresizePcs => arg[t] \in Caps
    /\ pc[t] \in TransferPcs /\ rt[t] \notin {"add", "help"} => arg[t] \in Caps
    /\ pc[t] = "TransferBin" => idx[t] >= 0 /\ idx[t] < tab[t]

(* The last sweep, from the top bin down: the bins above i have moved. *)
Sweep(t) ==
    /\ pc[t] \in CommitPcs => fin[t]
    /\ fin[t] => pc[t] \in {"TransferAdvance", "TransferBin"} \cup CommitPcs
    /\ fin[t] => idx[t] <= tab[t]
    /\ fin[t] /\ nt[t] = 2 * tab[t] =>
          \A j \in 0..(tab[t] - 1) :
              \/ pc[t] = "TransferAdvance" /\ j < idx[t]
              \/ pc[t] = "TransferBin" /\ j <= idx[t]
              \/ j \in moved[tab[t]]

IInv ==
    /\ TypeOK
    /\ FirstTableOnce
    /\ BeforeTable
    /\ \A t \in Threads : Locals(t)
    /\ \A t \in Threads : Sweep(t)

(* The lengths of tables *)
LEMMA CapsPositive == \A n \in Caps : n \in Nat /\ n > 0
<1>1. Caps \subseteq Nat \ {0}
  BY Zenon, CapsAssumption
<1> QED
  BY <1>1

USE CapsAssumption, StrideAssumption, ResizersAssumption, CountAssumption
USE DEF Null, shared, loop, locals, resizeVars,
        AddPcs, HelpPcs, PresizePcs, CommitPcs, FillPcs, TransferPcs,
        EarlyPcs, OwnerPcs, ReadPcs, TabPcs, NextPcs

-----------------------------------------------------------------------------
(* Facts about the data. *)

(* The numbers size_ctl takes are integers. *)
LEMMA Arithmetic ==
    \A n \in Caps \cup {Null} :
        n \in Nat /\ ResizeStamp(n) \in Int /\ LoadFactor(n) \in Int /\ n \div 2 \in Int
  BY DEF ResizeStamp, LoadFactor

(* A set of numbers has a least one. *)
LEMMA LeastNat ==
    ASSUME NEW T \in SUBSET Nat, T # {}
    PROVE  \E x \in T : \A y \in T : x <= y
<1> DEFINE R == OpToRel(<, Nat)
<1>1. IsWellFoundedOn(R, Nat)
  BY NatLessThanWellFounded
<1>2. PICK x \in T : \A y \in T : ~ (<<y, x>> \in R)
  <2> HIDE DEF R
  <2> QED
    BY <1>1, WFMin
<1>3. \A y \in T : <<y, x>> \in Nat \X Nat /\ ~(y < x)
  BY <1>2 DEF OpToRel
<1>4. ASSUME NEW y \in T PROVE x <= y
  <2>1. x \in Nat /\ y \in Nat /\ ~(y < x)
    BY <1>3
  <2> HIDE DEF R
  <2> QED
    BY <2>1
<1> QED
  BY <1>4

(* try_presize asks for a length a table may have. *)
LEMMA RequestedCap ==
    ASSUME NEW size \in Nat
    PROVE  RequestedCapacity(size) \in Caps /\ RequestedCapacity(size) \in Nat
<1>1. MaxCap \in Nat /\ MaxCap \in Caps
  OBVIOUS
<1>2. CASE size >= MaxCap \div 2
  BY <1>1, <1>2 DEF RequestedCapacity
<1>3. CASE ~(size >= MaxCap \div 2)
  <2> DEFINE wanted == size + size \div 2 + 1
             T == {c \in Caps : c >= wanted}
  <2>1. wanted <= MaxCap
    BY <1>1, <1>3
  <2>2. T \in SUBSET Nat /\ T # {}
    BY <1>1, <2>1
  <2>3. PICK c \in T : \A d \in T : c <= d
    <3> HIDE DEF T
    <3> QED
      BY <2>2, LeastNat
  <2>4. \E e \in Caps : e >= wanted /\ \A d \in Caps : d >= wanted => e <= d
    BY <2>3
  <2>5. RequestedCapacity(size) =
            CHOOSE e \in Caps : e >= wanted /\ \A d \in Caps : d >= wanted => e <= d
    BY <1>3 DEF RequestedCapacity
  <2>6. RequestedCapacity(size) \in Caps
    BY <2>4, <2>5
  <2> QED
    BY <2>6, Arithmetic
<1> QED
  BY <1>2, <1>3

-----------------------------------------------------------------------------
(* Facts about the steps several actions share. *)

(* The values a thread holds. *)
LEMMA LocalValues ==
    ASSUME LocalTypes, NEW t \in Threads
    PROVE  /\ tab[t] \in Caps \cup {Null} /\ tab[t] \in Nat
           /\ nt[t] \in Caps \cup {Null} /\ nt[t] \in Nat
           /\ ld[t] \in Int /\ idx[t] \in Int /\ bound[t] \in Nat /\ arg[t] \in Int
<1>1. tab[t] \in Caps \cup {Null} /\ nt[t] \in Caps \cup {Null}
  BY DEF LocalTypes
<1>2. tab[t] \in Nat /\ nt[t] \in Nat
  BY <1>1, Arithmetic
<1> QED
  BY <1>1, <1>2 DEF LocalTypes

(* Where the body of transfer's loop goes. *)
LEMMA BodyForCases ==
    ASSUME LocalTypes, NEW t \in Threads, NEW i \in Int
    PROVE  /\ BodyFor(t, i) \in {"TransferBin", "TransferClearNext", "TransferLoadSizeCtl"}
           /\ BodyFor(t, i) \in Pcs
           /\ BodyFor(t, i) = "TransferBin" <=>
                 i >= 0 /\ i < tab[t] /\ i + tab[t] < nt[t]
           /\ BodyFor(t, i) = "TransferClearNext" => fin[t]
           /\ BodyFor(t, i) = "TransferLoadSizeCtl" => ~fin[t]
<1>1. tab[t] \in Nat /\ nt[t] \in Nat
  BY LocalValues
<1>2. {"TransferBin", "TransferClearNext", "TransferLoadSizeCtl"} \subseteq Pcs
  BY DEF Pcs
<1> QED
  BY <1>1, <1>2 DEF BodyFor

(* Leaving a routine, entering and leaving transfer keep the locals typed. *)
LEMMA ReturnTypes ==
    ASSUME LocalTypes, NEW t \in Threads, NEW result \in Caps \cup {Null}, Return(t, result)
    PROVE  LocalTypes'
<1>1. pc' \in [Threads -> Pcs]
  BY DEF LocalTypes, Pcs, Return, Goto
<1> QED
  BY <1>1 DEF LocalTypes, Return, Set

LEMMA EnterTypes ==
    ASSUME LocalTypes, NEW t \in Threads, NEW next, EnterTransfer(t, next)
    PROVE  LocalTypes'
<1>1. pc' \in [Threads -> Pcs]
  BY DEF LocalTypes, Pcs, EnterTransfer, Goto
<1> QED
  BY <1>1 DEF LocalTypes, EnterTransfer, Set

LEMMA LeaveTypes ==
    ASSUME LocalTypes, NEW t \in Threads, LeaveTransfer(t)
    PROVE  LocalTypes'
<1>1. CASE rt[t] = "help"
  BY <1>1, ReturnTypes DEF LeaveTransfer, LocalTypes
<1>2. CASE rt[t] # "help"
  <2>1. pc' \in [Threads -> Pcs]
    BY <1>2 DEF LocalTypes, Pcs, LeaveTransfer, Goto
  <2>2. /\ tab' = Set(tab, t, Null) /\ nt' = Set(nt, t, Null) /\ ld' = Set(ld, t, 0)
        /\ idx' = Set(idx, t, 0) /\ bound' = Set(bound, t, 0) /\ fin' = Set(fin, t, FALSE)
        /\ UNCHANGED <<rt, arg>>
    BY <1>2 DEF LeaveTransfer
  <2> QED
    BY <2>1, <2>2 DEF LocalTypes, Set
<1> QED
  BY <1>1, <1>2

-----------------------------------------------------------------------------
(* What an operation does between routines: it leaves a table in tab, or calls
   a routine, whatever table or size it has in hand and however many elements
   it has put in or taken out. *)
SetsTab(t) ==
    /\ pc[t] = "idle"
    /\ \E n \in Caps \cup {Null} : (table = Null => n = Null) /\ tab' = Set(tab, t, n)
    /\ UNCHANGED <<shared, pc, rt, nt, ld, loop, arg>>

AnyCall(t) ==
    \/ SetsTab(t) \/ CallInitTable(t) \/ CallHelpTransfer(t)
    \/ \E size \in Nat : CallTryPresize(t, size)
    \/ \E d \in Int, hint \in BOOLEAN : count + d \in CountRange /\ CallAddCount(t, d, hint)

LEMMA CallIsAny ==
    ASSUME TypeOK, NEW t \in Threads, Call(t)
    PROVE  AnyCall(t)
  BY DEF TypeOK, SharedTypes, Call, AnyCall, LoadTable, SetsTab

LEMMA CallInv ==
    ASSUME IInv, NEW t \in Threads, AnyCall(t)
    PROVE  IInv'
<1>1. CASE SetsTab(t)
  <2>1. SharedTypes'
    BY <1>1, LocalValues DEF IInv, TypeOK, SharedTypes, LocalTypes, Locals, SetsTab
  <2>2. LocalTypes'
    <3> QED
      BY <1>1, LocalValues DEF IInv, TypeOK, LocalTypes, SharedTypes, SetsTab, Set
  <2>3. FirstTableOnce'
    BY <1>1 DEF IInv, TypeOK, SharedTypes, LocalTypes, FirstTableOnce, BeforeTable, Locals, SetsTab, Set
  <2>4. BeforeTable'
    BY <1>1 DEF IInv, TypeOK, SharedTypes, LocalTypes, FirstTableOnce, BeforeTable, Locals, SetsTab, Set
  <2>5. ASSUME NEW u \in Threads PROVE Locals(u)'
    BY <1>1 DEF IInv, TypeOK, SharedTypes, LocalTypes, BeforeTable, Locals, SetsTab, Set
  <2>6. ASSUME NEW u \in Threads PROVE Sweep(u)'
    BY <1>1 DEF IInv, TypeOK, SharedTypes, LocalTypes, Locals, Sweep, SetsTab, Set
  <2> QED
    BY <2>1, <2>2, <2>3, <2>4, <2>5, <2>6 DEF IInv, TypeOK
<1>2. CASE CallInitTable(t)
  <2>1. SharedTypes'
    BY <1>2, LocalValues DEF IInv, TypeOK, SharedTypes, LocalTypes, Locals, CallInitTable
  <2>2. LocalTypes'
    <3>1. {"InitLoadTable"} \subseteq Pcs
      BY DEF Pcs
    <3> QED
      BY <1>2, <3>1, LocalValues DEF IInv, TypeOK, LocalTypes, SharedTypes, CallInitTable, Goto
  <2>3. FirstTableOnce'
    BY <1>2 DEF IInv, TypeOK, SharedTypes, LocalTypes, FirstTableOnce, BeforeTable, Locals, CallInitTable, Goto
  <2>4. BeforeTable'
    BY <1>2 DEF IInv, TypeOK, SharedTypes, LocalTypes, FirstTableOnce, BeforeTable, Locals, CallInitTable, Goto
  <2>5. ASSUME NEW u \in Threads PROVE Locals(u)'
    BY <1>2 DEF IInv, TypeOK, SharedTypes, LocalTypes, BeforeTable, Locals, CallInitTable, Goto
  <2>6. ASSUME NEW u \in Threads PROVE Sweep(u)'
    BY <1>2 DEF IInv, TypeOK, SharedTypes, LocalTypes, Locals, Sweep, CallInitTable, Goto
  <2> QED
    BY <2>1, <2>2, <2>3, <2>4, <2>5, <2>6 DEF IInv, TypeOK
<1>3. CASE CallHelpTransfer(t)
  <2>1. SharedTypes'
    BY <1>3, LocalValues DEF IInv, TypeOK, SharedTypes, LocalTypes, Locals, CallHelpTransfer
  <2>2. LocalTypes'
    <3>1. {"HelpForward"} \subseteq Pcs
      BY DEF Pcs
    <3> QED
      BY <1>3, <3>1, LocalValues DEF IInv, TypeOK, LocalTypes, SharedTypes, CallHelpTransfer, Goto, Set
  <2>3. FirstTableOnce'
    BY <1>3 DEF IInv, TypeOK, SharedTypes, LocalTypes, FirstTableOnce, BeforeTable, Locals, CallHelpTransfer, Goto, Set
  <2>4. BeforeTable'
    BY <1>3 DEF IInv, TypeOK, SharedTypes, LocalTypes, FirstTableOnce, BeforeTable, Locals, CallHelpTransfer, Goto, Set
  <2>5. ASSUME NEW u \in Threads PROVE Locals(u)'
    BY <1>3 DEF IInv, TypeOK, SharedTypes, LocalTypes, BeforeTable, Locals, CallHelpTransfer, Goto, Set
  <2>6. ASSUME NEW u \in Threads PROVE Sweep(u)'
    BY <1>3 DEF IInv, TypeOK, SharedTypes, LocalTypes, Locals, Sweep, CallHelpTransfer, Goto, Set
  <2> QED
    BY <2>1, <2>2, <2>3, <2>4, <2>5, <2>6 DEF IInv, TypeOK
<1>4. ASSUME NEW size \in Nat, CallTryPresize(t, size) PROVE IInv'
  <2>1. SharedTypes'
    BY <1>4, LocalValues DEF IInv, TypeOK, SharedTypes, LocalTypes, Locals, CallTryPresize
  <2>2. LocalTypes'
    <3>1. {"PresizeLoad"} \subseteq Pcs
      BY DEF Pcs
    <3>2. RequestedCapacity(size) \in Nat
      BY <1>4, RequestedCap
    <3> QED
      BY <1>4, <3>1, <3>2 DEF IInv, TypeOK, LocalTypes, CallTryPresize, Goto, Set
  <2>3. FirstTableOnce'
    BY <1>4 DEF IInv, TypeOK, SharedTypes, LocalTypes, FirstTableOnce, BeforeTable, Locals, CallTryPresize, Goto, Set
  <2>4. BeforeTable'
    BY <1>4 DEF IInv, TypeOK, SharedTypes, LocalTypes, FirstTableOnce, BeforeTable, Locals, CallTryPresize, Goto, Set
  <2>5. ASSUME NEW u \in Threads PROVE Locals(u)'
    BY <1>4, RequestedCap DEF IInv, TypeOK, SharedTypes, LocalTypes, BeforeTable, Locals, CallTryPresize, Goto, Set
  <2>6. ASSUME NEW u \in Threads PROVE Sweep(u)'
    BY <1>4 DEF IInv, TypeOK, SharedTypes, LocalTypes, Locals, Sweep, CallTryPresize, Goto, Set
  <2> QED
    BY <2>1, <2>2, <2>3, <2>4, <2>5, <2>6 DEF IInv, TypeOK
<1>5. ASSUME NEW d \in Int, NEW hint \in BOOLEAN, count + d \in CountRange,
            CallAddCount(t, d, hint) PROVE IInv'
  <2>1. SharedTypes'
    BY <1>5, LocalValues DEF IInv, TypeOK, SharedTypes, LocalTypes, Locals, CallAddCount
  <2>2. LocalTypes'
    <3>1. {"AddLoadSizeCtl"} \subseteq Pcs
      BY DEF Pcs
    <3>2. count + d \in Int /\ count - d \in Int
      BY DEF IInv, TypeOK, SharedTypes
    <3>3. CASE hint
      BY <1>5, <3>1, <3>2, <3>3 DEF IInv, TypeOK, LocalTypes, CallAddCount, Goto, Set
    <3>4. CASE ~hint
      BY <1>5, <3>4 DEF IInv, TypeOK, LocalTypes, CallAddCount
    <3> QED
      BY <3>3, <3>4
  <2>3. FirstTableOnce'
    BY <1>5 DEF IInv, TypeOK, SharedTypes, LocalTypes, FirstTableOnce, BeforeTable, Locals, CallAddCount, Goto, Set
  <2>4. BeforeTable'
    BY <1>5 DEF IInv, TypeOK, SharedTypes, LocalTypes, FirstTableOnce, BeforeTable, Locals, CallAddCount, Goto, Set
  <2>5. ASSUME NEW u \in Threads PROVE Locals(u)'
    BY <1>5 DEF IInv, TypeOK, SharedTypes, LocalTypes, BeforeTable, Locals, CallAddCount, Goto, Set
  <2>6. ASSUME NEW u \in Threads PROVE Sweep(u)'
    BY <1>5 DEF IInv, TypeOK, SharedTypes, LocalTypes, Locals, Sweep, CallAddCount, Goto, Set
  <2> QED
    BY <2>1, <2>2, <2>3, <2>4, <2>5, <2>6 DEF IInv, TypeOK
<1> QED
  BY <1>1, <1>2, <1>3, <1>4, <1>5 DEF AnyCall

-----------------------------------------------------------------------------
(* init_table. *)
LEMMA InitTableInv ==
    ASSUME IInv, NEW t \in Threads, InitTable(t)
    PROVE  IInv'
<1>1. CASE InitLoadTable(t)
  <2>1. SharedTypes'
    BY <1>1, LocalValues DEF IInv, TypeOK, SharedTypes, LocalTypes, Locals, InitLoadTable
  <2>2. LocalTypes'
    <3>1. {"InitLoadSizeCtl"} \subseteq Pcs
      BY DEF Pcs
    <3> QED
      BY <1>1, <3>1, LocalValues, ReturnTypes DEF IInv, TypeOK, LocalTypes, SharedTypes, InitLoadTable, Goto
  <2>3. FirstTableOnce'
    BY <1>1 DEF IInv, TypeOK, SharedTypes, LocalTypes, FirstTableOnce, BeforeTable, Locals, InitLoadTable, Goto, Return, Set
  <2>4. BeforeTable'
    BY <1>1 DEF IInv, TypeOK, SharedTypes, LocalTypes, FirstTableOnce, BeforeTable, Locals, InitLoadTable, Goto, Return, Set
  <2>5. ASSUME NEW u \in Threads PROVE Locals(u)'
    BY <1>1 DEF IInv, TypeOK, SharedTypes, LocalTypes, BeforeTable, Locals, InitLoadTable, Goto, Return, Set
  <2>6. ASSUME NEW u \in Threads PROVE Sweep(u)'
    <3>1. CASE u = t
      BY <1>1, <3>1 DEF IInv, TypeOK, LocalTypes, Sweep, InitLoadTable, Goto, Return, Set
    <3>2. CASE u # t
      BY <1>1, <3>2 DEF IInv, TypeOK, LocalTypes, Sweep, InitLoadTable, Goto, Return, Set
    <3> QED
      BY <3>1, <3>2
  <2> QED
    BY <2>1, <2>2, <2>3, <2>4, <2>5, <2>6 DEF IInv, TypeOK
<1>2. CASE InitLoadSizeCtl(t)
  <2>1. SharedTypes'
    BY <1>2, LocalValues DEF IInv, TypeOK, SharedTypes, LocalTypes, Locals, InitLoadSizeCtl
  <2>2. LocalTypes'
    <3>1. {"InitLoadTable", "InitClaim"} \subseteq Pcs
      BY DEF Pcs
    <3> QED
      BY <1>2, <3>1, LocalValues DEF IInv, TypeOK, LocalTypes, SharedTypes, InitLoadSizeCtl, Goto, Set
  <2>3. FirstTableOnce'
    BY <1>2 DEF IInv, TypeOK, SharedTypes, LocalTypes, FirstTableOnce, BeforeTable, Locals, InitLoadSizeCtl, Goto, Set
  <2>4. BeforeTable'
    BY <1>2 DEF IInv, TypeOK, SharedTypes, LocalTypes, FirstTableOnce, BeforeTable, Locals, InitLoadSizeCtl, Goto, Set
  <2>5. ASSUME NEW u \in Threads PROVE Locals(u)'
    BY <1>2 DEF IInv, TypeOK, SharedTypes, LocalTypes, BeforeTable, Locals, InitLoadSizeCtl, Goto, Set
  <2>6. ASSUME NEW u \in Threads PROVE Sweep(u)'
    BY <1>2 DEF IInv, TypeOK, SharedTypes, LocalTypes, Locals, Sweep, InitLoadSizeCtl, Goto, Set
  <2> QED
    BY <2>1, <2>2, <2>3, <2>4, <2>5, <2>6 DEF IInv, TypeOK
<1>3. CASE InitClaim(t)
  <2>1. SharedTypes'
    BY <1>3, LocalValues DEF IInv, TypeOK, SharedTypes, LocalTypes, Locals, InitClaim
  <2>2. LocalTypes'
    <3>1. {"InitRecheck", "InitLoadTable"} \subseteq Pcs
      BY DEF Pcs
    <3> QED
      BY <1>3, <3>1, LocalValues DEF IInv, TypeOK, LocalTypes, SharedTypes, InitClaim, Goto
  <2>3. FirstTableOnce'
    BY <1>3 DEF IInv, TypeOK, SharedTypes, LocalTypes, FirstTableOnce, BeforeTable, Locals, InitClaim, Goto
  <2>4. BeforeTable'
    BY <1>3 DEF IInv, TypeOK, SharedTypes, LocalTypes, FirstTableOnce, BeforeTable, Locals, InitClaim, Goto
  <2>5. ASSUME NEW u \in Threads PROVE Locals(u)'
    BY <1>3 DEF IInv, TypeOK, SharedTypes, LocalTypes, BeforeTable, Locals, InitClaim, Goto
  <2>6. ASSUME NEW u \in Threads PROVE Sweep(u)'
    BY <1>3 DEF IInv, TypeOK, SharedTypes, LocalTypes, Locals, Sweep, InitClaim, Goto
  <2> QED
    BY <2>1, <2>2, <2>3, <2>4, <2>5, <2>6 DEF IInv, TypeOK
<1>4. CASE InitRecheck(t)
  <2>1. SharedTypes'
    BY <1>4, LocalValues DEF IInv, TypeOK, SharedTypes, LocalTypes, Locals, InitRecheck
  <2>2. LocalTypes'
    <3>1. {"InitStoreTable", "InitStoreSizeCtl"} \subseteq Pcs
      BY DEF Pcs
    <3> QED
      BY <1>4, <3>1, LocalValues DEF IInv, TypeOK, LocalTypes, SharedTypes, InitRecheck, Goto, Set
  <2>3. FirstTableOnce'
    BY <1>4 DEF IInv, TypeOK, SharedTypes, LocalTypes, FirstTableOnce, BeforeTable, Locals, InitRecheck, Goto, Set
  <2>4. BeforeTable'
    BY <1>4 DEF IInv, TypeOK, SharedTypes, LocalTypes, FirstTableOnce, BeforeTable, Locals, InitRecheck, Goto, Set
  <2>5. ASSUME NEW u \in Threads PROVE Locals(u)'
    BY <1>4 DEF IInv, TypeOK, SharedTypes, LocalTypes, BeforeTable, Locals, InitRecheck, Goto, Set
  <2>6. ASSUME NEW u \in Threads PROVE Sweep(u)'
    BY <1>4 DEF IInv, TypeOK, SharedTypes, LocalTypes, Locals, Sweep, InitRecheck, Goto, Set
  <2> QED
    BY <2>1, <2>2, <2>3, <2>4, <2>5, <2>6 DEF IInv, TypeOK
<1>5. CASE InitStoreTable(t)
  <2>0. ld[t] = 0 /\ InitCap \in Caps /\ InitCap \in Nat
    <3>1. ld[t] = 0 /\ InitCap \in Caps
      BY <1>5 DEF IInv, FirstTableOnce, BeforeTable, Locals, InitStoreTable
    <3> QED
      BY <3>1, Arithmetic
  <2>1. SharedTypes'
    BY <1>5, <2>0 DEF IInv, TypeOK, SharedTypes, InitStoreTable
  <2>2. LocalTypes'
    <3>1. {"InitStoreSizeCtl"} \subseteq Pcs
      BY DEF Pcs
    <3> QED
      BY <1>5, <2>0, <3>1, Arithmetic DEF IInv, TypeOK, LocalTypes, InitStoreTable, Goto, Set
  <2>3. FirstTableOnce'
    BY <1>5 DEF IInv, TypeOK, SharedTypes, LocalTypes, FirstTableOnce, BeforeTable, Locals, InitStoreTable, Goto, Set
  <2>4. BeforeTable'
    BY <1>5 DEF IInv, TypeOK, SharedTypes, LocalTypes, FirstTableOnce, BeforeTable, Locals, InitStoreTable, Goto, Set
  <2>5. ASSUME NEW u \in Threads PROVE Locals(u)'
    BY <1>5 DEF IInv, TypeOK, SharedTypes, LocalTypes, BeforeTable, Locals, InitStoreTable, Goto, Set
  <2>6. ASSUME NEW u \in Threads PROVE Sweep(u)'
    BY <1>5 DEF IInv, TypeOK, SharedTypes, LocalTypes, Locals, Sweep, InitStoreTable, Goto, Set
  <2> QED
    BY <2>1, <2>2, <2>3, <2>4, <2>5, <2>6 DEF IInv, TypeOK
<1>6. CASE InitStoreSizeCtl(t)
  <2>1. SharedTypes'
    BY <1>6, LocalValues DEF IInv, TypeOK, SharedTypes, LocalTypes, Locals, InitStoreSizeCtl
  <2>2. LocalTypes'
    <3> QED
      BY <1>6, LocalValues, ReturnTypes DEF IInv, TypeOK, LocalTypes, SharedTypes, InitStoreSizeCtl
  <2>3. FirstTableOnce'
    BY <1>6 DEF IInv, TypeOK, SharedTypes, LocalTypes, FirstTableOnce, BeforeTable, Locals, InitStoreSizeCtl, Return, Goto, Set
  <2>4. BeforeTable'
    BY <1>6 DEF IInv, TypeOK, SharedTypes, LocalTypes, FirstTableOnce, BeforeTable, Locals, InitStoreSizeCtl, Return, Goto, Set
  <2>5. ASSUME NEW u \in Threads PROVE Locals(u)'
    BY <1>6 DEF IInv, TypeOK, SharedTypes, LocalTypes, BeforeTable, Locals, InitStoreSizeCtl, Return, Goto, Set
  <2>6. ASSUME NEW u \in Threads PROVE Sweep(u)'
    <3>1. CASE u = t
      BY <1>6, <3>1 DEF IInv, TypeOK, LocalTypes, Sweep, InitStoreSizeCtl, Return, Goto, Set
    <3>2. CASE u # t
      BY <1>6, <3>2 DEF IInv, TypeOK, LocalTypes, Sweep, InitStoreSizeCtl, Return, Goto, Set
    <3> QED
      BY <3>1, <3>2
  <2> QED
    BY <2>1, <2>2, <2>3, <2>4, <2>5, <2>6 DEF IInv, TypeOK
<1> QED
  BY <1>1, <1>2, <1>3, <1>4, <1>5, <1>6 DEF InitTable

-----------------------------------------------------------------------------
(* add_count. *)
LEMMA AddCountInv ==
    ASSUME IInv, NEW t \in Threads, AddCount(t)
    PROVE  IInv'
<1>1. CASE AddLoadSizeCtl(t)
  <2>1. SharedTypes'
    BY <1>1, LocalValues DEF IInv, TypeOK, SharedTypes, LocalTypes, Locals, AddLoadSizeCtl
  <2>2. LocalTypes'
    <3>1. {"AddLoadTable"} \subseteq Pcs
      BY DEF Pcs
    <3> QED
      BY <1>1, <3>1, LocalValues, ReturnTypes DEF IInv, TypeOK, LocalTypes, SharedTypes, AddLoadSizeCtl, Goto, Set
  <2>3. FirstTableOnce'
    BY <1>1 DEF IInv, TypeOK, SharedTypes, LocalTypes, FirstTableOnce, BeforeTable, Locals, AddLoadSizeCtl, Goto, Set, Return
  <2>4. BeforeTable'
    <3>1. CASE arg[t] < sizeCtl
      BY <1>1, <3>1 DEF IInv, TypeOK, SharedTypes, LocalTypes, BeforeTable, AddLoadSizeCtl, Return, Goto, Set
    <3>2. CASE ~(arg[t] < sizeCtl)
      BY <1>1, <3>2 DEF IInv, TypeOK, SharedTypes, LocalTypes, BeforeTable, AddLoadSizeCtl, Goto, Set
    <3> QED
      BY <3>1, <3>2
  <2>5. ASSUME NEW u \in Threads PROVE Locals(u)'
    BY <1>1 DEF IInv, TypeOK, SharedTypes, LocalTypes, BeforeTable, Locals, AddLoadSizeCtl, Goto, Set, Return
  <2>6. ASSUME NEW u \in Threads PROVE Sweep(u)'
    <3>1. CASE u = t
      BY <1>1, <3>1 DEF IInv, TypeOK, LocalTypes, Sweep, AddLoadSizeCtl, Goto, Set, Return
    <3>2. CASE u # t
      BY <1>1, <3>2 DEF IInv, TypeOK, LocalTypes, Sweep, AddLoadSizeCtl, Goto, Set, Return
    <3> QED
      BY <3>1, <3>2
  <2> QED
    BY <2>1, <2>2, <2>3, <2>4, <2>5, <2>6 DEF IInv, TypeOK
<1>2. CASE AddLoadTable(t)
  <2>1. SharedTypes'
    BY <1>2, LocalValues, Arithmetic DEF IInv, TypeOK, SharedTypes, LocalTypes, Locals, AddLoadTable
  <2>2. LocalTypes'
    <3>1. {"AddLoadNext", "AddStart"} \subseteq Pcs
      BY DEF Pcs
    <3>2. \/ Return(t, Null)
          \/ /\ Goto(t, "AddLoadNext") \/ Goto(t, "AddStart")
             /\ tab' = Set(tab, t, table)
             /\ UNCHANGED <<rt, nt, ld, loop, arg>>
      BY <1>2 DEF AddLoadTable
    <3>3. table \in Caps \cup {Null} /\ LocalTypes
      BY DEF IInv, TypeOK, SharedTypes
    <3>4. CASE Return(t, Null)
      BY <3>3, <3>4, ReturnTypes
    <3>5. CASE ~Return(t, Null)
      BY <3>1, <3>2, <3>3, <3>5 DEF LocalTypes, Goto, Set
    <3> QED
      BY <3>4, <3>5
  <2>3. FirstTableOnce'
    BY <1>2 DEF IInv, TypeOK, SharedTypes, LocalTypes, FirstTableOnce, BeforeTable, Locals, AddLoadTable, Goto, Set, Return
  <2>4. BeforeTable'
    BY <1>2 DEF IInv, TypeOK, SharedTypes, LocalTypes, FirstTableOnce, BeforeTable, Locals, AddLoadTable, Goto, Set, Return
  <2>5. ASSUME NEW u \in Threads PROVE Locals(u)'
    <3> DEFINE stop ==
            \/ table = Null
            \/ table >= MaxCap
            \/ ld[t] < 0 /\ ld[t] \in {ResizeStamp(table) + MaxResizers, ResizeStamp(table) + 1}
    <3>1. CASE u # t
      BY <1>2, <3>1 DEF IInv, TypeOK, LocalTypes, Locals, AddLoadTable, Return, Goto, Set
    <3>2. CASE u = t /\ stop
      BY <1>2, <3>2 DEF IInv, TypeOK, LocalTypes, Locals, AddLoadTable, Return, Goto, Set
    <3>3. CASE u = t /\ ~stop
      <4>1. table \in Caps \cup {Null}
        BY DEF IInv, TypeOK, SharedTypes
      <4>2. MaxCap \in Nat /\ table \in Nat
        BY <4>1, Arithmetic
      <4> QED
        BY <1>2, <3>3, <4>2 DEF IInv, TypeOK, LocalTypes, Locals, AddLoadTable, Goto, Set
    <3> QED
      BY <3>1, <3>2, <3>3
  <2>6. ASSUME NEW u \in Threads PROVE Sweep(u)'
    <3>1. CASE u = t
      BY <1>2, <3>1 DEF IInv, TypeOK, LocalTypes, Sweep, AddLoadTable, Goto, Set, Return
    <3>2. CASE u # t
      BY <1>2, <3>2 DEF IInv, TypeOK, LocalTypes, Sweep, AddLoadTable, Goto, Set, Return
    <3> QED
      BY <3>1, <3>2
  <2> QED
    BY <2>1, <2>2, <2>3, <2>4, <2>5, <2>6 DEF IInv, TypeOK
<1>3. CASE AddLoadNext(t)
  <2>1. SharedTypes'
    BY <1>3, LocalValues DEF IInv, TypeOK, SharedTypes, LocalTypes, Locals, AddLoadNext
  <2>2. LocalTypes'
    <3>1. {"AddLoadIndex"} \subseteq Pcs
      BY DEF Pcs
    <3> QED
      BY <1>3, <3>1, LocalValues, ReturnTypes DEF IInv, TypeOK, LocalTypes, SharedTypes, AddLoadNext, Goto, Set
  <2>3. FirstTableOnce'
    BY <1>3 DEF IInv, TypeOK, SharedTypes, LocalTypes, FirstTableOnce, BeforeTable, Locals, AddLoadNext, Goto, Set, Return
  <2>4. BeforeTable'
    BY <1>3 DEF IInv, TypeOK, SharedTypes, LocalTypes, FirstTableOnce, BeforeTable, Locals, AddLoadNext, Goto, Set, Return
  <2>5. ASSUME NEW u \in Threads PROVE Locals(u)'
    BY <1>3 DEF IInv, TypeOK, SharedTypes, LocalTypes, BeforeTable, Locals, AddLoadNext, Goto, Set, Return
  <2>6. ASSUME NEW u \in Threads PROVE Sweep(u)'
    <3>1. CASE u = t
      BY <1>3, <3>1 DEF IInv, TypeOK, LocalTypes, Sweep, AddLoadNext, Goto, Set, Return
    <3>2. CASE u # t
      BY <1>3, <3>2 DEF IInv, TypeOK, LocalTypes, Sweep, AddLoadNext, Goto, Set, Return
    <3> QED
      BY <3>1, <3>2
  <2> QED
    BY <2>1, <2>2, <2>3, <2>4, <2>5, <2>6 DEF IInv, TypeOK
<1>4. CASE AddLoadIndex(t)
  <2>1. SharedTypes'
    BY <1>4, LocalValues DEF IInv, TypeOK, SharedTypes, LocalTypes, Locals, AddLoadIndex
  <2>2. LocalTypes'
    <3>1. {"AddJoin"} \subseteq Pcs
      BY DEF Pcs
    <3> QED
      BY <1>4, <3>1, LocalValues, ReturnTypes DEF IInv, TypeOK, LocalTypes, SharedTypes, AddLoadIndex, Goto
  <2>3. FirstTableOnce'
    BY <1>4 DEF IInv, TypeOK, SharedTypes, LocalTypes, FirstTableOnce, BeforeTable, Locals, AddLoadIndex, Goto, Return, Set
  <2>4. BeforeTable'
    BY <1>4 DEF IInv, TypeOK, SharedTypes, LocalTypes, FirstTableOnce, BeforeTable, Locals, AddLoadIndex, Goto, Return, Set
  <2>5. ASSUME NEW u \in Threads PROVE Locals(u)'
    BY <1>4 DEF IInv, TypeOK, SharedTypes, LocalTypes, BeforeTable, Locals, AddLoadIndex, Goto, Return, Set
  <2>6. ASSUME NEW u \in Threads PROVE Sweep(u)'
    <3>1. CASE u = t
      BY <1>4, <3>1 DEF IInv, TypeOK, LocalTypes, Sweep, AddLoadIndex, Goto, Return, Set
    <3>2. CASE u # t
      BY <1>4, <3>2 DEF IInv, TypeOK, LocalTypes, Sweep, AddLoadIndex, Goto, Return, Set
    <3> QED
      BY <3>1, <3>2
  <2> QED
    BY <2>1, <2>2, <2>3, <2>4, <2>5, <2>6 DEF IInv, TypeOK
<1>5. CASE AddJoin(t)
  <2>1. SharedTypes'
    BY <1>5, LocalValues DEF IInv, TypeOK, SharedTypes, LocalTypes, Locals, AddJoin
  <2>2. LocalTypes'
    <3>1. {"AddReload"} \subseteq Pcs
      BY DEF Pcs
    <3> QED
      BY <1>5, <3>1, LocalValues, EnterTypes DEF IInv, TypeOK, LocalTypes, SharedTypes, AddJoin, Goto
  <2>3. FirstTableOnce'
    BY <1>5 DEF IInv, TypeOK, SharedTypes, LocalTypes, FirstTableOnce, BeforeTable, Locals, AddJoin, Goto, EnterTransfer, Set
  <2>4. BeforeTable'
    BY <1>5 DEF IInv, TypeOK, SharedTypes, LocalTypes, FirstTableOnce, BeforeTable, Locals, AddJoin, Goto, EnterTransfer, Set
  <2>5. ASSUME NEW u \in Threads PROVE Locals(u)'
    BY <1>5 DEF IInv, TypeOK, SharedTypes, LocalTypes, BeforeTable, Locals, AddJoin, Goto, EnterTransfer, Set
  <2>6. ASSUME NEW u \in Threads PROVE Sweep(u)'
    BY <1>5 DEF IInv, TypeOK, SharedTypes, LocalTypes, Locals, Sweep, AddJoin, Goto, EnterTransfer, Set
  <2> QED
    BY <2>1, <2>2, <2>3, <2>4, <2>5, <2>6 DEF IInv, TypeOK
<1>6. CASE AddStart(t)
  <2>1. SharedTypes'
    BY <1>6, LocalValues, Arithmetic DEF IInv, TypeOK, SharedTypes, LocalTypes, Locals, AddStart
  <2>2. LocalTypes'
    <3>1. {"AddReload"} \subseteq Pcs
      BY DEF Pcs
    <3> QED
      BY <1>6, <3>1, LocalValues, EnterTypes, Arithmetic DEF IInv, TypeOK, LocalTypes, SharedTypes, AddStart, Goto
  <2>3. FirstTableOnce'
    BY <1>6 DEF IInv, TypeOK, SharedTypes, LocalTypes, FirstTableOnce, BeforeTable, Locals, AddStart, Goto, EnterTransfer, Set
  <2>4. BeforeTable'
    BY <1>6 DEF IInv, TypeOK, SharedTypes, LocalTypes, FirstTableOnce, BeforeTable, Locals, AddStart, Goto, EnterTransfer, Set
  <2>5. ASSUME NEW u \in Threads PROVE Locals(u)'
    BY <1>6 DEF IInv, TypeOK, SharedTypes, LocalTypes, BeforeTable, Locals, AddStart, Goto, EnterTransfer, Set
  <2>6. ASSUME NEW u \in Threads PROVE Sweep(u)'
    BY <1>6 DEF IInv, TypeOK, SharedTypes, LocalTypes, Locals, Sweep, AddStart, Goto, EnterTransfer, Set
  <2> QED
    BY <2>1, <2>2, <2>3, <2>4, <2>5, <2>6 DEF IInv, TypeOK
<1>7. CASE AddReload(t)
  <2>1. SharedTypes'
    BY <1>7, LocalValues DEF IInv, TypeOK, SharedTypes, LocalTypes, Locals, AddReload
  <2>2. LocalTypes'
    <3>1. {"AddLoadSizeCtl"} \subseteq Pcs
      BY DEF Pcs
    <3> QED
      BY <1>7, <3>1, LocalValues DEF IInv, TypeOK, LocalTypes, SharedTypes, AddReload, Goto, Set
  <2>3. FirstTableOnce'
    BY <1>7 DEF IInv, TypeOK, SharedTypes, LocalTypes, FirstTableOnce, BeforeTable, Locals, AddReload, Goto, Set
  <2>4. BeforeTable'
    BY <1>7 DEF IInv, TypeOK, SharedTypes, LocalTypes, FirstTableOnce, BeforeTable, Locals, AddReload, Goto, Set
  <2>5. ASSUME NEW u \in Threads PROVE Locals(u)'
    BY <1>7 DEF IInv, TypeOK, SharedTypes, LocalTypes, BeforeTable, Locals, AddReload, Goto, Set
  <2>6. ASSUME NEW u \in Threads PROVE Sweep(u)'
    BY <1>7 DEF IInv, TypeOK, SharedTypes, LocalTypes, Locals, Sweep, AddReload, Goto, Set
  <2> QED
    BY <2>1, <2>2, <2>3, <2>4, <2>5, <2>6 DEF IInv, TypeOK
<1> QED
  BY <1>1, <1>2, <1>3, <1>4, <1>5, <1>6, <1>7 DEF AddCount

-----------------------------------------------------------------------------
(* help_transfer. *)
LEMMA HelpTransferInv ==
    ASSUME IInv, NEW t \in Threads, HelpTransfer(t)
    PROVE  IInv'
<1>1. CASE HelpForward(t)
  <2>1. SharedTypes'
    BY <1>1, LocalValues DEF IInv, TypeOK, SharedTypes, LocalTypes, Locals, HelpForward
  <2>2. LocalTypes'
    <3>1. {"HelpCheckNext"} \subseteq Pcs
      BY DEF Pcs
    <3>2. tab[t] \in Caps
      BY <1>1, LocalValues DEF IInv, TypeOK, Locals, HelpForward
    <3>3. fwd[tab[t]] \in Caps \cup {Null}
      BY <3>2 DEF IInv, TypeOK, SharedTypes
    <3>4. CASE fwd[tab[t]] = Null
      BY <1>1, <3>2, <3>4, ReturnTypes DEF IInv, TypeOK, HelpForward
    <3>5. CASE fwd[tab[t]] # Null
      BY <1>1, <3>1, <3>3, <3>5 DEF IInv, TypeOK, LocalTypes, HelpForward, Goto, Set
    <3> QED
      BY <3>4, <3>5
  <2>3. FirstTableOnce'
    BY <1>1 DEF IInv, TypeOK, SharedTypes, LocalTypes, FirstTableOnce, BeforeTable, Locals, HelpForward, Goto, Set, Return
  <2>4. BeforeTable'
    BY <1>1 DEF IInv, TypeOK, SharedTypes, LocalTypes, FirstTableOnce, BeforeTable, Locals, HelpForward, Goto, Set, Return
  <2>5. ASSUME NEW u \in Threads PROVE Locals(u)'
    BY <1>1 DEF IInv, TypeOK, SharedTypes, LocalTypes, BeforeTable, Locals, HelpForward, Goto, Set, Return
  <2>6. ASSUME NEW u \in Threads PROVE Sweep(u)'
    <3>1. CASE u = t
      BY <1>1, <3>1 DEF IInv, TypeOK, LocalTypes, Sweep, HelpForward, Goto, Set, Return
    <3>2. CASE u # t
      BY <1>1, <3>2 DEF IInv, TypeOK, LocalTypes, Sweep, HelpForward, Goto, Set, Return
    <3> QED
      BY <3>1, <3>2
  <2> QED
    BY <2>1, <2>2, <2>3, <2>4, <2>5, <2>6 DEF IInv, TypeOK
<1>2. CASE HelpCheckNext(t)
  <2>1. SharedTypes'
    BY <1>2, LocalValues DEF IInv, TypeOK, SharedTypes, LocalTypes, Locals, HelpCheckNext
  <2>2. LocalTypes'
    <3>1. {"HelpCheckTable"} \subseteq Pcs
      BY DEF Pcs
    <3> QED
      BY <1>2, <3>1, LocalValues, ReturnTypes DEF IInv, TypeOK, LocalTypes, SharedTypes, HelpCheckNext, Goto
  <2>3. FirstTableOnce'
    BY <1>2 DEF IInv, TypeOK, SharedTypes, LocalTypes, FirstTableOnce, BeforeTable, Locals, HelpCheckNext, Goto, Return, Set
  <2>4. BeforeTable'
    BY <1>2 DEF IInv, TypeOK, SharedTypes, LocalTypes, FirstTableOnce, BeforeTable, Locals, HelpCheckNext, Goto, Return, Set
  <2>5. ASSUME NEW u \in Threads PROVE Locals(u)'
    BY <1>2 DEF IInv, TypeOK, SharedTypes, LocalTypes, BeforeTable, Locals, HelpCheckNext, Goto, Return, Set
  <2>6. ASSUME NEW u \in Threads PROVE Sweep(u)'
    <3>1. CASE u = t
      BY <1>2, <3>1 DEF IInv, TypeOK, LocalTypes, Sweep, HelpCheckNext, Goto, Return, Set
    <3>2. CASE u # t
      BY <1>2, <3>2 DEF IInv, TypeOK, LocalTypes, Sweep, HelpCheckNext, Goto, Return, Set
    <3> QED
      BY <3>1, <3>2
  <2> QED
    BY <2>1, <2>2, <2>3, <2>4, <2>5, <2>6 DEF IInv, TypeOK
<1>3. CASE HelpCheckTable(t)
  <2>1. SharedTypes'
    BY <1>3, LocalValues DEF IInv, TypeOK, SharedTypes, LocalTypes, Locals, HelpCheckTable
  <2>2. LocalTypes'
    <3>1. {"HelpLoadSizeCtl"} \subseteq Pcs
      BY DEF Pcs
    <3> QED
      BY <1>3, <3>1, LocalValues, ReturnTypes DEF IInv, TypeOK, LocalTypes, SharedTypes, HelpCheckTable, Goto
  <2>3. FirstTableOnce'
    BY <1>3 DEF IInv, TypeOK, SharedTypes, LocalTypes, FirstTableOnce, BeforeTable, Locals, HelpCheckTable, Goto, Return, Set
  <2>4. BeforeTable'
    BY <1>3 DEF IInv, TypeOK, SharedTypes, LocalTypes, FirstTableOnce, BeforeTable, Locals, HelpCheckTable, Goto, Return, Set
  <2>5. ASSUME NEW u \in Threads PROVE Locals(u)'
    BY <1>3 DEF IInv, TypeOK, SharedTypes, LocalTypes, BeforeTable, Locals, HelpCheckTable, Goto, Return, Set
  <2>6. ASSUME NEW u \in Threads PROVE Sweep(u)'
    <3>1. CASE u = t
      BY <1>3, <3>1 DEF IInv, TypeOK, LocalTypes, Sweep, HelpCheckTable, Goto, Return, Set
    <3>2. CASE u # t
      BY <1>3, <3>2 DEF IInv, TypeOK, LocalTypes, Sweep, HelpCheckTable, Goto, Return, Set
    <3> QED
      BY <3>1, <3>2
  <2> QED
    BY <2>1, <2>2, <2>3, <2>4, <2>5, <2>6 DEF IInv, TypeOK
<1>4. CASE HelpLoadSizeCtl(t)
  <2>1. SharedTypes'
    BY <1>4, LocalValues, Arithmetic DEF IInv, TypeOK, SharedTypes, LocalTypes, Locals, HelpLoadSizeCtl
  <2>2. LocalTypes'
    <3>1. {"HelpLoadIndex"} \subseteq Pcs
      BY DEF Pcs
    <3> QED
      BY <1>4, <3>1, LocalValues, ReturnTypes, Arithmetic DEF IInv, TypeOK, LocalTypes, SharedTypes, HelpLoadSizeCtl, Goto, Set
  <2>3. FirstTableOnce'
    BY <1>4 DEF IInv, TypeOK, SharedTypes, LocalTypes, FirstTableOnce, BeforeTable, Locals, HelpLoadSizeCtl, Goto, Set, Return
  <2>4. BeforeTable'
    BY <1>4 DEF IInv, TypeOK, SharedTypes, LocalTypes, FirstTableOnce, BeforeTable, Locals, HelpLoadSizeCtl, Goto, Set, Return
  <2>5. ASSUME NEW u \in Threads PROVE Locals(u)'
    BY <1>4 DEF IInv, TypeOK, SharedTypes, LocalTypes, BeforeTable, Locals, HelpLoadSizeCtl, Goto, Set, Return
  <2>6. ASSUME NEW u \in Threads PROVE Sweep(u)'
    <3>1. CASE u = t
      BY <1>4, <3>1 DEF IInv, TypeOK, LocalTypes, Sweep, HelpLoadSizeCtl, Return, Goto, Set
    <3>2. CASE u # t
      BY <1>4, <3>2 DEF IInv, TypeOK, LocalTypes, Sweep, HelpLoadSizeCtl, Return, Goto, Set
    <3> QED
      BY <3>1, <3>2
  <2> QED
    BY <2>1, <2>2, <2>3, <2>4, <2>5, <2>6 DEF IInv, TypeOK
<1>5. CASE HelpLoadIndex(t)
  <2>1. SharedTypes'
    BY <1>5, LocalValues DEF IInv, TypeOK, SharedTypes, LocalTypes, Locals, HelpLoadIndex
  <2>2. LocalTypes'
    <3>1. {"HelpJoin"} \subseteq Pcs
      BY DEF Pcs
    <3> QED
      BY <1>5, <3>1, LocalValues, ReturnTypes DEF IInv, TypeOK, LocalTypes, SharedTypes, HelpLoadIndex, Goto
  <2>3. FirstTableOnce'
    BY <1>5 DEF IInv, TypeOK, SharedTypes, LocalTypes, FirstTableOnce, BeforeTable, Locals, HelpLoadIndex, Goto, Return, Set
  <2>4. BeforeTable'
    BY <1>5 DEF IInv, TypeOK, SharedTypes, LocalTypes, FirstTableOnce, BeforeTable, Locals, HelpLoadIndex, Goto, Return, Set
  <2>5. ASSUME NEW u \in Threads PROVE Locals(u)'
    BY <1>5 DEF IInv, TypeOK, SharedTypes, LocalTypes, BeforeTable, Locals, HelpLoadIndex, Goto, Return, Set
  <2>6. ASSUME NEW u \in Threads PROVE Sweep(u)'
    <3>1. CASE u = t
      BY <1>5, <3>1 DEF IInv, TypeOK, LocalTypes, Sweep, HelpLoadIndex, Goto, Return, Set
    <3>2. CASE u # t
      BY <1>5, <3>2 DEF IInv, TypeOK, LocalTypes, Sweep, HelpLoadIndex, Goto, Return, Set
    <3> QED
      BY <3>1, <3>2
  <2> QED
    BY <2>1, <2>2, <2>3, <2>4, <2>5, <2>6 DEF IInv, TypeOK
<1>6. CASE HelpJoin(t)
  <2>1. SharedTypes'
    BY <1>6, LocalValues DEF IInv, TypeOK, SharedTypes, LocalTypes, Locals, HelpJoin
  <2>2. LocalTypes'
    <3>1. {"HelpCheckNext"} \subseteq Pcs
      BY DEF Pcs
    <3> QED
      BY <1>6, <3>1, LocalValues, EnterTypes DEF IInv, TypeOK, LocalTypes, SharedTypes, HelpJoin, Goto
  <2>3. FirstTableOnce'
    BY <1>6 DEF IInv, TypeOK, SharedTypes, LocalTypes, FirstTableOnce, BeforeTable, Locals, HelpJoin, Goto, EnterTransfer, Set
  <2>4. BeforeTable'
    BY <1>6 DEF IInv, TypeOK, SharedTypes, LocalTypes, FirstTableOnce, BeforeTable, Locals, HelpJoin, Goto, EnterTransfer, Set
  <2>5. ASSUME NEW u \in Threads PROVE Locals(u)'
    BY <1>6 DEF IInv, TypeOK, SharedTypes, LocalTypes, BeforeTable, Locals, HelpJoin, Goto, EnterTransfer, Set
  <2>6. ASSUME NEW u \in Threads PROVE Sweep(u)'
    BY <1>6 DEF IInv, TypeOK, SharedTypes, LocalTypes, Locals, Sweep, HelpJoin, Goto, EnterTransfer, Set
  <2> QED
    BY <2>1, <2>2, <2>3, <2>4, <2>5, <2>6 DEF IInv, TypeOK
<1> QED
  BY <1>1, <1>2, <1>3, <1>4, <1>5, <1>6 DEF HelpTransfer

-----------------------------------------------------------------------------
(* try_presize. *)
LEMMA TryPresizeInv ==
    ASSUME IInv, NEW t \in Threads, TryPresize(t)
    PROVE  IInv'
<1>1. CASE PresizeLoad(t)
  <2>1. SharedTypes'
    BY <1>1, LocalValues DEF IInv, TypeOK, SharedTypes, LocalTypes, Locals, PresizeLoad
  <2>2. LocalTypes'
    <3>1. {"PresizeLoadTable"} \subseteq Pcs
      BY DEF Pcs
    <3> QED
      BY <1>1, <3>1, LocalValues, ReturnTypes DEF IInv, TypeOK, LocalTypes, SharedTypes, PresizeLoad, Goto, Set
  <2>3. FirstTableOnce'
    BY <1>1 DEF IInv, TypeOK, SharedTypes, LocalTypes, FirstTableOnce, BeforeTable, Locals, PresizeLoad, Goto, Set, Return
  <2>4. BeforeTable'
    BY <1>1 DEF IInv, TypeOK, SharedTypes, LocalTypes, FirstTableOnce, BeforeTable, Locals, PresizeLoad, Goto, Set, Return
  <2>5. ASSUME NEW u \in Threads PROVE Locals(u)'
    BY <1>1 DEF IInv, TypeOK, SharedTypes, LocalTypes, BeforeTable, Locals, PresizeLoad, Goto, Set, Return
  <2>6. ASSUME NEW u \in Threads PROVE Sweep(u)'
    <3>1. CASE u = t
      BY <1>1, <3>1 DEF IInv, TypeOK, LocalTypes, Sweep, PresizeLoad, Goto, Set, Return
    <3>2. CASE u # t
      BY <1>1, <3>2 DEF IInv, TypeOK, LocalTypes, Sweep, PresizeLoad, Goto, Set, Return
    <3> QED
      BY <3>1, <3>2
  <2> QED
    BY <2>1, <2>2, <2>3, <2>4, <2>5, <2>6 DEF IInv, TypeOK
<1>2. CASE PresizeLoadTable(t)
  <2>1. SharedTypes'
    BY <1>2, LocalValues DEF IInv, TypeOK, SharedTypes, LocalTypes, Locals, PresizeLoadTable
  <2>2. LocalTypes'
    <3>1. {"PresizeClaim", "PresizeCheckTable"} \subseteq Pcs
      BY DEF Pcs
    <3>2. CASE table # Null /\ (arg[t] <= ld[t] \/ table >= MaxCap)
      BY <1>2, <3>2, ReturnTypes DEF IInv, TypeOK, PresizeLoadTable
    <3>3. CASE ~(table # Null /\ (arg[t] <= ld[t] \/ table >= MaxCap))
      BY <1>2, <3>1, <3>3 DEF IInv, TypeOK, SharedTypes, LocalTypes, PresizeLoadTable, Goto, Set
    <3> QED
      BY <3>2, <3>3
  <2>3. FirstTableOnce'
    BY <1>2 DEF IInv, TypeOK, SharedTypes, LocalTypes, FirstTableOnce, BeforeTable, Locals, PresizeLoadTable, Goto, Set, Return
  <2>4. BeforeTable'
    BY <1>2 DEF IInv, TypeOK, SharedTypes, LocalTypes, FirstTableOnce, BeforeTable, Locals, PresizeLoadTable, Goto, Set, Return
  <2>5. ASSUME NEW u \in Threads PROVE Locals(u)'
    <3> DEFINE stop ==
            table # Null /\ (arg[t] <= ld[t] \/ table >= MaxCap)
    <3>1. CASE u # t
      BY <1>2, <3>1 DEF IInv, TypeOK, LocalTypes, Locals, PresizeLoadTable, Return, Goto, Set
    <3>2. CASE u = t /\ stop
      BY <1>2, <3>2 DEF IInv, TypeOK, LocalTypes, Locals, PresizeLoadTable, Return, Goto, Set
    <3>3. CASE u = t /\ ~stop
      <4>1. table \in Caps \cup {Null}
        BY DEF IInv, TypeOK, SharedTypes
      <4>2. MaxCap \in Nat /\ table \in Nat
        BY <4>1, Arithmetic
      <4> QED
        BY <1>2, <3>3, <4>2 DEF IInv, TypeOK, LocalTypes, Locals, PresizeLoadTable, Goto, Set
    <3> QED
      BY <3>1, <3>2, <3>3
  <2>6. ASSUME NEW u \in Threads PROVE Sweep(u)'
    <3>1. CASE u = t
      BY <1>2, <3>1 DEF IInv, TypeOK, LocalTypes, Sweep, PresizeLoadTable, Goto, Set, Return
    <3>2. CASE u # t
      BY <1>2, <3>2 DEF IInv, TypeOK, LocalTypes, Sweep, PresizeLoadTable, Goto, Set, Return
    <3> QED
      BY <3>1, <3>2
  <2> QED
    BY <2>1, <2>2, <2>3, <2>4, <2>5, <2>6 DEF IInv, TypeOK
<1>3. CASE PresizeClaim(t)
  <2>1. SharedTypes'
    BY <1>3, LocalValues DEF IInv, TypeOK, SharedTypes, LocalTypes, Locals, PresizeClaim
  <2>2. LocalTypes'
    <3>1. {"PresizeRecheck", "PresizeLoad"} \subseteq Pcs
      BY DEF Pcs
    <3> QED
      BY <1>3, <3>1, LocalValues DEF IInv, TypeOK, LocalTypes, SharedTypes, PresizeClaim, Goto
  <2>3. FirstTableOnce'
    BY <1>3 DEF IInv, TypeOK, SharedTypes, LocalTypes, FirstTableOnce, BeforeTable, Locals, PresizeClaim, Goto
  <2>4. BeforeTable'
    BY <1>3 DEF IInv, TypeOK, SharedTypes, LocalTypes, FirstTableOnce, BeforeTable, Locals, PresizeClaim, Goto
  <2>5. ASSUME NEW u \in Threads PROVE Locals(u)'
    BY <1>3 DEF IInv, TypeOK, SharedTypes, LocalTypes, BeforeTable, Locals, PresizeClaim, Goto
  <2>6. ASSUME NEW u \in Threads PROVE Sweep(u)'
    BY <1>3 DEF IInv, TypeOK, SharedTypes, LocalTypes, Locals, Sweep, PresizeClaim, Goto
  <2> QED
    BY <2>1, <2>2, <2>3, <2>4, <2>5, <2>6 DEF IInv, TypeOK
<1>4. CASE PresizeRecheck(t)
  <2>1. SharedTypes'
    BY <1>4, LocalValues DEF IInv, TypeOK, SharedTypes, LocalTypes, Locals, PresizeRecheck
  <2>2. LocalTypes'
    <3>1. {"PresizeStoreTable", "PresizeStoreSizeCtl"} \subseteq Pcs
      BY DEF Pcs
    <3> QED
      BY <1>4, <3>1, LocalValues DEF IInv, TypeOK, LocalTypes, SharedTypes, PresizeRecheck, Goto
  <2>3. FirstTableOnce'
    BY <1>4 DEF IInv, TypeOK, SharedTypes, LocalTypes, FirstTableOnce, BeforeTable, Locals, PresizeRecheck, Goto
  <2>4. BeforeTable'
    BY <1>4 DEF IInv, TypeOK, SharedTypes, LocalTypes, FirstTableOnce, BeforeTable, Locals, PresizeRecheck, Goto
  <2>5. ASSUME NEW u \in Threads PROVE Locals(u)'
    BY <1>4 DEF IInv, TypeOK, SharedTypes, LocalTypes, BeforeTable, Locals, PresizeRecheck, Goto
  <2>6. ASSUME NEW u \in Threads PROVE Sweep(u)'
    BY <1>4 DEF IInv, TypeOK, SharedTypes, LocalTypes, Locals, Sweep, PresizeRecheck, Goto
  <2> QED
    BY <2>1, <2>2, <2>3, <2>4, <2>5, <2>6 DEF IInv, TypeOK
<1>5. CASE PresizeStoreTable(t)
  <2>0. ld[t] = 0 /\ arg[t] \in Caps /\ arg[t] \in Nat
    <3>1. ld[t] = 0 /\ arg[t] \in Caps
      BY <1>5 DEF IInv, FirstTableOnce, BeforeTable, Locals, PresizeStoreTable
    <3> QED
      BY <3>1, Arithmetic
  <2>1. SharedTypes'
    BY <1>5, <2>0 DEF IInv, TypeOK, SharedTypes, PresizeStoreTable
  <2>2. LocalTypes'
    <3>1. {"PresizeStoreSizeCtl"} \subseteq Pcs
      BY DEF Pcs
    <3> QED
      BY <1>5, <2>0, <3>1, Arithmetic DEF IInv, TypeOK, LocalTypes, PresizeStoreTable, Goto, Set
  <2>3. FirstTableOnce'
    BY <1>5 DEF IInv, TypeOK, SharedTypes, LocalTypes, FirstTableOnce, BeforeTable, Locals, PresizeStoreTable, Goto, Set
  <2>4. BeforeTable'
    BY <1>5 DEF IInv, TypeOK, SharedTypes, LocalTypes, FirstTableOnce, BeforeTable, Locals, PresizeStoreTable, Goto, Set
  <2>5. ASSUME NEW u \in Threads PROVE Locals(u)'
    BY <1>5 DEF IInv, TypeOK, SharedTypes, LocalTypes, BeforeTable, Locals, PresizeStoreTable, Goto, Set
  <2>6. ASSUME NEW u \in Threads PROVE Sweep(u)'
    BY <1>5 DEF IInv, TypeOK, SharedTypes, LocalTypes, Locals, Sweep, PresizeStoreTable, Goto, Set
  <2> QED
    BY <2>1, <2>2, <2>3, <2>4, <2>5, <2>6 DEF IInv, TypeOK
<1>6. CASE PresizeStoreSizeCtl(t)
  <2>1. SharedTypes'
    BY <1>6, LocalValues DEF IInv, TypeOK, SharedTypes, LocalTypes, Locals, PresizeStoreSizeCtl
  <2>2. LocalTypes'
    <3>1. {"PresizeLoad"} \subseteq Pcs
      BY DEF Pcs
    <3> QED
      BY <1>6, <3>1, LocalValues DEF IInv, TypeOK, LocalTypes, SharedTypes, PresizeStoreSizeCtl, Goto
  <2>3. FirstTableOnce'
    BY <1>6 DEF IInv, TypeOK, SharedTypes, LocalTypes, FirstTableOnce, BeforeTable, Locals, PresizeStoreSizeCtl, Goto
  <2>4. BeforeTable'
    BY <1>6 DEF IInv, TypeOK, SharedTypes, LocalTypes, FirstTableOnce, BeforeTable, Locals, PresizeStoreSizeCtl, Goto
  <2>5. ASSUME NEW u \in Threads PROVE Locals(u)'
    BY <1>6 DEF IInv, TypeOK, SharedTypes, LocalTypes, BeforeTable, Locals, PresizeStoreSizeCtl, Goto
  <2>6. ASSUME NEW u \in Threads PROVE Sweep(u)'
    BY <1>6 DEF IInv, TypeOK, SharedTypes, LocalTypes, Locals, Sweep, PresizeStoreSizeCtl, Goto
  <2> QED
    BY <2>1, <2>2, <2>3, <2>4, <2>5, <2>6 DEF IInv, TypeOK
<1>7. CASE PresizeCheckTable(t)
  <2>1. SharedTypes'
    BY <1>7, LocalValues DEF IInv, TypeOK, SharedTypes, LocalTypes, Locals, PresizeCheckTable
  <2>2. LocalTypes'
    <3>1. {"PresizeStart", "PresizeLoad"} \subseteq Pcs
      BY DEF Pcs
    <3> QED
      BY <1>7, <3>1, LocalValues DEF IInv, TypeOK, LocalTypes, SharedTypes, PresizeCheckTable, Goto
  <2>3. FirstTableOnce'
    BY <1>7 DEF IInv, TypeOK, SharedTypes, LocalTypes, FirstTableOnce, BeforeTable, Locals, PresizeCheckTable, Goto
  <2>4. BeforeTable'
    BY <1>7 DEF IInv, TypeOK, SharedTypes, LocalTypes, FirstTableOnce, BeforeTable, Locals, PresizeCheckTable, Goto
  <2>5. ASSUME NEW u \in Threads PROVE Locals(u)'
    BY <1>7 DEF IInv, TypeOK, SharedTypes, LocalTypes, BeforeTable, Locals, PresizeCheckTable, Goto
  <2>6. ASSUME NEW u \in Threads PROVE Sweep(u)'
    BY <1>7 DEF IInv, TypeOK, SharedTypes, LocalTypes, Locals, Sweep, PresizeCheckTable, Goto
  <2> QED
    BY <2>1, <2>2, <2>3, <2>4, <2>5, <2>6 DEF IInv, TypeOK
<1>8. CASE PresizeStart(t)
  <2>1. SharedTypes'
    BY <1>8, LocalValues, Arithmetic DEF IInv, TypeOK, SharedTypes, LocalTypes, Locals, PresizeStart
  <2>2. LocalTypes'
    <3>1. {"PresizeLoad"} \subseteq Pcs
      BY DEF Pcs
    <3> QED
      BY <1>8, <3>1, LocalValues, EnterTypes, Arithmetic DEF IInv, TypeOK, LocalTypes, SharedTypes, PresizeStart, Goto
  <2>3. FirstTableOnce'
    BY <1>8 DEF IInv, TypeOK, SharedTypes, LocalTypes, FirstTableOnce, BeforeTable, Locals, PresizeStart, Goto, EnterTransfer, Set
  <2>4. BeforeTable'
    BY <1>8 DEF IInv, TypeOK, SharedTypes, LocalTypes, FirstTableOnce, BeforeTable, Locals, PresizeStart, Goto, EnterTransfer, Set
  <2>5. ASSUME NEW u \in Threads PROVE Locals(u)'
    BY <1>8 DEF IInv, TypeOK, SharedTypes, LocalTypes, BeforeTable, Locals, PresizeStart, Goto, EnterTransfer, Set
  <2>6. ASSUME NEW u \in Threads PROVE Sweep(u)'
    BY <1>8 DEF IInv, TypeOK, SharedTypes, LocalTypes, Locals, Sweep, PresizeStart, Goto, EnterTransfer, Set
  <2> QED
    BY <2>1, <2>2, <2>3, <2>4, <2>5, <2>6 DEF IInv, TypeOK
<1> QED
  BY <1>1, <1>2, <1>3, <1>4, <1>5, <1>6, <1>7, <1>8 DEF TryPresize

-----------------------------------------------------------------------------
(* transfer: the claims, and the end of them. *)
LEMMA TransferLoopInv ==
    ASSUME IInv, NEW t \in Threads, TransferLoop(t)
    PROVE  IInv'
<1>1. CASE TransferAllocate(t)
  <2>1. SharedTypes'
    BY <1>1, LocalValues DEF IInv, TypeOK, SharedTypes, LocalTypes, Locals, TransferAllocate
  <2>2. LocalTypes'
    <3>1. {"TransferOpen"} \subseteq Pcs
      BY DEF Pcs
    <3> QED
      BY <1>1, <3>1, LocalValues DEF IInv, TypeOK, LocalTypes, SharedTypes, TransferAllocate, Goto
  <2>3. FirstTableOnce'
    BY <1>1 DEF IInv, TypeOK, SharedTypes, LocalTypes, FirstTableOnce, BeforeTable, Locals, TransferAllocate, Goto
  <2>4. BeforeTable'
    BY <1>1 DEF IInv, TypeOK, SharedTypes, LocalTypes, FirstTableOnce, BeforeTable, Locals, TransferAllocate, Goto
  <2>5. ASSUME NEW u \in Threads PROVE Locals(u)'
    BY <1>1 DEF IInv, TypeOK, SharedTypes, LocalTypes, BeforeTable, Locals, TransferAllocate, Goto
  <2>6. ASSUME NEW u \in Threads PROVE Sweep(u)'
    BY <1>1 DEF IInv, TypeOK, SharedTypes, LocalTypes, Locals, Sweep, TransferAllocate, Goto
  <2> QED
    BY <2>1, <2>2, <2>3, <2>4, <2>5, <2>6 DEF IInv, TypeOK
<1>2. CASE TransferOpen(t)
  <2>1. SharedTypes'
    BY <1>2, LocalValues DEF IInv, TypeOK, SharedTypes, LocalTypes, Locals, TransferOpen
  <2>2. LocalTypes'
    <3>1. {"TransferLoadNext"} \subseteq Pcs
      BY DEF Pcs
    <3> QED
      BY <1>2, <3>1, LocalValues DEF IInv, TypeOK, LocalTypes, SharedTypes, TransferOpen, Goto
  <2>3. FirstTableOnce'
    BY <1>2 DEF IInv, TypeOK, SharedTypes, LocalTypes, FirstTableOnce, BeforeTable, Locals, TransferOpen, Goto
  <2>4. BeforeTable'
    BY <1>2 DEF IInv, TypeOK, SharedTypes, LocalTypes, FirstTableOnce, BeforeTable, Locals, TransferOpen, Goto
  <2>5. ASSUME NEW u \in Threads PROVE Locals(u)'
    BY <1>2 DEF IInv, TypeOK, SharedTypes, LocalTypes, BeforeTable, Locals, TransferOpen, Goto
  <2>6. ASSUME NEW u \in Threads PROVE Sweep(u)'
    BY <1>2 DEF IInv, TypeOK, SharedTypes, LocalTypes, Locals, Sweep, TransferOpen, Goto
  <2> QED
    BY <2>1, <2>2, <2>3, <2>4, <2>5, <2>6 DEF IInv, TypeOK
<1>3. CASE TransferLoadNext(t)
  <2>1. SharedTypes'
    BY <1>3, LocalValues DEF IInv, TypeOK, SharedTypes, LocalTypes, Locals, TransferLoadNext
  <2>2. LocalTypes'
    <3>1. {"TransferAdvance"} \subseteq Pcs
      BY DEF Pcs
    <3> QED
      BY <1>3, <3>1, LocalValues DEF IInv, TypeOK, LocalTypes, SharedTypes, TransferLoadNext, Goto, Set
  <2>3. FirstTableOnce'
    BY <1>3 DEF IInv, TypeOK, SharedTypes, LocalTypes, FirstTableOnce, BeforeTable, Locals, TransferLoadNext, Goto, Set
  <2>4. BeforeTable'
    BY <1>3 DEF IInv, TypeOK, SharedTypes, LocalTypes, FirstTableOnce, BeforeTable, Locals, TransferLoadNext, Goto, Set
  <2>5. ASSUME NEW u \in Threads PROVE Locals(u)'
    BY <1>3 DEF IInv, TypeOK, SharedTypes, LocalTypes, BeforeTable, Locals, TransferLoadNext, Goto, Set
  <2>6. ASSUME NEW u \in Threads PROVE Sweep(u)'
    BY <1>3 DEF IInv, TypeOK, SharedTypes, LocalTypes, Locals, Sweep, TransferLoadNext, Goto, Set
  <2> QED
    BY <2>1, <2>2, <2>3, <2>4, <2>5, <2>6 DEF IInv, TypeOK
<1>4. CASE TransferAdvance(t)
  <2>1. SharedTypes'
    BY <1>4, LocalValues DEF IInv, TypeOK, SharedTypes, LocalTypes, Locals, TransferAdvance
  <2>2. LocalTypes'
    <3>1. {"TransferClaim"} \subseteq Pcs
      BY DEF Pcs
    <3> DEFINE i == idx[t] - 1
    <3>2. LocalTypes /\ transferIndex \in Int /\ i \in Int
      BY LocalValues DEF IInv, TypeOK, SharedTypes, LocalTypes
    <3>3. BodyFor(t, i) \in Pcs /\ BodyFor(t, -1) \in Pcs
      BY <3>2, BodyForCases
    <3> HIDE DEF i
    <3>4. PICK j \in Int, p \in Pcs :
             /\ idx' = Set(idx, t, j) /\ Goto(t, p)
             /\ ld' = ld \/ ld' = Set(ld, t, transferIndex)
             /\ UNCHANGED <<rt, tab, nt, bound, fin, arg>>
      <4>1. CASE i >= bound[t] \/ fin[t]
        BY <1>4, <3>2, <3>3, <4>1 DEF TransferAdvance, i
      <4>2. CASE ~(i >= bound[t] \/ fin[t]) /\ transferIndex <= 0
        BY <1>4, <3>2, <3>3, <4>2 DEF TransferAdvance, i
      <4>3. CASE ~(i >= bound[t] \/ fin[t]) /\ ~(transferIndex <= 0)
        BY <1>4, <3>1, <3>2, <4>3 DEF TransferAdvance, i
      <4> QED
        BY <4>1, <4>2, <4>3
    <3> QED
      BY <3>2, <3>4 DEF LocalTypes, Goto, Set
  <2>3. FirstTableOnce'
    BY <1>4, BodyForCases DEF IInv, TypeOK, SharedTypes, LocalTypes, FirstTableOnce, BeforeTable, Locals, TransferAdvance, Goto, Set
  <2>4. BeforeTable'
    BY <1>4, BodyForCases DEF IInv, TypeOK, SharedTypes, LocalTypes, FirstTableOnce, BeforeTable, Locals, TransferAdvance, Goto, Set
  <2>5. ASSUME NEW u \in Threads PROVE Locals(u)'
    BY <1>4, BodyForCases DEF IInv, TypeOK, SharedTypes, LocalTypes, BeforeTable, Locals, TransferAdvance, Goto, Set
  <2>6. ASSUME NEW u \in Threads PROVE Sweep(u)'
    <3>1. CASE u = t /\ fin[t]
      BY <1>4, <3>1, LocalValues, BodyForCases DEF IInv, TypeOK, LocalTypes, Sweep, TransferAdvance, Goto, Set
    <3>2. CASE u = t /\ ~fin[t]
      BY <1>4, <3>2, LocalValues, BodyForCases DEF IInv, TypeOK, LocalTypes, Sweep, TransferAdvance, Goto, Set
    <3>3. CASE u # t
      BY <1>4, <3>3 DEF IInv, TypeOK, LocalTypes, Sweep, TransferAdvance, Goto, Set
    <3> QED
      BY <3>1, <3>2, <3>3
  <2> QED
    BY <2>1, <2>2, <2>3, <2>4, <2>5, <2>6 DEF IInv, TypeOK
<1>5. CASE TransferClaim(t)
  <2>1. SharedTypes'
    BY <1>5, LocalValues DEF IInv, TypeOK, SharedTypes, LocalTypes, Locals, TransferClaim
  <2>2. LocalTypes'
    <3>1. {"TransferAdvance"} \subseteq Pcs
      BY DEF Pcs
    <3>2. ld[t] \in Int /\ BodyFor(t, ld[t]) \in Pcs
      BY LocalValues, BodyForCases DEF IInv, TypeOK
    <3>3. (IF ld[t] > Stride THEN ld[t] - Stride ELSE 0) \in Nat
      BY <3>2
    <3> QED
      BY <1>5, <3>1, <3>2, <3>3 DEF IInv, TypeOK, LocalTypes, TransferClaim, Goto, Set
  <2>3. FirstTableOnce'
    BY <1>5, BodyForCases DEF IInv, TypeOK, SharedTypes, LocalTypes, FirstTableOnce, BeforeTable, Locals, TransferClaim, Goto, Set
  <2>4. BeforeTable'
    BY <1>5, BodyForCases DEF IInv, TypeOK, SharedTypes, LocalTypes, FirstTableOnce, BeforeTable, Locals, TransferClaim, Goto, Set
  <2>5. ASSUME NEW u \in Threads PROVE Locals(u)'
    BY <1>5, BodyForCases DEF IInv, TypeOK, SharedTypes, LocalTypes, BeforeTable, Locals, TransferClaim, Goto, Set
  <2>6. ASSUME NEW u \in Threads PROVE Sweep(u)'
    BY <1>5, BodyForCases DEF IInv, TypeOK, SharedTypes, LocalTypes, Locals, Sweep, TransferClaim, Goto, Set
  <2> QED
    BY <2>1, <2>2, <2>3, <2>4, <2>5, <2>6 DEF IInv, TypeOK
<1>6. CASE TransferLoadSizeCtl(t)
  <2>1. SharedTypes'
    BY <1>6, LocalValues DEF IInv, TypeOK, SharedTypes, LocalTypes, Locals, TransferLoadSizeCtl
  <2>2. LocalTypes'
    <3>1. {"TransferDone"} \subseteq Pcs
      BY DEF Pcs
    <3> QED
      BY <1>6, <3>1, LocalValues DEF IInv, TypeOK, LocalTypes, SharedTypes, TransferLoadSizeCtl, Goto, Set
  <2>3. FirstTableOnce'
    BY <1>6 DEF IInv, TypeOK, SharedTypes, LocalTypes, FirstTableOnce, BeforeTable, Locals, TransferLoadSizeCtl, Goto, Set
  <2>4. BeforeTable'
    BY <1>6 DEF IInv, TypeOK, SharedTypes, LocalTypes, FirstTableOnce, BeforeTable, Locals, TransferLoadSizeCtl, Goto, Set
  <2>5. ASSUME NEW u \in Threads PROVE Locals(u)'
    BY <1>6 DEF IInv, TypeOK, SharedTypes, LocalTypes, BeforeTable, Locals, TransferLoadSizeCtl, Goto, Set
  <2>6. ASSUME NEW u \in Threads PROVE Sweep(u)'
    BY <1>6 DEF IInv, TypeOK, SharedTypes, LocalTypes, Locals, Sweep, TransferLoadSizeCtl, Goto, Set
  <2> QED
    BY <2>1, <2>2, <2>3, <2>4, <2>5, <2>6 DEF IInv, TypeOK
<1>7. CASE TransferDone(t)
  <2>1. SharedTypes'
    <3>1. ld[t] - 1 \in Int
      BY LocalValues DEF IInv, TypeOK
    <3>2. sizeCtl' \in {sizeCtl, ld[t] - 1}
      BY <1>7 DEF TransferDone
    <3> QED
      BY <1>7, <3>1, <3>2 DEF IInv, TypeOK, SharedTypes, TransferDone
  <2>2. LocalTypes'
    <3>1. {"TransferLoadSizeCtl", "TransferAdvance"} \subseteq Pcs
      BY DEF Pcs
    <3>2. CASE sizeCtl # ld[t]
      BY <1>7, <3>1, <3>2 DEF IInv, TypeOK, LocalTypes, TransferDone, Goto
    <3>3. CASE sizeCtl = ld[t] /\ ld[t] - 2 # ResizeStamp(tab[t])
      BY <1>7, <3>3, LeaveTypes DEF IInv, TypeOK, TransferDone
    <3>4. CASE sizeCtl = ld[t] /\ ld[t] - 2 = ResizeStamp(tab[t])
      <4>1. /\ fin' = Set(fin, t, TRUE) /\ idx' = Set(idx, t, tab[t]) /\ ld' = Set(ld, t, 0)
            /\ Goto(t, "TransferAdvance") /\ UNCHANGED <<rt, tab, nt, bound, arg>>
        BY <1>7, <3>4 DEF TransferDone
      <4>2. tab[t] \in Int
        BY LocalValues DEF IInv, TypeOK
      <4> QED
        BY <3>1, <4>1, <4>2 DEF IInv, TypeOK, LocalTypes, Goto, Set
    <3> QED
      BY <3>2, <3>3, <3>4
  <2>3. FirstTableOnce'
    BY <1>7 DEF IInv, TypeOK, SharedTypes, LocalTypes, FirstTableOnce, BeforeTable, Locals, TransferDone, Goto, Set, LeaveTransfer, Return
  <2>4. BeforeTable'
    BY <1>7 DEF IInv, TypeOK, SharedTypes, LocalTypes, FirstTableOnce, BeforeTable, Locals, TransferDone, Goto, Set, LeaveTransfer, Return
  <2>5. ASSUME NEW u \in Threads PROVE Locals(u)'
    BY <1>7 DEF IInv, TypeOK, SharedTypes, LocalTypes, BeforeTable, Locals, TransferDone, Goto, Set, LeaveTransfer, Return
  <2>6. ASSUME NEW u \in Threads PROVE Sweep(u)'
    <3>1. CASE u # t
      BY <1>7, <3>1 DEF IInv, TypeOK, LocalTypes, Sweep, TransferDone, LeaveTransfer, Return, Goto, Set
    <3>2. CASE u = t /\ sizeCtl = ld[t] /\ ld[t] - 2 = ResizeStamp(tab[t])
      BY <1>7, <3>2, LocalValues DEF IInv, TypeOK, LocalTypes, Sweep, TransferDone, Goto, Set
    <3>3. CASE u = t /\ ~(sizeCtl = ld[t] /\ ld[t] - 2 = ResizeStamp(tab[t]))
      BY <1>7, <3>3 DEF IInv, TypeOK, LocalTypes, Sweep, TransferDone, LeaveTransfer, Return, Goto, Set
    <3> QED
      BY <3>1, <3>2, <3>3
  <2> QED
    BY <2>1, <2>2, <2>3, <2>4, <2>5, <2>6 DEF IInv, TypeOK
<1>8. CASE TransferClearNext(t)
  <2>1. SharedTypes'
    BY <1>8, LocalValues DEF IInv, TypeOK, SharedTypes, LocalTypes, Locals, TransferClearNext
  <2>2. LocalTypes'
    <3>1. {"TransferSwap"} \subseteq Pcs
      BY DEF Pcs
    <3> QED
      BY <1>8, <3>1, LocalValues DEF IInv, TypeOK, LocalTypes, SharedTypes, TransferClearNext, Goto
  <2>3. FirstTableOnce'
    BY <1>8 DEF IInv, TypeOK, SharedTypes, LocalTypes, FirstTableOnce, BeforeTable, Locals, TransferClearNext, Goto
  <2>4. BeforeTable'
    BY <1>8 DEF IInv, TypeOK, SharedTypes, LocalTypes, FirstTableOnce, BeforeTable, Locals, TransferClearNext, Goto
  <2>5. ASSUME NEW u \in Threads PROVE Locals(u)'
    BY <1>8 DEF IInv, TypeOK, SharedTypes, LocalTypes, BeforeTable, Locals, TransferClearNext, Goto
  <2>6. ASSUME NEW u \in Threads PROVE Sweep(u)'
    BY <1>8 DEF IInv, TypeOK, SharedTypes, LocalTypes, Locals, Sweep, TransferClearNext, Goto
  <2> QED
    BY <2>1, <2>2, <2>3, <2>4, <2>5, <2>6 DEF IInv, TypeOK
<1>9. CASE TransferSwap(t)
  <2>1. SharedTypes'
    BY <1>9, LocalValues DEF IInv, TypeOK, SharedTypes, LocalTypes, Locals, TransferSwap
  <2>2. LocalTypes'
    <3>1. {"TransferCommit"} \subseteq Pcs
      BY DEF Pcs
    <3> QED
      BY <1>9, <3>1, LocalValues DEF IInv, TypeOK, LocalTypes, SharedTypes, TransferSwap, Goto
  <2>3. FirstTableOnce'
    BY <1>9 DEF IInv, TypeOK, SharedTypes, LocalTypes, FirstTableOnce, BeforeTable, Locals, TransferSwap, Goto
  <2>4. BeforeTable'
    BY <1>9 DEF IInv, TypeOK, SharedTypes, LocalTypes, FirstTableOnce, BeforeTable, Locals, TransferSwap, Goto
  <2>5. ASSUME NEW u \in Threads PROVE Locals(u)'
    BY <1>9 DEF IInv, TypeOK, SharedTypes, LocalTypes, BeforeTable, Locals, TransferSwap, Goto
  <2>6. ASSUME NEW u \in Threads PROVE Sweep(u)'
    BY <1>9 DEF IInv, TypeOK, SharedTypes, LocalTypes, Locals, Sweep, TransferSwap, Goto
  <2> QED
    BY <2>1, <2>2, <2>3, <2>4, <2>5, <2>6 DEF IInv, TypeOK
<1>10. CASE TransferCommit(t)
  <2>1. SharedTypes'
    BY <1>10, LocalValues, Arithmetic DEF IInv, TypeOK, SharedTypes, LocalTypes, Locals, TransferCommit
  <2>2. LocalTypes'
    <3> QED
      BY <1>10, LocalValues, LeaveTypes, Arithmetic DEF IInv, TypeOK, LocalTypes, SharedTypes, TransferCommit
  <2>3. FirstTableOnce'
    BY <1>10 DEF IInv, TypeOK, SharedTypes, LocalTypes, FirstTableOnce, BeforeTable, Locals, TransferCommit, LeaveTransfer, Return, Goto, Set
  <2>4. BeforeTable'
    BY <1>10 DEF IInv, TypeOK, SharedTypes, LocalTypes, FirstTableOnce, BeforeTable, Locals, TransferCommit, LeaveTransfer, Return, Goto, Set
  <2>5. ASSUME NEW u \in Threads PROVE Locals(u)'
    BY <1>10 DEF IInv, TypeOK, SharedTypes, LocalTypes, BeforeTable, Locals, TransferCommit, LeaveTransfer, Return, Goto, Set
  <2>6. ASSUME NEW u \in Threads PROVE Sweep(u)'
    <3>1. CASE u = t
      BY <1>10, <3>1 DEF IInv, TypeOK, LocalTypes, Sweep, TransferCommit, LeaveTransfer, Return, Goto, Set
    <3>2. CASE u # t
      BY <1>10, <3>2 DEF IInv, TypeOK, LocalTypes, Sweep, TransferCommit, LeaveTransfer, Return, Goto, Set
    <3> QED
      BY <3>1, <3>2
  <2> QED
    BY <2>1, <2>2, <2>3, <2>4, <2>5, <2>6 DEF IInv, TypeOK
<1> QED
  BY <1>1, <1>2, <1>3, <1>4, <1>5, <1>6, <1>7, <1>8, <1>9, <1>10 DEF TransferLoop

-----------------------------------------------------------------------------
(* transfer: one bin. *)
LEMMA TransferBinStepInv ==
    ASSUME IInv, NEW t \in Threads, TransferBinStep(t)
    PROVE  IInv'
<1>1. CASE TransferSkipMoved(t)
  <2>1. SharedTypes'
    BY <1>1, LocalValues DEF IInv, TypeOK, SharedTypes, LocalTypes, Locals, TransferSkipMoved
  <2>2. LocalTypes'
    <3>1. {"TransferAdvance"} \subseteq Pcs
      BY DEF Pcs
    <3> QED
      BY <1>1, <3>1, LocalValues DEF IInv, TypeOK, LocalTypes, SharedTypes, TransferSkipMoved, Goto
  <2>3. FirstTableOnce'
    BY <1>1 DEF IInv, TypeOK, SharedTypes, LocalTypes, FirstTableOnce, BeforeTable, Locals, TransferSkipMoved, Goto
  <2>4. BeforeTable'
    BY <1>1 DEF IInv, TypeOK, SharedTypes, LocalTypes, FirstTableOnce, BeforeTable, Locals, TransferSkipMoved, Goto
  <2>5. ASSUME NEW u \in Threads PROVE Locals(u)'
    BY <1>1 DEF IInv, TypeOK, SharedTypes, LocalTypes, BeforeTable, Locals, TransferSkipMoved, Goto
  <2>6. ASSUME NEW u \in Threads PROVE Sweep(u)'
    BY <1>1 DEF IInv, TypeOK, SharedTypes, LocalTypes, Locals, Sweep, TransferSkipMoved, Goto
  <2> QED
    BY <2>1, <2>2, <2>3, <2>4, <2>5, <2>6 DEF IInv, TypeOK
<1>2. CASE TransferForward(t)
  <2>1. SharedTypes'
    <3>1. nt[t] \in Caps \cup {Null}
      BY LocalValues DEF IInv, TypeOK
    <3> QED
      BY <1>2, <3>1 DEF IInv, TypeOK, SharedTypes, TransferForward, Set
  <2>2. LocalTypes'
    <3> QED
      BY <1>2, LocalValues DEF IInv, TypeOK, LocalTypes, SharedTypes, TransferForward, Set
  <2>3. FirstTableOnce'
    BY <1>2 DEF IInv, TypeOK, SharedTypes, LocalTypes, FirstTableOnce, BeforeTable, Locals, TransferForward, Set
  <2>4. BeforeTable'
    BY <1>2 DEF IInv, TypeOK, SharedTypes, LocalTypes, FirstTableOnce, BeforeTable, Locals, TransferForward, Set
  <2>5. ASSUME NEW u \in Threads PROVE Locals(u)'
    BY <1>2 DEF IInv, TypeOK, SharedTypes, LocalTypes, BeforeTable, Locals, TransferForward, Set
  <2>6. ASSUME NEW u \in Threads PROVE Sweep(u)'
    BY <1>2 DEF IInv, TypeOK, SharedTypes, LocalTypes, Locals, Sweep, TransferForward, Set
  <2> QED
    BY <2>1, <2>2, <2>3, <2>4, <2>5, <2>6 DEF IInv, TypeOK
<1>3. CASE TransferMoveBin(t)
  <2>1. SharedTypes'
    BY <1>3, LocalValues DEF IInv, TypeOK, SharedTypes, LocalTypes, Locals, TransferMoveBin
  <2>2. LocalTypes'
    <3>1. {"TransferAdvance"} \subseteq Pcs
      BY DEF Pcs
    <3> QED
      BY <1>3, <3>1, LocalValues DEF IInv, TypeOK, LocalTypes, SharedTypes, TransferMoveBin, Goto
  <2>3. FirstTableOnce'
    BY <1>3 DEF IInv, TypeOK, SharedTypes, LocalTypes, FirstTableOnce, BeforeTable, Locals, TransferMoveBin, Goto
  <2>4. BeforeTable'
    BY <1>3 DEF IInv, TypeOK, SharedTypes, LocalTypes, FirstTableOnce, BeforeTable, Locals, TransferMoveBin, Goto
  <2>5. ASSUME NEW u \in Threads PROVE Locals(u)'
    BY <1>3 DEF IInv, TypeOK, SharedTypes, LocalTypes, BeforeTable, Locals, TransferMoveBin, Goto
  <2>6. ASSUME NEW u \in Threads PROVE Sweep(u)'
    BY <1>3 DEF IInv, TypeOK, SharedTypes, LocalTypes, Locals, Sweep, TransferMoveBin, Goto
  <2> QED
    BY <2>1, <2>2, <2>3, <2>4, <2>5, <2>6 DEF IInv, TypeOK
<1> QED
  BY <1>1, <1>2, <1>3 DEF TransferBinStep

-----------------------------------------------------------------------------
(* The theorems. *)
LEMMA InitIInv == Init => IInv
<1> SUFFICES ASSUME Init PROVE IInv
  OBVIOUS
<1>1. TypeOK
  BY DEF Init, TypeOK, SharedTypes, LocalTypes, Pcs
<1>2. FirstTableOnce /\ BeforeTable
  BY DEF Init, FirstTableOnce, BeforeTable
<1>3. ASSUME NEW t \in Threads PROVE Locals(t) /\ Sweep(t)
  BY DEF Init, Locals, Sweep
<1> QED
  BY <1>1, <1>2, <1>3 DEF IInv

LEMMA NextIInv == IInv /\ [Next]_resizeVars => IInv'
<1> SUFFICES ASSUME IInv, [Next]_resizeVars PROVE IInv'
  OBVIOUS
<1>1. CASE UNCHANGED resizeVars
  BY <1>1 DEF IInv, TypeOK, SharedTypes, LocalTypes, FirstTableOnce, BeforeTable, Locals, Sweep
<1>2. ASSUME NEW t \in Threads, Step(t) PROVE IInv'
  BY <1>2, InitTableInv, AddCountInv, HelpTransferInv, TryPresizeInv, TransferLoopInv,
     TransferBinStepInv DEF Step
<1>3. ASSUME NEW t \in Threads, Call(t) PROVE IInv'
  BY <1>3, CallIsAny, CallInv DEF IInv
<1> QED
  BY <1>1, <1>2, <1>3 DEF Next

(* A step of the specification is one of Next; one after which nobody has
   joined late is one whose joins match. *)
LEMMA StepsOfNext == [Next /\ Remember]_watchedVars => [Next]_resizeVars
  BY DEF watchedVars

LEMMA StepsMatch ==
    [Next /\ Remember]_watchedVars /\ ~lateJoin'
        => ~lateJoin /\ [Next /\ JoinsMatch]_resizeVars
<1>1. CASE UNCHANGED watchedVars
  BY <1>1 DEF watchedVars
<1>2. CASE Next /\ Remember
  BY <1>2 DEF Remember
<1> QED
  BY <1>1, <1>2

(* The first allocation and each sweep are in order in every reachable state. *)
THEOREM Invariance == Spec => []IInv
<1> QED
  BY InitIInv, NextIInv, StepsOfNext, PTL DEF Spec

(* Whatever the threads do and in whatever order, every table pointer is null
   or a table that was allocated and only bins of a table are marked Moved. *)
THEOREM TypeCorrect == Spec => []TypeOK
<1>1. IInv => TypeOK
  BY DEF IInv
<1> QED
  BY <1>1, Invariance, PTL

(* No interleaving of init_table, try_presize and add_count makes two threads
   allocate the first table: the assertion of try_presize holds, and the store
   of init_table, which asserts nothing, overwrites no table. *)
THEOREM FirstTableOnceCorrect == Spec => []FirstTableOnce
<1>1. IInv => FirstTableOnce
  BY DEF IInv
<1> QED
  BY <1>1, Invariance, PTL

(* A thread that commits a resize has seen every bin of the old table Moved,
   even when the claims started one bin too high and left bins to the sweep. *)
THEOREM SwapCompleteCorrect == Spec => []SwapComplete
<1>1. IInv => SwapComplete
  <2> SUFFICES ASSUME IInv, NEW t \in Threads, pc[t] \in CommitPcs, nt[t] = 2 * tab[t]
               PROVE  moved[tab[t]] = 0..(tab[t] - 1)
    BY DEF SwapComplete
  <2>1. \A j \in 0..(tab[t] - 1) : j \in moved[tab[t]]
    BY DEF IInv, Sweep
  <2>2. tab[t] \in Caps
    BY LocalValues DEF IInv, TypeOK, Locals
  <2>3. moved[tab[t]] \subseteq 0..(tab[t] - 1)
    BY <2>2 DEF IInv, TypeOK, SharedTypes
  <2> QED
    BY <2>1, <2>3
<1> QED
  BY <1>1, Invariance, PTL

-----------------------------------------------------------------------------
(* When threads join only the resize whose stamp they read *)

(* The steps of the thread that opens a resize, and of the one that holds -1. *)
OpenPcs == {"TransferAllocate", "TransferOpen", "TransferLoadNext"}
HoldPcs == OwnerPcs \cup {"InitStoreSizeCtl", "PresizeStoreSizeCtl"}

Opens(t) == pc[t] \in OpenPcs
Holds(t) == pc[t] \in HoldPcs
Transfers(t) == pc[t] \in TransferPcs
Commits(t) == pc[t] = "TransferCommit"

(* The size_ctl of a table at rest *)
Threshold(n) == IF n = Null THEN 0 ELSE LoadFactor(n)

(* The threads that transfer and have not signed off *)
Workers == {t \in Threads : Transfers(t) /\ ~fin[t]}

(* The resize of table n has begun, and may be over. *)
Begun(n) == table > n \/ StampIs(sizeCtl, n)

(* During a resize of n: size_ctl counts the workers, every thread in transfer
   moves n, and a thread sweeps exactly when nobody works any more. *)
Resizing(n) ==
    /\ n < MaxCap
    /\ StampIs(sizeCtl, n)
    /\ IsFiniteSet(Workers)
    /\ sizeCtl = ResizeStamp(n) + 1 + Cardinality(Workers)
    /\ \A t \in Threads : Transfers(t) => tab[t] = n
    /\ nextTable \in {Null, 2 * n}
    /\ (\A t \in Threads : ~Commits(t)) => table = n
    /\ (\E t \in Threads : fin[t]) <=> Workers = {}

Counted == sizeCtl < -1 => \E n \in Caps : Resizing(n)

Quiet == sizeCtl >= -1 => nextTable = Null /\ \A t \in Threads : ~Transfers(t)

AtRest == sizeCtl >= 0 => sizeCtl = Threshold(table)

(* -1 is held by one thread, which will put back the threshold. *)
Held ==
    /\ sizeCtl = -1 <=> \E t \in Threads : Holds(t)
    /\ \A t \in Threads : Holds(t) => ld[t] = Threshold(table)
    /\ \A t, u \in Threads : Holds(t) /\ Holds(u) => t = u

Forwards == \A n \in Caps : fwd[n] \in {Null, 2 * n} /\ (moved[n] # {} => fwd[n] = 2 * n)

OneEach ==
    \A t, u \in Threads :
        /\ Opens(t) /\ Opens(u) => t = u
        /\ fin[t] /\ fin[u] => t = u

(* What a thread in transfer knows of next_table and of its own copy *)
KnowsNext(t) ==
    /\ pc[t] \in FillPcs \cup (HelpPcs \ {"HelpForward"}) => nt[t] = 2 * tab[t]
    /\ pc[t] \in {"TransferAllocate", "TransferSwap", "TransferCommit"} => nextTable = Null
    /\ pc[t] \in {"TransferOpen", "TransferLoadNext"} => nextTable = 2 * tab[t]
    /\ pc[t] = "TransferCommit" => table = 2 * tab[t]

(* What a thread about to join knows: the resize whose stamp it read has
   begun, and if it goes on, the next table it read is the one being filled. *)
KnowsStamp(t) ==
    /\ pc[t] \in {"AddLoadNext", "AddLoadIndex", "AddJoin", "HelpLoadIndex", "HelpJoin"}
          => ld[t] # ResizeStamp(tab[t]) + MaxResizers /\ ld[t] # ResizeStamp(tab[t]) + 1
    /\ pc[t] \in {"AddLoadTable", "AddLoadNext", "AddLoadIndex", "AddJoin"}
          => \A n \in Caps : StampIs(ld[t], n) => Begun(n)
    /\ pc[t] \in {"AddLoadIndex", "AddJoin"} =>
          (StampIs(ld[t], tab[t]) /\ StampIs(sizeCtl, tab[t]) => nt[t] = 2 * tab[t])

(* What a thread about to claim or to start knows: the threshold it read is
   not that of a later table than the one it read. *)
KnowsThreshold(t) ==
    /\ pc[t] \in {"InitClaim", "PresizeClaim", "PresizeLoadTable", "AddStart",
                  "PresizeCheckTable", "PresizeStart"} => ld[t] >= 0
    /\ pc[t] \in {"AddLoadTable", "PresizeLoadTable"} => ld[t] <= Threshold(table)
    /\ pc[t] \in {"AddStart", "PresizeCheckTable", "PresizeStart"}
          => ld[t] <= Threshold(tab[t]) /\ tab[t] <= table

Knows(t) == KnowsNext(t) /\ KnowsStamp(t) /\ KnowsThreshold(t)

CInv ==
    /\ Counted /\ Quiet /\ AtRest /\ Held /\ Forwards /\ OneEach
    /\ \A t \in Threads : Knows(t)

USE DEF OpenPcs, HoldPcs


-----------------------------------------------------------------------------
(* Stamps and thresholds. *)

(* The stamps of two tables are further apart than the threads they count. *)
LEMMA StampGap ==
    ASSUME NEW m \in Caps, NEW n \in Caps, m < n
    PROVE  ResizeStamp(n) + MaxResizers < ResizeStamp(m)
<1>1. m \in Nat /\ n \in Nat /\ MaxResizers + 1 \in Nat
  OBVIOUS
<1>2. PICK d \in Nat : n = m + 1 + d
  <2>1. n - m - 1 \in Nat /\ n = m + 1 + (n - m - 1)
    BY <1>1
  <2> QED
    BY <2>1
<1>3. n * (MaxResizers + 1) = m * (MaxResizers + 1) + (MaxResizers + 1) + d * (MaxResizers + 1)
  BY <1>1, <1>2
<1>4. d * (MaxResizers + 1) >= 0 /\ d * (MaxResizers + 1) \in Int
      /\ m * (MaxResizers + 1) \in Int /\ n * (MaxResizers + 1) \in Int
  BY <1>1, <1>2
<1> QED
  BY <1>3, <1>4 DEF ResizeStamp

(* A value of size_ctl has the stamp of one table, and is below -1. *)
LEMMA StampUnique ==
    ASSUME NEW m \in Caps, NEW sc \in Int, StampIs(sc, m)
    PROVE  /\ sc < -1
           /\ ResizeStamp(m) \in Int
           /\ \A n \in Caps : StampIs(sc, n) => n = m
<1>0. \A n \in Caps : n \in Nat /\ n > 0 /\ ResizeStamp(n) \in Int
  BY Arithmetic
<1>1. sc < -1
  <2>1. m * (MaxResizers + 1) \in Int /\ m * (MaxResizers + 1) >= MaxResizers + 1
    <3>1. m \in Nat /\ m >= 1 /\ MaxResizers + 1 \in Nat
      OBVIOUS
    <3>2. PICK d \in Nat : m = 1 + d
      <4>1. m - 1 \in Nat /\ m = 1 + (m - 1)
        BY <3>1
      <4> QED
        BY <4>1
    <3>3. m * (MaxResizers + 1) = (MaxResizers + 1) + d * (MaxResizers + 1)
      BY <3>1, <3>2
    <3>4. d * (MaxResizers + 1) >= 0 /\ d * (MaxResizers + 1) \in Int
      BY <3>1, <3>2
    <3> QED
      BY <3>1, <3>3, <3>4
  <2> QED
    BY <2>1 DEF StampIs, ResizeStamp
<1>2. ASSUME NEW n \in Caps, StampIs(sc, n) PROVE n = m
  <2>1. ~(m < n) /\ ~(n < m)
    BY <1>0, <1>2, StampGap DEF StampIs
  <2> QED
    BY <1>0, <2>1
<1> QED
  BY <1>0, <1>1, <1>2

(* The threshold grows with the table, and what a commit stores is the
   threshold of the new one. *)
LEMMA Thresholds ==
    /\ \A n \in Caps \cup {Null} : n \in Nat /\ Threshold(n) \in Nat
    /\ \A m, n \in Caps \cup {Null} : m < n => Threshold(m) < Threshold(n)
    /\ \A n \in Caps : n < MaxCap =>
          2 * n \in Caps /\ n < 2 * n /\ 2 * n - (n \div 2) = Threshold(2 * n)
<1>1. ASSUME NEW n \in Nat PROVE n \div 4 \in Nat /\ n - n \div 4 \in Nat /\ n \div 4 <= n
  OBVIOUS
<1>2. \A n \in Caps : n \in Nat /\ n > 0
  OBVIOUS
<1>3. ASSUME NEW m \in Nat, NEW n \in Nat, 2 * m <= n, n > 0
      PROVE  m - m \div 4 < n - n \div 4
  BY <1>3
<1>4. ASSUME NEW n \in Nat PROVE 2 * n - (n \div 2) = 2 * n - (2 * n) \div 4
  OBVIOUS
<1>5. \A n \in Caps \cup {Null} : n \in Nat /\ Threshold(n) \in Nat
  BY <1>1, <1>2 DEF Threshold, LoadFactor
<1>6. ASSUME NEW m \in Caps \cup {Null}, NEW n \in Caps \cup {Null}, m < n
      PROVE  Threshold(m) < Threshold(n)
  <2>1. n \in Caps /\ n > 0 /\ 2 * m <= n
    BY <1>2, <1>6
  <2>2. Threshold(m) = m - m \div 4 /\ Threshold(n) = n - n \div 4
    BY <1>2, <2>1 DEF Threshold, LoadFactor
  <2> QED
    BY <1>3, <1>5, <2>1, <2>2
<1>7. ASSUME NEW n \in Caps, n < MaxCap
      PROVE  2 * n \in Caps /\ n < 2 * n /\ 2 * n - (n \div 2) = Threshold(2 * n)
  <2>1. 2 * n \in Caps /\ n < 2 * n /\ 2 * n # Null
    BY <1>2, <1>7
  <2> QED
    BY <1>2, <1>4, <2>1 DEF Threshold, LoadFactor
<1> QED
  BY <1>5, <1>6, <1>7

-----------------------------------------------------------------------------
(* What a step of one thread leaves alone. *)
Same(u) ==
    /\ pc'[u] = pc[u] /\ rt'[u] = rt[u] /\ tab'[u] = tab[u] /\ nt'[u] = nt[u]
    /\ ld'[u] = ld[u] /\ idx'[u] = idx[u] /\ fin'[u] = fin[u]

Elsewhere(t) == \A u \in Threads : u # t => Same(u)

LEMMA OthersSame ==
    ASSUME LocalTypes, NEW t \in Threads, Step(t) \/ AnyCall(t)
    PROVE  Elsewhere(t)
<1> SUFFICES ASSUME NEW u \in Threads, u # t PROVE Same(u)
  BY DEF Elsewhere
<1>1. CASE AnyCall(t)
  BY <1>1 DEF LocalTypes, Same, AnyCall, SetsTab, CallInitTable, CallHelpTransfer,
     CallTryPresize, CallAddCount, Goto, Set
<1>2. CASE InitTable(t)
  BY <1>2 DEF LocalTypes, Same, InitTable, InitLoadTable, InitLoadSizeCtl, InitClaim,
     InitRecheck, InitStoreTable, InitStoreSizeCtl, Goto, Set, Return
<1>3. CASE AddCount(t)
  BY <1>3 DEF LocalTypes, Same, AddCount, AddLoadSizeCtl, AddLoadTable, AddLoadNext,
     AddLoadIndex, AddJoin, AddStart, AddReload, EnterTransfer, Goto, Set, Return
<1>4. CASE HelpTransfer(t)
  BY <1>4 DEF LocalTypes, Same, HelpTransfer, HelpForward, HelpCheckNext, HelpCheckTable,
     HelpLoadSizeCtl, HelpLoadIndex, HelpJoin, EnterTransfer, Goto, Set, Return
<1>5. CASE TryPresize(t)
  BY <1>5 DEF LocalTypes, Same, TryPresize, PresizeLoad, PresizeLoadTable, PresizeClaim,
     PresizeRecheck, PresizeStoreTable, PresizeStoreSizeCtl, PresizeCheckTable,
     PresizeStart, EnterTransfer, Goto, Set, Return
<1>6. CASE TransferLoop(t)
  <2>1. ASSUME LeaveTransfer(t) PROVE Same(u)
    BY <2>1 DEF LocalTypes, Same, LeaveTransfer, Return, Goto, Set
  <2>2. CASE TransferDone(t)
    BY <2>1, <2>2 DEF LocalTypes, Same, TransferDone, Goto, Set
  <2>3. CASE TransferCommit(t)
    BY <2>1, <2>3 DEF TransferCommit
  <2> QED
    BY <1>6, <2>2, <2>3 DEF LocalTypes, Same, TransferLoop, TransferAllocate, TransferOpen,
       TransferLoadNext, TransferAdvance, TransferClaim, TransferLoadSizeCtl,
       TransferClearNext, TransferSwap, Goto, Set
<1>7. CASE TransferBinStep(t)
  BY <1>7 DEF LocalTypes, Same, TransferBinStep, TransferSkipMoved, TransferForward,
     TransferMoveBin, Goto, Set
<1> QED
  BY <1>1, <1>2, <1>3, <1>4, <1>5, <1>6, <1>7 DEF Step

(* A step that changes neither the shared pointers nor who is in transfer or
   holds -1.  If the thread knows what it must afterwards, nothing is lost. *)
Keeps(t) ==
    /\ UNCHANGED <<table, nextTable, sizeCtl, moved, fwd>>
    /\ fin'[t] = fin[t]
    /\ Transfers(t)' <=> Transfers(t)
    /\ Opens(t)' => Opens(t)
    /\ Holds(t)' <=> Holds(t)
    /\ Commits(t)' <=> Commits(t)
    /\ Transfers(t) => tab'[t] = tab[t]
    /\ Holds(t) => ld'[t] = ld[t]

LEMMA SameClass ==
    ASSUME NEW u, Same(u)
    PROVE  /\ Transfers(u)' <=> Transfers(u)
           /\ Opens(u)' <=> Opens(u)
           /\ Holds(u)' <=> Holds(u)
           /\ Commits(u)' <=> Commits(u)
  BY DEF Same, Transfers, Opens, Holds, Commits

LEMMA KeepsInv ==
    ASSUME CInv, NEW t \in Threads, Elsewhere(t), Keeps(t), Knows(t)'
    PROVE  CInv'
<1>1. ASSUME NEW u \in Threads
      PROVE  /\ Transfers(u)' <=> Transfers(u)
             /\ Opens(u)' => Opens(u)
             /\ Holds(u)' <=> Holds(u)
             /\ Commits(u)' <=> Commits(u)
             /\ fin'[u] = fin[u]
             /\ Transfers(u) => tab'[u] = tab[u]
             /\ Holds(u) => ld'[u] = ld[u]
  BY SameClass DEF Elsewhere, Same, Keeps
<1>2. UNCHANGED <<table, nextTable, sizeCtl, moved, fwd>>
  BY DEF Keeps
<1>3. Workers' = Workers
  BY <1>1 DEF Workers
<1>4. ASSUME NEW n \in Caps, Resizing(n) PROVE Resizing(n)'
  BY <1>1, <1>2, <1>3, <1>4 DEF Resizing, StampIs, ResizeStamp
<1>5. Counted'
  BY <1>2, <1>4 DEF CInv, Counted
<1>6. Quiet' /\ AtRest' /\ Forwards'
  BY <1>1, <1>2 DEF CInv, Quiet, AtRest, Forwards, Threshold, LoadFactor
<1>7. Held' /\ OneEach'
  BY <1>1, <1>2 DEF CInv, Held, OneEach, Threshold, LoadFactor
<1>8. ASSUME NEW u \in Threads PROVE Knows(u)'
  <2>1. CASE u = t
    BY <2>1
  <2>2. CASE u # t
    <3>1. Knows(u) /\ Same(u)
      BY <2>2 DEF CInv, Elsewhere
    <3>2. KnowsNext(u)'
      BY <1>2, <3>1 DEF Knows, KnowsNext, Same
    <3>3. KnowsStamp(u)'
      BY <1>2, <3>1 DEF Knows, KnowsStamp, Same, Begun, StampIs, ResizeStamp
    <3>4. KnowsThreshold(u)'
      BY <1>2, <3>1 DEF Knows, KnowsThreshold, Same, Threshold, LoadFactor
    <3> QED
      BY <3>2, <3>3, <3>4 DEF Knows
  <2> QED
    BY <2>1, <2>2
<1> QED
  BY <1>5, <1>6, <1>7, <1>8 DEF CInv

LEMMA TableNat ==
    ASSUME SharedTypes
    PROVE  table \in Nat /\ table <= table /\ sizeCtl \in Int
  BY Arithmetic DEF SharedTypes

LEMMA SameThreshold ==
    ASSUME UNCHANGED table
    PROVE  Threshold(table)' = Threshold(table)
  BY DEF Threshold, LoadFactor

(* What any other thread knows survives a step that ends no resize before the
   table has moved on and opens none that was open before. *)
LEMMA OthersKnow ==
    ASSUME IInv, IInv', NEW u \in Threads, Same(u), Knows(u), KnowsNext(u)',
           table <= table',
           \A n \in Caps : Begun(n) => Begun(n)',
           \A n \in Caps : Begun(n) /\ StampIs(sizeCtl, n)' => StampIs(sizeCtl, n)
    PROVE  Knows(u)'
<1>1. KnowsStamp(u)'
  <2>1. UNCHANGED <<pc[u], tab[u], nt[u], ld[u]>> /\ KnowsStamp(u)
    BY DEF Same, Knows
  <2>2. ld[u] # ResizeStamp(tab[u]) + MaxResizers <=> ld'[u] # ResizeStamp(tab'[u]) + MaxResizers
    BY <2>1
  <2>3. \A n \in Caps : StampIs(ld[u], n)' <=> StampIs(ld[u], n)
    BY <2>1 DEF StampIs, ResizeStamp
  <2>4. pc[u] \in {"AddLoadIndex", "AddJoin"} => tab[u] \in Caps /\ tab'[u] = tab[u]
    BY <2>1, LocalValues DEF IInv, TypeOK, Locals
  <2>5. pc[u] \in {"AddLoadIndex", "AddJoin"} /\ StampIs(ld[u], tab[u])' /\ StampIs(sizeCtl, tab[u])'
            => nt'[u] = 2 * tab'[u]
    <3> SUFFICES ASSUME pc[u] \in {"AddLoadIndex", "AddJoin"}, StampIs(ld[u], tab[u])',
                        StampIs(sizeCtl, tab[u])'
                 PROVE  nt'[u] = 2 * tab'[u]
      OBVIOUS
    <3>1. StampIs(ld[u], tab[u]) /\ Begun(tab[u])
      BY <2>1, <2>3, <2>4 DEF KnowsStamp, StampIs, ResizeStamp
    <3>2. StampIs(sizeCtl, tab[u])
      BY <3>1, <2>4 DEF StampIs, ResizeStamp
    <3> QED
      BY <2>1, <3>1, <3>2 DEF KnowsStamp
  <2> QED
    BY <2>1, <2>3, <2>5 DEF KnowsStamp, StampIs, ResizeStamp
<1>2. KnowsThreshold(u)'
  <2>1. UNCHANGED <<pc[u], tab[u], ld[u]>> /\ KnowsThreshold(u)
    BY DEF Same, Knows
  <2>2. Threshold(table) <= Threshold(table') /\ table' \in Nat /\ table \in Nat
    BY Thresholds DEF IInv, TypeOK, SharedTypes
  <2>3. ld[u] \in Int /\ tab[u] \in Nat /\ Threshold(tab[u]) \in Nat
        /\ Threshold(table) \in Nat /\ Threshold(table') \in Nat
    BY LocalValues, Thresholds DEF IInv, TypeOK, SharedTypes
  <2>4. Threshold(tab[u])' = Threshold(tab[u]) /\ Threshold(table)' = Threshold(table')
    BY <2>1 DEF Threshold, LoadFactor
  <2> QED
    BY <2>1, <2>2, <2>3, <2>4 DEF KnowsThreshold
<1> QED
  BY <1>1, <1>2 DEF Knows

(* No thread is in transfer but the one that sweeps. *)
LEMMA SweeperAlone ==
    ASSUME IInv, CInv, NEW t \in Threads, fin[t], NEW u \in Threads, Transfers(u)
    PROVE  u = t
<1>1. Transfers(t)
  BY DEF IInv, Sweep, Transfers
<1>2. SharedTypes
  BY DEF IInv, TypeOK
<1>3. PICK n \in Caps : Resizing(n)
  BY <1>1, <1>2 DEF CInv, Quiet, Counted, SharedTypes
<1>4. u \notin Workers
  BY <1>3 DEF Resizing
<1> QED
  BY <1>4 DEF Workers, CInv, OneEach

(* A thread in transfer is in the resize that size_ctl counts. *)
LEMMA InResize ==
    ASSUME IInv, CInv, NEW t \in Threads, Transfers(t)
    PROVE  /\ sizeCtl < -1
           /\ tab[t] \in Caps /\ Resizing(tab[t])
           /\ \A u \in Threads : ~Holds(u)
           /\ \A n \in Caps : StampIs(sizeCtl, n) => n = tab[t]
<1>1. SharedTypes
  BY DEF IInv, TypeOK
<1>2. sizeCtl < -1
  BY <1>1 DEF CInv, Quiet, SharedTypes
<1>3. PICK n \in Caps : Resizing(n)
  BY <1>2 DEF CInv, Counted
<1>4. tab[t] = n
  BY <1>3 DEF Resizing
<1>5. StampIs(sizeCtl, n)
  BY <1>3 DEF Resizing
<1>6. \A u \in Threads : ~Holds(u)
  BY <1>1, <1>2 DEF CInv, Held, SharedTypes
<1>7. \A m \in Caps : StampIs(sizeCtl, m) => m = n
  BY <1>1, <1>5, StampUnique DEF SharedTypes
<1> QED
  BY <1>2, <1>3, <1>4, <1>6, <1>7

-----------------------------------------------------------------------------
(* The steps that change size_ctl or a pointer. *)

(* size_ctl goes from a threshold to -1: one thread holds it. *)
LEMMA ClaimInv ==
    ASSUME IInv, IInv', CInv, NEW t \in Threads, Elsewhere(t), Knows(t)',
           sizeCtl = ld[t], ld[t] >= 0, sizeCtl' = -1, UNCHANGED <<table, nextTable, moved, fwd>>,
           UNCHANGED <<ld[t], fin[t]>>, Holds(t)', ~Transfers(t)', ~Opens(t)'
    PROVE  CInv'
<1>1. SharedTypes /\ SharedTypes' /\ LocalTypes
  BY DEF IInv, TypeOK
<1>2. \A n \in Caps : ~StampIs(sizeCtl, n) /\ ~StampIs(sizeCtl, n)'
  BY <1>1, StampUnique DEF SharedTypes, StampIs, ResizeStamp
<1>3. \A u \in Threads : ~Holds(u) /\ ~Transfers(u)
  BY <1>1 DEF CInv, Held, Quiet, SharedTypes
<1>4. \A u \in Threads : ~Transfers(u)' /\ (Holds(u)' => u = t)
  BY <1>3, SameClass DEF Elsewhere
<1>5. Counted' /\ Quiet' /\ AtRest'
  BY <1>1, <1>4, TableNat DEF CInv, Counted, Quiet, AtRest
<1>10. Forwards'
  BY DEF CInv, Forwards
<1>6. Threshold(table)' = Threshold(table)
  BY DEF Threshold, LoadFactor
<1>7. Held'
  BY <1>4, <1>6 DEF CInv, Held, AtRest
<1>8. OneEach'
  BY SameClass DEF CInv, OneEach, Elsewhere, Same
<1>9. ASSUME NEW u \in Threads, u # t PROVE Knows(u)'
  <2>1. Same(u) /\ Knows(u)
    BY <1>9 DEF Elsewhere, CInv
  <2>2. KnowsNext(u)'
    BY <2>1 DEF Same, Knows, KnowsNext
  <2>3. table <= table' /\ \A n \in Caps : Begun(n) => Begun(n)'
    BY <1>1, <1>2, TableNat DEF Begun
  <2> QED
    BY <1>2, <2>1, <2>2, <2>3, OthersKnow
<1> QED
  BY <1>5, <1>7, <1>8, <1>9, <1>10 DEF CInv

(* The holder of -1 stores the first table. *)
LEMMA StoreInv ==
    ASSUME IInv, IInv', CInv, NEW t \in Threads, Elsewhere(t), Knows(t)',
           table = Null, table' # Null, ld'[t] = LoadFactor(table'),
           UNCHANGED <<sizeCtl, nextTable, moved, fwd, fin[t]>>,
           Holds(t), Holds(t)', ~Transfers(t), ~Transfers(t)', ~Opens(t)'
    PROVE  CInv'
<1>1. SharedTypes /\ SharedTypes' /\ LocalTypes
  BY DEF IInv, TypeOK
<1>2. sizeCtl = -1 /\ \A u \in Threads : Holds(u) => u = t
  BY DEF CInv, Held
<1>3. ASSUME NEW u \in Threads
      PROVE  /\ Transfers(u)' <=> Transfers(u)
             /\ Opens(u)' => Opens(u)
             /\ Holds(u)' <=> Holds(u)
             /\ fin'[u] = fin[u]
  BY SameClass DEF Elsewhere, Same
<1>4. Counted' /\ Quiet' /\ AtRest'
  BY <1>2, <1>3 DEF CInv, Counted, Quiet, AtRest
<1>8. Forwards'
  BY DEF CInv, Forwards
<1>5. Threshold(table)' = LoadFactor(table')
  BY DEF Threshold
<1>6. Held'
  <2>1. \A u \in Threads : Holds(u)' <=> u = t
    BY <1>2, <1>3
  <2> QED
    BY <1>2, <1>5, <2>1 DEF Held
<1>9. OneEach'
  BY <1>3 DEF CInv, OneEach
<1>7. ASSUME NEW u \in Threads, u # t PROVE Knows(u)'
  <2>1. Same(u) /\ Knows(u)
    BY <1>7 DEF Elsewhere, CInv
  <2>2. ~Transfers(u)
    BY <1>2 DEF CInv, Quiet
  <2>3. KnowsNext(u)'
    BY <2>1, <2>2 DEF Same, Knows, KnowsNext, Transfers
  <2>4. table <= table' /\ table' \in Nat /\ \A n \in Caps : n \in Nat /\ n > 0
    <3>1. table' \in Caps \cup {Null}
      BY <1>1 DEF SharedTypes
    <3>2. \A n \in Caps : n \in Nat /\ n > 0
      BY Zenon, CapsPositive
    <3> QED
      BY <3>1, <3>2
  <2>5. \A n \in Caps : Begun(n) => Begun(n)'
    BY <2>4 DEF Begun, StampIs, ResizeStamp
  <2>6. \A n \in Caps : StampIs(sizeCtl, n)' => StampIs(sizeCtl, n)
    BY DEF StampIs, ResizeStamp
  <2> QED
    BY <2>1, <2>3, <2>4, <2>5, <2>6, OthersKnow
<1> QED
  BY <1>4, <1>6, <1>7, <1>8, <1>9 DEF CInv

(* The holder of -1 puts the threshold back. *)
LEMMA ReleaseInv ==
    ASSUME IInv, IInv', CInv, NEW t \in Threads, Elsewhere(t), Knows(t)',
           sizeCtl' = ld[t], UNCHANGED <<table, nextTable, moved, fwd, fin[t]>>,
           Holds(t), ~Holds(t)', ~Transfers(t), ~Transfers(t)', ~Opens(t)'
    PROVE  CInv'
<1>1. SharedTypes /\ SharedTypes' /\ LocalTypes
  BY DEF IInv, TypeOK
<1>2. sizeCtl = -1 /\ \A u \in Threads : Holds(u) => u = t
  BY DEF CInv, Held
<1>3. ASSUME NEW u \in Threads
      PROVE  /\ Transfers(u)' <=> Transfers(u)
             /\ Opens(u)' => Opens(u)
             /\ ~Holds(u)'
             /\ fin'[u] = fin[u]
  BY <1>2, SameClass DEF Elsewhere, Same
<1>4. sizeCtl' = Threshold(table) /\ Threshold(table)' = Threshold(table) /\ sizeCtl' \in Nat
  BY <1>1, Thresholds DEF CInv, Held, Threshold, LoadFactor, SharedTypes
<1>5. Counted' /\ Quiet' /\ AtRest'
  BY <1>2, <1>3, <1>4 DEF CInv, Counted, Quiet, AtRest
<1>9. Forwards'
  BY DEF CInv, Forwards
<1>6. Held'
  BY <1>3, <1>4 DEF Held
<1>10. OneEach'
  BY <1>3 DEF CInv, OneEach
<1>7. \A n \in Caps : ~StampIs(sizeCtl, n) /\ ~StampIs(sizeCtl, n)'
  BY <1>1, <1>2, <1>4, StampUnique DEF SharedTypes, StampIs, ResizeStamp
<1>8. ASSUME NEW u \in Threads, u # t PROVE Knows(u)'
  <2>1. Same(u) /\ Knows(u)
    BY <1>8 DEF Elsewhere, CInv
  <2>2. KnowsNext(u)'
    BY <2>1 DEF Same, Knows, KnowsNext
  <2>3. table <= table' /\ \A n \in Caps : Begun(n) => Begun(n)'
    BY <1>1, <1>7, TableNat DEF Begun
  <2> QED
    BY <1>7, <2>1, <2>2, <2>3, OthersKnow
<1> QED
  BY <1>5, <1>6, <1>8, <1>9, <1>10 DEF CInv

(* A thread starts the resize of the table it read: the threshold it read is
   the one in size_ctl, so its table is the current one. *)
LEMMA StartInv ==
    ASSUME IInv, IInv', CInv, NEW t \in Threads, Elsewhere(t),
           pc[t] \in {"AddStart", "PresizeStart"}, sizeCtl = ld[t],
           sizeCtl' = ResizeStamp(tab[t]) + 2, pc'[t] = "TransferAllocate",
           UNCHANGED <<table, nextTable, moved, fwd, tab[t], fin[t]>>
    PROVE  CInv'
<1> DEFINE n == tab[t]
<1>1. SharedTypes /\ SharedTypes' /\ LocalTypes
  BY DEF IInv, TypeOK
<1>2. Knows(t) /\ n \in Caps /\ n < MaxCap /\ table \in Caps \cup {Null}
  BY <1>1, LocalValues DEF CInv, IInv, Locals, SharedTypes
<1>3. table = n
  <2>1. ld[t] >= 0 /\ ld[t] <= Threshold(n) /\ n <= table
    BY <1>2 DEF Knows, KnowsThreshold
  <2>2. sizeCtl = Threshold(table)
    BY <2>1 DEF CInv, AtRest
  <2>3. ~(n < table)
    <3>1. n < table => Threshold(n) < Threshold(table)
      BY <1>2, Thresholds
    <3>2. Threshold(n) \in Nat /\ Threshold(table) \in Nat
      BY <1>2, Thresholds
    <3> QED
      BY <2>1, <2>2, <3>1, <3>2
  <2>4. n \in Nat
    BY <1>2, CapsPositive
  <2>5. table \in Nat
    BY <1>2, CapsPositive
  <2> HIDE DEF n
  <2> QED
    BY <2>1, <2>3, <2>4, <2>5
<1>4. sizeCtl \in Int /\ sizeCtl >= 0
  BY <1>1, <1>2 DEF Knows, KnowsThreshold, SharedTypes
<1>5. nextTable = Null /\ \A u \in Threads : ~Holds(u) /\ ~Transfers(u) /\ ~fin[u]
  <2>1. nextTable = Null /\ \A u \in Threads : ~Holds(u) /\ ~Transfers(u)
    BY <1>4 DEF CInv, Held, Quiet
  <2> QED
    BY <2>1 DEF IInv, Sweep, Transfers
<1>6. /\ Transfers(t)' /\ Opens(t)' /\ ~Holds(t)' /\ ~Commits(t)' /\ ~fin'[t]
      /\ \A u \in Threads : u # t => ~Transfers(u)' /\ ~Opens(u)'
      /\ \A u \in Threads : u # t => ~Holds(u)' /\ ~Commits(u)' /\ ~fin'[u]
  <2>1. Transfers(t)' /\ Opens(t)' /\ ~Holds(t)' /\ ~Commits(t)' /\ ~fin'[t]
    BY <1>5 DEF Transfers, Opens, Holds, Commits
  <2>2. \A u \in Threads : ~Opens(u) /\ ~Commits(u)
    BY <1>5 DEF Transfers, Opens, Commits
  <2> QED
    BY <1>5, <2>1, <2>2, SameClass DEF Elsewhere, Same
<1>7. Workers' = {t}
  BY <1>6 DEF Workers
<1>8. StampIs(sizeCtl, n)' /\ n \in Nat /\ ResizeStamp(n) \in Int
  <2>1. n \in Nat /\ ResizeStamp(n) \in Int /\ ResizeStamp(n)' = ResizeStamp(n)
    BY <1>2, Arithmetic DEF ResizeStamp
  <2> QED
    BY <2>1 DEF StampIs
<1>9. Resizing(n)'
  <2>1. IsFiniteSet(Workers') /\ Cardinality(Workers') = 1
    BY <1>7, FS_Singleton
  <2>2. sizeCtl' = ResizeStamp(n) + 1 + Cardinality(Workers')
    BY <1>8, <2>1
  <2>3. ResizeStamp(n)' = ResizeStamp(n)
    BY DEF ResizeStamp
  <2> QED
    BY <1>2, <1>3, <1>5, <1>6, <1>7, <1>8, <2>1, <2>2, <2>3 DEF Resizing
<1>10. sizeCtl' < -1
  BY <1>1, <1>2, <1>8, StampUnique DEF SharedTypes, StampIs, ResizeStamp
<1>11. Counted' /\ Quiet' /\ AtRest' /\ Forwards' /\ Held' /\ OneEach'
  <2>1. sizeCtl' \in Int
    BY <1>1, TableNat DEF SharedTypes
  <2>2. Counted' /\ Quiet' /\ AtRest'
    BY <1>2, <1>9, <1>10, <2>1 DEF Counted, Quiet, AtRest
  <2>3. Forwards'
    BY DEF CInv, Forwards
  <2>4. Held' /\ OneEach'
    BY <1>6, <1>10, <2>1 DEF Held, OneEach
  <2> QED
    BY <2>2, <2>3, <2>4
<1>12. Knows(t)'
  BY <1>5 DEF Knows, KnowsNext, KnowsStamp, KnowsThreshold
<1>13. ASSUME NEW u \in Threads, u # t PROVE Knows(u)'
  <2>1. Same(u) /\ Knows(u)
    BY <1>13 DEF Elsewhere, CInv
  <2>2. KnowsNext(u)'
    BY <2>1 DEF Same, Knows, KnowsNext
  <2>3. \A m \in Caps : ~StampIs(sizeCtl, m)
    BY <1>4, StampUnique
  <2>4. \A m \in Caps : StampIs(sizeCtl, m)' => m = n
    BY <1>1, <1>2, <1>8, StampUnique DEF SharedTypes, StampIs, ResizeStamp
  <2>5. table <= table' /\ \A m \in Caps : Begun(m) => Begun(m)'
    BY <1>1, <2>3, TableNat DEF Begun
  <2>6. ~Begun(n)
    BY <1>2, <1>3, <2>3, Arithmetic DEF Begun
  <2> QED
    BY <2>1, <2>2, <2>4, <2>5, <2>6, OthersKnow
<1> QED
  BY <1>11, <1>12, <1>13 DEF CInv

(* A thread joins the resize whose stamp it read: it is one more worker. *)
LEMMA JoinInv ==
    ASSUME IInv, IInv', CInv, NEW t \in Threads, Elsewhere(t),
           pc[t] \in {"AddJoin", "HelpJoin"}, sizeCtl = ld[t], StampIs(ld[t], tab[t]),
           sizeCtl' = ld[t] + 1, pc'[t] = "TransferAdvance",
           UNCHANGED <<table, nextTable, moved, fwd, tab[t], nt[t], fin[t]>>
    PROVE  CInv'
<1>1. SharedTypes /\ SharedTypes' /\ LocalTypes
  BY DEF IInv, TypeOK
<1>0. PICK n \in Caps : n = tab[t]
  BY LocalValues DEF IInv, TypeOK, Locals
<1>2. Knows(t) /\ sizeCtl \in Int /\ ResizeStamp(n) \in Int
  BY <1>1, TableNat, Arithmetic DEF CInv
<1>3. StampIs(sizeCtl, n) /\ sizeCtl < -1 /\ \A m \in Caps : StampIs(sizeCtl, m) => m = n
  BY <1>0, <1>2, StampUnique
<1>4. Resizing(n)
  BY <1>3 DEF CInv, Counted, Resizing
<1>5. sizeCtl # ResizeStamp(n) + MaxResizers /\ sizeCtl # ResizeStamp(n) + 1
  BY <1>0, <1>2 DEF Knows, KnowsStamp
<1>6. nt[t] = 2 * n
  BY <1>0, <1>2, <1>3 DEF Knows, KnowsStamp, KnowsNext
<1>7. ~Transfers(t) /\ ~Holds(t) /\ ~Opens(t) /\ ~Commits(t) /\ ~fin[t]
  BY DEF Transfers, Holds, Opens, Commits, IInv, Sweep
<1>8. Transfers(t)' /\ ~Holds(t)' /\ ~Opens(t)' /\ ~Commits(t)' /\ ~fin'[t]
  BY <1>7 DEF Transfers, Holds, Opens, Commits
<1>9. ASSUME NEW u \in Threads, u # t
      PROVE  /\ Transfers(u)' <=> Transfers(u)
             /\ Opens(u)' <=> Opens(u)
             /\ Holds(u)' <=> Holds(u)
             /\ Commits(u)' <=> Commits(u)
             /\ fin'[u] = fin[u] /\ tab'[u] = tab[u]
  BY <1>9, SameClass DEF Elsewhere, Same
<1>10. Workers' = Workers \cup {t} /\ t \notin Workers
  BY <1>7, <1>8, <1>9 DEF Workers
<1>11. StampIs(sizeCtl, n)' /\ ResizeStamp(n)' = ResizeStamp(n)
  BY <1>0, <1>2, <1>3, <1>5 DEF StampIs, ResizeStamp
<1>12. sizeCtl' \in Int /\ sizeCtl' < -1
  BY <1>1, <1>2, <1>11, TableNat, StampUnique DEF SharedTypes, StampIs, ResizeStamp
<1>13. Resizing(n)'
  <2>1. IsFiniteSet(Workers) /\ sizeCtl = ResizeStamp(n) + 1 + Cardinality(Workers)
    BY <1>4 DEF Resizing
  <2>2. IsFiniteSet(Workers') /\ Cardinality(Workers') = Cardinality(Workers) + 1
        /\ Cardinality(Workers) \in Nat
    BY <1>10, <2>1, FS_AddElement, FS_CardinalityType
  <2>3. Workers # {} /\ Workers' # {}
    BY <1>2, <1>5, <1>10, <2>1, FS_EmptySet
  <2>4. \A u \in Threads : ~fin[u]
    BY <1>4, <2>3 DEF Resizing
  <2>5. sizeCtl' = ResizeStamp(n) + 1 + Cardinality(Workers')
    BY <1>2, <2>1, <2>2
  <2>6. \A u \in Threads : Transfers(u)' => tab'[u] = n
    BY <1>0, <1>4, <1>9 DEF Resizing
  <2>7. (\A u \in Threads : ~Commits(u)') => table' = n
    BY <1>4, <1>7, <1>9 DEF Resizing
  <2>8. ~(\E u \in Threads : fin'[u])
    BY <1>8, <1>9, <2>4
  <2> QED
    BY <1>4, <1>11, <2>2, <2>3, <2>5, <2>6, <2>7, <2>8 DEF Resizing
<1>14. Counted' /\ Quiet' /\ AtRest'
  BY <1>12, <1>13 DEF Counted, Quiet, AtRest
<1>15. Forwards'
  BY DEF CInv, Forwards
<1>16. Held' /\ OneEach'
  <2>1. \A u \in Threads : ~Holds(u)
    BY <1>2, <1>3 DEF CInv, Held
  <2>2. \A u \in Threads : ~Holds(u)'
    BY <1>8, <1>9, <2>1
  <2>3. OneEach'
    BY <1>8, <1>9 DEF CInv, OneEach
  <2> QED
    BY <1>12, <2>2, <2>3 DEF Held
<1>17. Knows(t)'
  BY <1>0, <1>6 DEF Knows, KnowsNext, KnowsStamp, KnowsThreshold
<1>18. ASSUME NEW u \in Threads, u # t PROVE Knows(u)'
  <2>1. Same(u) /\ Knows(u)
    BY <1>18 DEF Elsewhere, CInv
  <2>2. KnowsNext(u)'
    BY <2>1 DEF Same, Knows, KnowsNext
  <2>3. \A m \in Caps : StampIs(sizeCtl, m)' => m = n
    BY <1>2, <1>11, <1>12, StampUnique DEF StampIs, ResizeStamp
  <2>4. table <= table' /\ \A m \in Caps : Begun(m) => Begun(m)'
    BY <1>1, <1>3, <1>11, TableNat DEF Begun
  <2> QED
    BY <1>3, <2>1, <2>2, <2>3, <2>4, OthersKnow
<1> QED
  BY <1>14, <1>15, <1>16, <1>17, <1>18 DEF CInv

(* A worker signs off; when it is the last it sweeps. *)
LEMMA SignOffInv ==
    ASSUME IInv, IInv', CInv, NEW t \in Threads, Elsewhere(t), Knows(t)',
           pc[t] = "TransferDone", sizeCtl = ld[t], sizeCtl' = ld[t] - 1,
           UNCHANGED <<table, nextTable, moved, fwd>>,
           ~Holds(t)', ~Opens(t)', ~Commits(t)',
           \/ ld[t] - 2 # ResizeStamp(tab[t]) /\ ~Transfers(t)' /\ ~fin'[t]
           \/ ld[t] - 2 = ResizeStamp(tab[t]) /\ Transfers(t)' /\ fin'[t] /\ tab'[t] = tab[t]
    PROVE  CInv'
<1>1. SharedTypes /\ SharedTypes' /\ LocalTypes
  BY DEF IInv, TypeOK
<1>0. PICK n \in Caps : n = tab[t]
  BY LocalValues DEF IInv, TypeOK, Locals
<1>2. Transfers(t) /\ ~Opens(t) /\ ~Commits(t) /\ ~fin[t]
  BY DEF Transfers, Opens, Commits, IInv, Sweep
<1>3. /\ Resizing(n) /\ \A u \in Threads : ~Holds(u)
      /\ \A m \in Caps : StampIs(sizeCtl, m) => m = n
  BY <1>0, <1>2, InResize
<1>4. sizeCtl \in Int /\ sizeCtl' \in Int /\ ResizeStamp(n) \in Int
  BY <1>1, TableNat, Arithmetic DEF SharedTypes
<1>5. ASSUME NEW u \in Threads, u # t
      PROVE  /\ Transfers(u)' <=> Transfers(u)
             /\ Opens(u)' <=> Opens(u)
             /\ Holds(u)' <=> Holds(u)
             /\ Commits(u)' <=> Commits(u)
             /\ fin'[u] = fin[u] /\ tab'[u] = tab[u]
  BY <1>5, SameClass DEF Elsewhere, Same
<1>6. Workers' = Workers \ {t} /\ t \in Workers
  BY <1>2, <1>5 DEF Workers
<1>7. /\ IsFiniteSet(Workers') /\ Cardinality(Workers') \in Nat
      /\ sizeCtl' = ResizeStamp(n) + 1 + Cardinality(Workers')
  <2>1. IsFiniteSet(Workers) /\ sizeCtl = ResizeStamp(n) + 1 + Cardinality(Workers)
    BY <1>3 DEF Resizing
  <2>2. IsFiniteSet(Workers') /\ Cardinality(Workers') = Cardinality(Workers) - 1
        /\ Cardinality(Workers) \in Nat /\ Cardinality(Workers') \in Nat
    BY <1>6, <2>1, FS_RemoveElement, FS_CardinalityType
  <2> QED
    BY <1>4, <2>1, <2>2
<1>8. Workers' = {} <=> ld[t] - 2 = ResizeStamp(n)
  <2>1. Workers' = {} <=> Cardinality(Workers') = 0
    BY <1>7, FS_EmptySet
  <2> QED
    BY <1>0, <1>4, <1>7, <2>1
<1>9. \A u \in Threads : ~fin[u]
  BY <1>3, <1>6 DEF Resizing
<1>10. StampIs(sizeCtl, n)' /\ sizeCtl' < -1
  <2>1. ResizeStamp(n) <= sizeCtl' /\ sizeCtl' <= ResizeStamp(n) + MaxResizers
    BY <1>3, <1>4, <1>7 DEF Resizing, StampIs
  <2>2. sizeCtl' < sizeCtl /\ sizeCtl < -1
    BY <1>2, <1>4, InResize
  <2> QED
    BY <1>4, <2>1, <2>2 DEF StampIs
<1>11. Resizing(n)'
  <2>1. \A u \in Threads : Transfers(u)' => tab'[u] = n
    BY <1>0, <1>3, <1>5 DEF Resizing
  <2>2. (\A u \in Threads : ~Commits(u)') => table' = n
    BY <1>2, <1>3, <1>5 DEF Resizing
  <2>3. (\E u \in Threads : fin'[u]) <=> Workers' = {}
    <3>1. \A u \in Threads : u # t => ~fin'[u]
      BY <1>5, <1>9
    <3>2. fin'[t] \in BOOLEAN /\ (fin'[t] <=> ld[t] - 2 = ResizeStamp(tab[t]))
      BY <1>1, <1>4 DEF IInv, TypeOK, LocalTypes
    <3> QED
      BY <1>0, <1>8, <3>1, <3>2
  <2> QED
    BY <1>3, <1>7, <1>10, <2>1, <2>2, <2>3 DEF Resizing, ResizeStamp
<1>12. Counted' /\ Quiet' /\ AtRest'
  BY <1>3, <1>4, <1>10, <1>11 DEF Counted, Quiet, AtRest
<1>13. Forwards'
  BY DEF CInv, Forwards
<1>14. Held' /\ OneEach'
  <2>1. \A u \in Threads : ~Holds(u)'
    BY <1>3, <1>5
  <2>2. OneEach'
    BY <1>5, <1>9 DEF CInv, OneEach
  <2> QED
    BY <1>4, <1>10, <2>1, <2>2 DEF Held
<1>15. ASSUME NEW u \in Threads, u # t PROVE Knows(u)'
  <2>1. Same(u) /\ Knows(u)
    BY <1>15 DEF Elsewhere, CInv
  <2>2. KnowsNext(u)'
    BY <2>1 DEF Same, Knows, KnowsNext
  <2>3. \A m \in Caps : StampIs(sizeCtl, m)' => m = n
    BY <1>3, <1>4, <1>10, StampUnique DEF StampIs, ResizeStamp
  <2>4. StampIs(sizeCtl, n)
    BY <1>3 DEF Resizing
  <2>5. table <= table' /\ \A m \in Caps : Begun(m) => Begun(m)'
    BY <1>1, <1>3, <1>10, <2>4, TableNat DEF Begun
  <2> QED
    BY <2>1, <2>2, <2>3, <2>4, <2>5, OthersKnow
<1> QED
  BY <1>12, <1>13, <1>14, <1>15 DEF CInv

(* next_table is set by the one thread that opens the resize, before anybody
   sweeps, and cleared by the one that sweeps, when nobody works. *)
LEMMA NextTableInv ==
    ASSUME IInv, IInv', CInv, NEW t \in Threads, Elsewhere(t), Knows(t)',
           UNCHANGED <<table, sizeCtl, moved, fwd, tab[t], fin[t]>>,
           \/ Opens(t) /\ Opens(t)' /\ nextTable' = 2 * tab[t]
           \/ fin[t] /\ ~Opens(t)' /\ nextTable' = Null,
           Transfers(t), Transfers(t)', ~Commits(t), ~Commits(t)', ~Holds(t)'
    PROVE  CInv'
<1>1. SharedTypes /\ SharedTypes' /\ LocalTypes
  BY DEF IInv, TypeOK
<1>0. PICK n \in Caps : n = tab[t]
  BY InResize
<1>2. /\ Resizing(n) /\ sizeCtl < -1 /\ \A u \in Threads : ~Holds(u)
  BY <1>0, InResize
<1>3. ASSUME NEW u \in Threads, u # t
      PROVE  /\ Transfers(u)' <=> Transfers(u)
             /\ Opens(u)' <=> Opens(u)
             /\ Holds(u)' <=> Holds(u)
             /\ Commits(u)' <=> Commits(u)
             /\ fin'[u] = fin[u] /\ tab'[u] = tab[u]
  BY <1>3, SameClass DEF Elsewhere, Same
<1>4. Workers' = Workers
  BY <1>3 DEF Workers
<1>5. Resizing(n)'
  <2>1. \A u \in Threads : Transfers(u)' => tab'[u] = n
    BY <1>0, <1>2, <1>3 DEF Resizing
  <2>2. (\A u \in Threads : ~Commits(u)') => table' = n
    BY <1>2, <1>3 DEF Resizing
  <2>3. (\E u \in Threads : fin'[u]) <=> (\E u \in Threads : fin[u])
    BY <1>3
  <2>4. StampIs(sizeCtl, n)' <=> StampIs(sizeCtl, n)
    BY DEF StampIs, ResizeStamp
  <2>5. nextTable' \in {Null, 2 * n}
    BY <1>0
  <2>6. /\ n < MaxCap /\ StampIs(sizeCtl, n) /\ IsFiniteSet(Workers)
        /\ sizeCtl' = ResizeStamp(n) + 1 + Cardinality(Workers)
        /\ (\E u \in Threads : fin[u]) <=> Workers = {}
    BY <1>2 DEF Resizing
  <2>7. ResizeStamp(n)' = ResizeStamp(n)
    BY DEF ResizeStamp
  <2> QED
    BY <1>4, <2>1, <2>2, <2>3, <2>4, <2>5, <2>6, <2>7 DEF Resizing
<1>6. sizeCtl \in Int /\ sizeCtl' = sizeCtl
  BY <1>1, TableNat
<1>7. Counted' /\ Quiet' /\ AtRest'
  <2>1. sizeCtl' < -1 /\ ~(sizeCtl' >= -1) /\ ~(sizeCtl' >= 0)
    BY <1>2, <1>6
  <2>2. \E m \in Caps : Resizing(m)'
    BY <1>5
  <2> QED
    BY <2>1, <2>2 DEF Counted, Quiet, AtRest
<1>8. Forwards'
  BY DEF CInv, Forwards
<1>9. Held' /\ OneEach'
  <2>1. \A u \in Threads : ~Holds(u)'
    BY <1>2, <1>3
  <2>2. OneEach'
    BY <1>3 DEF CInv, OneEach
  <2> QED
    BY <1>2, <1>6, <2>1, <2>2 DEF Held
<1>10. ASSUME NEW u \in Threads, u # t PROVE Knows(u)'
  <2>1. Same(u) /\ Knows(u)
    BY <1>10 DEF Elsewhere, CInv
  <2>2. KnowsNext(u)'
    <3>1. CASE fin[t]
      <4>1. ~Transfers(u)
        BY <1>10, <3>1, SweeperAlone
      <4> QED
        BY <2>1, <4>1 DEF Same, Knows, KnowsNext, Transfers
    <3>2. CASE ~fin[t] /\ Opens(t)
      <4>1. ~Opens(u)
        BY <1>10, <3>2 DEF CInv, OneEach
      <4>2. ~fin[u]
        BY <1>2, <3>2 DEF Resizing, Workers
      <4>3. pc[u] \notin CommitPcs
        BY <4>2 DEF IInv, Sweep
      <4> QED
        BY <2>1, <4>1, <4>3 DEF Same, Knows, KnowsNext, Opens
    <3> QED
      BY <3>1, <3>2
  <2>3. \A m \in Caps : StampIs(sizeCtl, m)' <=> StampIs(sizeCtl, m)
    BY DEF StampIs, ResizeStamp
  <2>4. table <= table' /\ \A m \in Caps : Begun(m) => Begun(m)'
    BY <1>1, <2>3, TableNat DEF Begun
  <2> QED
    BY <2>1, <2>2, <2>3, <2>4, OthersKnow
<1> QED
  BY <1>7, <1>8, <1>9, <1>10 DEF CInv

(* The old table is made to point at the next one, or a bin of it is marked. *)
LEMMA MarkInv ==
    ASSUME IInv, IInv', CInv, NEW t \in Threads, Elsewhere(t), Knows(t)',
           UNCHANGED <<table, nextTable, sizeCtl, tab[t], fin[t]>>, Forwards',
           Transfers(t), Transfers(t)', ~Opens(t)', ~Commits(t), ~Commits(t)', ~Holds(t), ~Holds(t)'
    PROVE  CInv'
<1>1. ASSUME NEW u \in Threads
      PROVE  /\ Transfers(u)' <=> Transfers(u)
             /\ Opens(u)' => Opens(u)
             /\ Holds(u)' <=> Holds(u)
             /\ Commits(u)' <=> Commits(u)
             /\ fin'[u] = fin[u]
             /\ Transfers(u) => tab'[u] = tab[u]
             /\ Holds(u) => ld'[u] = ld[u]
  BY SameClass DEF Elsewhere, Same
<1>2. Workers' = Workers
  BY <1>1 DEF Workers
<1>3. ASSUME NEW n \in Caps, Resizing(n) PROVE Resizing(n)'
  BY <1>1, <1>2, <1>3 DEF Resizing, StampIs, ResizeStamp
<1>4. Counted'
  BY <1>3 DEF CInv, Counted
<1>5. Quiet' /\ AtRest'
  BY <1>1, SameThreshold DEF CInv, Quiet, AtRest
<1>6. Held' /\ OneEach'
  BY <1>1, SameThreshold DEF CInv, Held, OneEach
<1>7. ASSUME NEW u \in Threads, u # t PROVE Knows(u)'
  <2>1. Same(u) /\ Knows(u)
    BY <1>7 DEF Elsewhere, CInv
  <2>2. KnowsNext(u)'
    BY <2>1 DEF Same, Knows, KnowsNext
  <2>3. \A m \in Caps : StampIs(sizeCtl, m)' <=> StampIs(sizeCtl, m)
    BY DEF StampIs, ResizeStamp
  <2>4. table <= table' /\ \A m \in Caps : Begun(m) => Begun(m)'
    BY <2>3, TableNat DEF Begun, IInv, TypeOK
  <2> QED
    BY <2>1, <2>2, <2>3, <2>4, OthersKnow
<1> QED
  BY <1>4, <1>5, <1>6, <1>7 DEF CInv

(* The sweeper, alone by now, moves the map on to the next table. *)
LEMMA SwapInv ==
    ASSUME IInv, IInv', CInv, NEW t \in Threads, Elsewhere(t), TransferSwap(t)
    PROVE  CInv'
<1>1. SharedTypes /\ SharedTypes' /\ LocalTypes
  BY DEF IInv, TypeOK
<1>2. /\ pc[t] = "TransferSwap" /\ table' = nt[t] /\ pc'[t] = "TransferCommit"
      /\ UNCHANGED <<nextTable, sizeCtl, moved, fwd, locals>>
  BY <1>1 DEF TransferSwap, Goto, LocalTypes
<1>3. Transfers(t) /\ Transfers(t)' /\ Commits(t)' /\ ~Holds(t)' /\ ~Opens(t)' /\ fin[t]
  BY <1>2 DEF Transfers, Commits, Holds, Opens, IInv, Sweep
<1>0. PICK n \in Caps : n = tab[t]
  BY <1>3, InResize
<1>4. /\ Resizing(n) /\ sizeCtl < -1 /\ \A u \in Threads : ~Holds(u)
  BY <1>0, <1>3, InResize
<1>5. Knows(t) /\ nt[t] = 2 * n /\ nextTable = Null
  BY <1>0, <1>2 DEF CInv, Knows, KnowsNext
<1>6. table = n /\ table' = 2 * n /\ n \in Nat /\ n > 0
  <2>1. \A u \in Threads : ~Commits(u)
    BY <1>2, <1>3, SweeperAlone DEF Commits, Transfers
  <2>2. table = n
    BY <1>4, <2>1 DEF Resizing
  <2> QED
    BY <1>0, <1>2, <1>5, <2>2, CapsPositive
<1>7. ASSUME NEW u \in Threads, u # t
      PROVE  /\ Transfers(u)' <=> Transfers(u)
             /\ Opens(u)' <=> Opens(u)
             /\ Holds(u)' <=> Holds(u)
             /\ fin'[u] = fin[u] /\ tab'[u] = tab[u]
  BY <1>7, SameClass DEF Elsewhere, Same
<1>8. Workers' = Workers
  BY <1>2, <1>3, <1>7 DEF Workers
<1>9. Resizing(n)'
  <2>1. \A u \in Threads : Transfers(u)' => tab'[u] = n
    BY <1>0, <1>2, <1>4, <1>7 DEF Resizing
  <2>2. StampIs(sizeCtl, n)' <=> StampIs(sizeCtl, n)
    BY <1>2 DEF StampIs, ResizeStamp
  <2> QED
    BY <1>2, <1>3, <1>4, <1>8, <2>1, <2>2 DEF Resizing, ResizeStamp
<1>10. sizeCtl \in Int /\ sizeCtl' = sizeCtl
  BY <1>1, <1>2, TableNat
<1>11. Counted' /\ Quiet' /\ AtRest'
  BY <1>4, <1>9, <1>10 DEF Counted, Quiet, AtRest
<1>12. Forwards'
  BY <1>2 DEF CInv, Forwards
<1>13. Held' /\ OneEach'
  <2>1. \A u \in Threads : ~Holds(u)'
    BY <1>3, <1>4, <1>7
  <2>2. OneEach'
    BY <1>2, <1>3, <1>7 DEF CInv, OneEach
  <2> QED
    BY <1>4, <1>10, <2>1, <2>2 DEF Held
<1>14. Knows(t)'
  BY <1>0, <1>2, <1>5, <1>6 DEF Knows, KnowsNext, KnowsStamp, KnowsThreshold
<1>15. ASSUME NEW u \in Threads, u # t PROVE Knows(u)'
  <2>1. Same(u) /\ Knows(u)
    BY <1>15 DEF Elsewhere, CInv
  <2>2. ~Transfers(u)
    BY <1>3, <1>15, SweeperAlone
  <2>3. KnowsNext(u)'
    BY <2>1, <2>2 DEF Same, Knows, KnowsNext, Transfers
  <2>4. \A m \in Caps : StampIs(sizeCtl, m)' <=> StampIs(sizeCtl, m)
    BY <1>2 DEF StampIs, ResizeStamp
  <2>5. table <= table' /\ \A m \in Caps : Begun(m) => Begun(m)'
    BY <1>6, <2>4, Arithmetic DEF Begun
  <2> QED
    BY <2>1, <2>3, <2>4, <2>5, OthersKnow
<1> QED
  BY <1>11, <1>12, <1>13, <1>14, <1>15 DEF CInv

(* The sweeper ends the resize: size_ctl is the threshold of the new table. *)
LEMMA CommitInv ==
    ASSUME IInv, IInv', CInv, NEW t \in Threads, Elsewhere(t), Knows(t)',
           pc[t] = "TransferCommit", sizeCtl' = 2 * tab[t] - (tab[t] \div 2),
           UNCHANGED <<table, nextTable, moved, fwd>>,
           ~Transfers(t)', ~Holds(t)', ~Opens(t)', ~fin'[t]
    PROVE  CInv'
<1>1. SharedTypes /\ SharedTypes' /\ LocalTypes
  BY DEF IInv, TypeOK
<1>2. Transfers(t) /\ fin[t]
  BY DEF Transfers, IInv, Sweep
<1>0. PICK n \in Caps : n = tab[t]
  BY <1>2, InResize
<1>3. /\ Resizing(n) /\ sizeCtl < -1 /\ \A u \in Threads : ~Holds(u)
      /\ \A m \in Caps : StampIs(sizeCtl, m) => m = n
  BY <1>0, <1>2, InResize
<1>4. nextTable = Null /\ table = 2 * n
  BY <1>0 DEF CInv, Knows, KnowsNext
<1>5. sizeCtl' = Threshold(table) /\ table > n /\ sizeCtl' \in Nat
  <2>1. n < MaxCap
    BY <1>3 DEF Resizing
  <2>2. 2 * n \in Caps /\ n < 2 * n /\ 2 * n - (n \div 2) = Threshold(2 * n)
    BY <2>1, Thresholds
  <2>3. Threshold(2 * n) \in Nat
    BY <2>2, Thresholds
  <2> QED
    BY <1>0, <1>4, <2>2, <2>3
<1>6. \A u \in Threads : u # t => ~Transfers(u)
  BY <1>2, SweeperAlone
<1>7. \A u \in Threads : ~Transfers(u)' /\ ~Holds(u)' /\ ~Opens(u)' /\ ~fin'[u]
  <2>1. ASSUME NEW u \in Threads, u # t PROVE ~Transfers(u)' /\ ~Holds(u)' /\ ~Opens(u)' /\ ~fin'[u]
    <3>1. Same(u) /\ ~Transfers(u) /\ ~Holds(u)
      BY <1>3, <1>6, <2>1 DEF Elsewhere
    <3>2. ~Opens(u) /\ ~fin[u]
      BY <3>1 DEF Opens, Transfers, IInv, Sweep
    <3> QED
      BY <3>1, <3>2, SameClass DEF Same
  <2> QED
    BY <2>1
<1>8. Counted' /\ Quiet' /\ AtRest'
  BY <1>4, <1>5, <1>7, SameThreshold DEF Counted, Quiet, AtRest
<1>9. Forwards'
  BY DEF CInv, Forwards
<1>10. Held' /\ OneEach'
  BY <1>5, <1>7 DEF Held, OneEach
<1>11. ASSUME NEW u \in Threads, u # t PROVE Knows(u)'
  <2>1. Same(u) /\ Knows(u)
    BY <1>11 DEF Elsewhere, CInv
  <2>2. KnowsNext(u)'
    BY <2>1 DEF Same, Knows, KnowsNext
  <2>3. \A m \in Caps : ~StampIs(sizeCtl, m)'
    BY <1>5, StampUnique DEF StampIs, ResizeStamp
  <2>4. table <= table' /\ \A m \in Caps : Begun(m) => Begun(m)'
    BY <1>1, <1>3, <1>5, TableNat DEF Begun
  <2> QED
    BY <2>1, <2>2, <2>3, <2>4, OthersKnow
<1> QED
  BY <1>8, <1>9, <1>10, <1>11 DEF CInv

-----------------------------------------------------------------------------
(* Every step of a routine. *)

(* size_ctl is never above the threshold of the table. *)
LEMMA BelowThreshold ==
    ASSUME SharedTypes, CInv
    PROVE  sizeCtl <= Threshold(table)
<1>1. Threshold(table) \in Nat /\ sizeCtl \in Int
  BY Thresholds, TableNat DEF SharedTypes
<1>2. sizeCtl >= 0 => sizeCtl = Threshold(table)
  BY DEF CInv, AtRest
<1> QED
  BY <1>1, <1>2

LEMMA Leaves ==
    ASSUME LocalTypes, NEW t \in Threads, LeaveTransfer(t)
    PROVE  Knows(t)' /\ ~Holds(t)' /\ ~Opens(t)' /\ ~Commits(t)' /\ ~Transfers(t)' /\ ~fin'[t]
<1>1. pc'[t] \in {"idle", "AddReload", "PresizeLoad"} /\ ~fin'[t]
  BY DEF LocalTypes, LeaveTransfer, Return, Goto, Set
<1> QED
  BY <1>1 DEF Holds, Opens, Commits, Transfers, Knows, KnowsNext, KnowsStamp, KnowsThreshold

(* What the operations do before they call a routine. *)
LEMMA CallCounts ==
    ASSUME IInv, CInv, NEW t \in Threads, AnyCall(t)
    PROVE  CInv'
<1>1. Elsewhere(t) /\ IInv'
  BY OthersSame, CallInv DEF IInv, TypeOK
<1>2. SharedTypes /\ LocalTypes
  BY DEF IInv, TypeOK
<1>3. fin[t] => pc[t] \in {"TransferAdvance", "TransferBin"} \cup CommitPcs
  BY DEF IInv, Sweep
<1>4. Knows(t)
  BY DEF CInv
<1>5. ASSUME NEW result, Return(t, result), pc[t] \notin TransferPcs
      PROVE  pc'[t] = "idle" /\ fin'[t] = fin[t]
  BY <1>2, <1>3, <1>5 DEF LocalTypes, Return, Goto, Set
<1>11. CASE SetsTab(t)
  <2>1. Keeps(t)
    BY <1>11, <1>2, <1>3 DEF SetsTab, Keeps, Transfers, Opens, Holds, Commits, LocalTypes, Set
  <2>2. Knows(t)'
    BY <1>11, <1>2, <1>4 DEF SetsTab, LocalTypes, Knows, KnowsNext, KnowsStamp, KnowsThreshold, Set
  <2> QED
    BY <1>1, <2>1, <2>2, KeepsInv
<1>12. CASE CallInitTable(t)
  <2>1. Keeps(t)
    BY <1>12, <1>2, <1>3 DEF CallInitTable, Keeps, Transfers, Opens, Holds, Commits, LocalTypes, Goto
  <2>2. Knows(t)'
    BY <1>12, <1>2, <1>4 DEF CallInitTable, LocalTypes, Knows, KnowsNext, KnowsStamp, KnowsThreshold, Goto
  <2> QED
    BY <1>1, <2>1, <2>2, KeepsInv
<1>13. CASE CallHelpTransfer(t)
  <2>1. Keeps(t)
    BY <1>13, <1>2, <1>3 DEF CallHelpTransfer, Keeps, Transfers, Opens, Holds, Commits, LocalTypes, Goto, Set
  <2>2. Knows(t)'
    BY <1>13, <1>2, <1>4 DEF CallHelpTransfer, LocalTypes, Knows, KnowsNext, KnowsStamp, KnowsThreshold, Goto, Set
  <2> QED
    BY <1>1, <2>1, <2>2, KeepsInv
<1>14. ASSUME NEW size \in Nat, CallTryPresize(t, size) PROVE CInv'
  <2>1. Keeps(t)
    BY <1>14, <1>2, <1>3 DEF CallTryPresize, Keeps, Transfers, Opens, Holds, Commits, LocalTypes, Goto, Set
  <2>2. Knows(t)'
    BY <1>14, <1>2, <1>4 DEF CallTryPresize, LocalTypes, Knows, KnowsNext, KnowsStamp, KnowsThreshold, Goto, Set
  <2> QED
    BY <1>1, <2>1, <2>2, KeepsInv
<1>15. ASSUME NEW d \in Int, NEW hint \in BOOLEAN, CallAddCount(t, d, hint) PROVE CInv'
  <2>1. Keeps(t)
    BY <1>15, <1>2, <1>3 DEF CallAddCount, Keeps, Transfers, Opens, Holds, Commits, LocalTypes, Goto, Set
  <2>2. Knows(t)'
    BY <1>15, <1>2, <1>4 DEF CallAddCount, LocalTypes, Knows, KnowsNext, KnowsStamp, KnowsThreshold, Goto, Set
  <2> QED
    BY <1>1, <2>1, <2>2, KeepsInv
<1> QED
  BY <1>11, <1>12, <1>13, <1>14, <1>15 DEF AnyCall

(* init_table. *)
LEMMA InitTableCounts ==
    ASSUME IInv, CInv, NEW t \in Threads, InitTable(t)
    PROVE  CInv'
<1>1. Elsewhere(t) /\ IInv'
  BY OthersSame, InitTableInv DEF Step, IInv, TypeOK
<1>2. SharedTypes /\ LocalTypes
  BY DEF IInv, TypeOK
<1>3. fin[t] => pc[t] \in {"TransferAdvance", "TransferBin"} \cup CommitPcs
  BY DEF IInv, Sweep
<1>4. Knows(t)
  BY DEF CInv
<1>5. ASSUME NEW result, Return(t, result), pc[t] \notin TransferPcs
      PROVE  pc'[t] = "idle" /\ fin'[t] = fin[t]
  BY <1>2, <1>3, <1>5 DEF LocalTypes, Return, Goto, Set
<1>11. CASE InitLoadTable(t)
  <2>1. Keeps(t)
    BY <1>11, <1>2, <1>3, <1>5 DEF InitLoadTable, Keeps, Transfers, Opens, Holds, Commits, LocalTypes, Goto, Set
  <2>2. Knows(t)'
    BY <1>11, <1>2, <1>4 DEF InitLoadTable, LocalTypes, Knows, KnowsNext, KnowsStamp, KnowsThreshold, Goto, Set, Return
  <2> QED
    BY <1>1, <2>1, <2>2, KeepsInv
<1>12. CASE InitLoadSizeCtl(t)
  <2>1. Keeps(t)
    BY <1>12, <1>2, <1>3 DEF InitLoadSizeCtl, Keeps, Transfers, Opens, Holds, Commits, LocalTypes, Goto, Set
  <2>2. Knows(t)'
    BY <1>12, <1>2, <1>4, TableNat DEF InitLoadSizeCtl, LocalTypes, Knows, KnowsNext, KnowsStamp, KnowsThreshold, Goto, Set
  <2> QED
    BY <1>1, <2>1, <2>2, KeepsInv
<1>13. CASE InitClaim(t)
  <2>1. CASE sizeCtl # ld[t]
    <3>1. Keeps(t) /\ Knows(t)'
      BY <1>13, <1>2, <1>3, <2>1 DEF InitClaim, Goto, Keeps, Transfers, Opens, Holds, Commits, LocalTypes,
         Knows, KnowsNext, KnowsStamp, KnowsThreshold
    <3> QED
      BY <1>1, <3>1, KeepsInv
  <2>2. CASE sizeCtl = ld[t]
    <3>1. /\ pc[t] = "InitClaim" /\ pc'[t] = "InitRecheck" /\ sizeCtl' = -1
          /\ UNCHANGED <<table, nextTable, moved, fwd, ld, fin>>
      BY <1>13, <1>2, <2>2 DEF InitClaim, Goto, LocalTypes
    <3>2. Knows(t)' /\ ld[t] >= 0 /\ Holds(t)' /\ ~Transfers(t)' /\ ~Opens(t)'
      BY <1>4, <3>1 DEF Transfers, Opens, Holds, Knows, KnowsNext, KnowsStamp, KnowsThreshold
    <3> QED
      BY <1>1, <2>2, <3>1, <3>2, ClaimInv
  <2> QED
    BY <2>1, <2>2
<1>14. CASE InitRecheck(t)
  <2>1. Keeps(t)
    BY <1>14, <1>2, <1>3 DEF InitRecheck, Keeps, Transfers, Opens, Holds, Commits, LocalTypes, Goto, Set
  <2>2. Knows(t)'
    BY <1>14, <1>2, <1>4 DEF InitRecheck, LocalTypes, Knows, KnowsNext, KnowsStamp, KnowsThreshold, Goto, Set
  <2> QED
    BY <1>1, <2>1, <2>2, KeepsInv
<1>15. CASE InitStoreTable(t)
  <2> DEFINE n == IF ld[t] > 0 THEN ld[t] ELSE InitCap
  <2>1. /\ pc[t] = "InitStoreTable" /\ pc'[t] = "InitStoreSizeCtl"
        /\ table' = n /\ ld'[t] = LoadFactor(n)
        /\ UNCHANGED <<sizeCtl, nextTable, moved, fwd, fin>>
    BY <1>15, <1>2 DEF InitStoreTable, Goto, Set, LocalTypes
  <2>2. table = Null /\ table' # Null
    <3>1. table = Null
      BY <2>1 DEF IInv, FirstTableOnce
    <3>2. InitCap # Null
      OBVIOUS
    <3>3. ld[t] \in Int
      BY <1>2, LocalValues
    <3> QED
      BY <2>1, <3>1, <3>2, <3>3
  <2>3. Knows(t)' /\ Holds(t) /\ Holds(t)' /\ ~Transfers(t) /\ ~Transfers(t)' /\ ~Opens(t)'
    BY <2>1 DEF Transfers, Opens, Holds, Knows, KnowsNext, KnowsStamp, KnowsThreshold
  <2> HIDE DEF n
  <2> QED
    BY <1>1, <2>1, <2>2, <2>3, StoreInv
<1>16. CASE InitStoreSizeCtl(t)
  <2>1. /\ pc[t] = "InitStoreSizeCtl" /\ pc'[t] = "idle" /\ sizeCtl' = ld[t]
        /\ UNCHANGED <<table, nextTable, moved, fwd>> /\ ~fin'[t]
    BY <1>16, <1>2 DEF InitStoreSizeCtl, Return, Goto, Set, LocalTypes
  <2>2. fin'[t] = fin[t]
    BY <1>1, <1>2, <1>3, <2>1 DEF LocalTypes, IInv, TypeOK
  <2>3. Knows(t)' /\ Holds(t) /\ ~Holds(t)' /\ ~Transfers(t) /\ ~Transfers(t)' /\ ~Opens(t)'
    BY <2>1 DEF Transfers, Opens, Holds, Knows, KnowsNext, KnowsStamp, KnowsThreshold
  <2> QED
    BY <1>1, <2>1, <2>2, <2>3, ReleaseInv
<1> QED
  BY <1>11, <1>12, <1>13, <1>14, <1>15, <1>16 DEF InitTable

(* add_count. *)
LEMMA AddCountCounts ==
    ASSUME IInv, CInv, NEW t \in Threads, AddCount(t), JoinsMatch
    PROVE  CInv'
<1>1. Elsewhere(t) /\ IInv'
  BY OthersSame, AddCountInv DEF Step, IInv, TypeOK
<1>2. SharedTypes /\ LocalTypes
  BY DEF IInv, TypeOK
<1>3. fin[t] => pc[t] \in {"TransferAdvance", "TransferBin"} \cup CommitPcs
  BY DEF IInv, Sweep
<1>4. Knows(t)
  BY DEF CInv
<1>5. ASSUME NEW result, Return(t, result), pc[t] \notin TransferPcs
      PROVE  pc'[t] = "idle" /\ fin'[t] = fin[t]
  BY <1>2, <1>3, <1>5 DEF LocalTypes, Return, Goto, Set
<1>11. CASE AddLoadSizeCtl(t)
  <2>1. Keeps(t)
    BY <1>11, <1>2, <1>3, <1>5 DEF AddLoadSizeCtl, Keeps, Transfers, Opens, Holds, Commits, LocalTypes, Goto, Set
  <2>2. Knows(t)'
    <3>1. CASE arg[t] < sizeCtl
      BY <1>11, <1>2, <3>1 DEF AddLoadSizeCtl, Return, Goto, LocalTypes, Knows, KnowsNext, KnowsStamp, KnowsThreshold
    <3>2. CASE ~(arg[t] < sizeCtl)
      <4>1. /\ pc'[t] = "AddLoadTable" /\ ld'[t] = sizeCtl /\ sizeCtl' = sizeCtl /\ table' = table
        BY <1>11, <1>2, <3>2 DEF AddLoadSizeCtl, Goto, Set, LocalTypes
      <4>2. sizeCtl <= Threshold(table) /\ Threshold(table)' = Threshold(table)
        BY <1>2, <4>1, BelowThreshold, SameThreshold
      <4>3. \A n \in Caps : StampIs(sizeCtl, n) => Begun(n)'
        BY <4>1 DEF Begun, StampIs, ResizeStamp
      <4>4. \A n \in Caps : StampIs(ld[t], n)' => Begun(n)'
        BY <4>1, <4>3 DEF StampIs, ResizeStamp
      <4> QED
        BY <4>1, <4>2, <4>4 DEF Knows, KnowsNext, KnowsStamp, KnowsThreshold
    <3> QED
      BY <3>1, <3>2
  <2> QED
    BY <1>1, <2>1, <2>2, KeepsInv
<1>12. CASE AddLoadTable(t)
  <2>1. Keeps(t)
    BY <1>12, <1>2, <1>3, <1>5 DEF AddLoadTable, Keeps, Transfers, Opens, Holds, Commits, LocalTypes, Goto, Set
  <2>2. Knows(t)'
    <3> DEFINE full == ld[t] \in {ResizeStamp(table) + MaxResizers, ResizeStamp(table) + 1}
    <3>0. table \in Nat /\ ld[t] \in Int /\ ResizeStamp(table) \in Int
      BY <1>2, TableNat, LocalValues, Arithmetic DEF SharedTypes
    <3>1. CASE table = Null \/ table >= MaxCap \/ (ld[t] < 0 /\ full)
      BY <1>12, <1>2, <3>1 DEF AddLoadTable, Return, Goto, LocalTypes, Knows, KnowsNext, KnowsStamp, KnowsThreshold
    <3>2. CASE ~(table = Null \/ table >= MaxCap \/ (ld[t] < 0 /\ full))
      <4>1. /\ pc[t] = "AddLoadTable" /\ tab'[t] = table /\ UNCHANGED <<sizeCtl, table, ld[t]>>
            /\ pc'[t] = IF ld[t] < 0 THEN "AddLoadNext" ELSE "AddStart"
        BY <1>12, <1>2, <3>0, <3>2 DEF AddLoadTable, Goto, Set, LocalTypes
      <4>2. /\ ld[t] <= Threshold(table) /\ Threshold(tab[t])' = Threshold(table)
            /\ \A n \in Caps : StampIs(ld[t], n) => Begun(n)
        BY <1>4, <4>1 DEF Knows, KnowsThreshold, KnowsStamp, Threshold, LoadFactor
      <4>3. \A n \in Caps : StampIs(ld[t], n)' => Begun(n)'
        BY <4>1, <4>2 DEF Begun, StampIs, ResizeStamp
      <4>4. table <= table /\ ld[t] \in Int
        BY <1>2, TableNat, LocalValues
      <4>5. CASE ld[t] < 0
        <5>1. pc'[t] = "AddLoadNext" /\ ~full
          BY <3>2, <4>1, <4>5
        <5>2. ResizeStamp(tab[t])' = ResizeStamp(table)
          BY <4>1 DEF ResizeStamp
        <5> QED
          BY <4>1, <4>3, <5>1, <5>2 DEF Knows, KnowsNext, KnowsStamp, KnowsThreshold
      <4>6. CASE ~(ld[t] < 0)
        BY <4>1, <4>2, <4>4, <4>6 DEF Knows, KnowsNext, KnowsStamp, KnowsThreshold
      <4> QED
        BY <4>5, <4>6
    <3> QED
      BY <3>1, <3>2
  <2> QED
    BY <1>1, <2>1, <2>2, KeepsInv
<1>13. CASE AddLoadNext(t)
  <2>1. Keeps(t)
    BY <1>13, <1>2, <1>3, <1>5 DEF AddLoadNext, Keeps, Transfers, Opens, Holds, Commits, LocalTypes, Goto, Set
  <2>2. Knows(t)'
    <3>1. CASE nextTable = Null
      BY <1>13, <1>2, <3>1 DEF AddLoadNext, Return, Goto, LocalTypes, Knows, KnowsNext, KnowsStamp, KnowsThreshold
    <3>2. CASE nextTable # Null
      <4>1. /\ pc[t] = "AddLoadNext" /\ pc'[t] = "AddLoadIndex" /\ nt'[t] = nextTable
            /\ UNCHANGED <<sizeCtl, table, ld[t], tab[t]>>
        BY <1>13, <1>2, <3>2 DEF AddLoadNext, Goto, Set, LocalTypes
      <4>2. StampIs(sizeCtl, tab[t]) => nextTable = 2 * tab[t]
        <5>1. tab[t] \in Caps /\ sizeCtl \in Int
          BY <1>2, <4>1, LocalValues, TableNat DEF IInv, Locals
        <5> QED
          BY <3>2, <5>1, StampUnique DEF CInv, Counted, Resizing
      <4> QED
        BY <1>4, <4>1, <4>2 DEF Knows, KnowsNext, KnowsStamp, KnowsThreshold, Begun, StampIs, ResizeStamp
    <3> QED
      BY <3>1, <3>2
  <2> QED
    BY <1>1, <2>1, <2>2, KeepsInv
<1>14. CASE AddLoadIndex(t)
  <2>1. Keeps(t)
    BY <1>14, <1>2, <1>3, <1>5 DEF AddLoadIndex, Keeps, Transfers, Opens, Holds, Commits, LocalTypes, Goto, Set
  <2>2. Knows(t)'
    BY <1>14, <1>2, <1>4 DEF AddLoadIndex, LocalTypes, Knows, KnowsNext, KnowsStamp, KnowsThreshold, Begun, StampIs, ResizeStamp, Goto, Set, Return
  <2> QED
    BY <1>1, <2>1, <2>2, KeepsInv
<1>15. CASE AddJoin(t)
  <2>1. CASE sizeCtl # ld[t]
    <3>1. Keeps(t)
      BY <1>15, <1>2, <1>3, <2>1 DEF AddJoin, Goto, Keeps, Transfers, Opens, Holds, Commits, LocalTypes
    <3>2. Knows(t)'
      BY <1>15, <1>2, <1>4, <2>1 DEF AddJoin, Goto, LocalTypes, Knows, KnowsNext, KnowsStamp, KnowsThreshold
    <3> QED
      BY <1>1, <3>1, <3>2, KeepsInv
  <2>2. CASE sizeCtl = ld[t]
    <3>1. pc[t] = "AddJoin" /\ nt[t] # Null
      BY <1>15 DEF AddJoin, IInv, Locals
    <3>2. /\ pc'[t] = "TransferAdvance" /\ sizeCtl' = ld[t] + 1
          /\ UNCHANGED <<table, nextTable, moved, fwd, tab, nt, fin>>
      BY <1>15, <1>2, <2>2, <3>1 DEF AddJoin, EnterTransfer, Goto, LocalTypes
    <3>3. StampIs(ld[t], tab[t])
      BY <3>1, <3>2 DEF JoinsMatch
    <3> QED
      BY <1>1, <2>2, <3>1, <3>2, <3>3, JoinInv
  <2> QED
    BY <2>1, <2>2
<1>16. CASE AddStart(t)
  <2>1. CASE sizeCtl # ld[t]
    <3>1. Keeps(t)
      BY <1>16, <1>2, <1>3, <2>1 DEF AddStart, Goto, Keeps, Transfers, Opens, Holds, Commits, LocalTypes
    <3>2. Knows(t)'
      BY <1>16, <1>2, <1>4, <2>1 DEF AddStart, Goto, LocalTypes, Knows, KnowsNext, KnowsStamp, KnowsThreshold
    <3> QED
      BY <1>1, <3>1, <3>2, KeepsInv
  <2>2. CASE sizeCtl = ld[t]
    <3>1. /\ pc[t] = "AddStart" /\ pc'[t] = "TransferAllocate" /\ sizeCtl' = ResizeStamp(tab[t]) + 2
          /\ UNCHANGED <<table, nextTable, moved, fwd, tab, fin>>
      BY <1>16, <1>2, <2>2 DEF AddStart, EnterTransfer, Goto, LocalTypes
    <3> QED
      BY <1>1, <2>2, <3>1, StartInv
  <2> QED
    BY <2>1, <2>2
<1>17. CASE AddReload(t)
  <2>1. Keeps(t)
    BY <1>17, <1>2, <1>3 DEF AddReload, Keeps, Transfers, Opens, Holds, Commits, LocalTypes, Goto, Set
  <2>2. Knows(t)'
    BY <1>17, <1>2, <1>4 DEF AddReload, LocalTypes, Knows, KnowsNext, KnowsStamp, KnowsThreshold, Goto, Set
  <2> QED
    BY <1>1, <2>1, <2>2, KeepsInv
<1> QED
  BY <1>11, <1>12, <1>13, <1>14, <1>15, <1>16, <1>17 DEF AddCount

(* help_transfer. *)
LEMMA HelpTransferCounts ==
    ASSUME IInv, CInv, NEW t \in Threads, HelpTransfer(t), JoinsMatch
    PROVE  CInv'
<1>1. Elsewhere(t) /\ IInv'
  BY OthersSame, HelpTransferInv DEF Step, IInv, TypeOK
<1>2. SharedTypes /\ LocalTypes
  BY DEF IInv, TypeOK
<1>3. fin[t] => pc[t] \in {"TransferAdvance", "TransferBin"} \cup CommitPcs
  BY DEF IInv, Sweep
<1>4. Knows(t)
  BY DEF CInv
<1>5. ASSUME NEW result, Return(t, result), pc[t] \notin TransferPcs
      PROVE  pc'[t] = "idle" /\ fin'[t] = fin[t]
  BY <1>2, <1>3, <1>5 DEF LocalTypes, Return, Goto, Set
<1>11. CASE HelpForward(t)
  <2>1. Keeps(t)
    BY <1>11, <1>2, <1>3, <1>5 DEF HelpForward, Keeps, Transfers, Opens, Holds, Commits, LocalTypes, Goto, Set
  <2>2. Knows(t)'
    <3>1. CASE fwd[tab[t]] = Null
      BY <1>11, <1>2, <3>1 DEF HelpForward, Return, Goto, LocalTypes, Knows, KnowsNext, KnowsStamp, KnowsThreshold
    <3>2. CASE fwd[tab[t]] # Null
      <4>1. /\ pc[t] = "HelpForward" /\ pc'[t] = "HelpCheckNext" /\ nt'[t] = fwd[tab[t]]
            /\ tab'[t] = tab[t]
        BY <1>11, <1>2, <3>2 DEF HelpForward, Goto, Set, LocalTypes
      <4>2. tab[t] \in Caps
        BY <1>2, <4>1, LocalValues DEF IInv, Locals
      <4>3. fwd[tab[t]] = 2 * tab[t]
        BY <3>2, <4>2 DEF CInv, Forwards
      <4> QED
        BY <4>1, <4>3 DEF Knows, KnowsNext, KnowsStamp, KnowsThreshold
    <3> QED
      BY <3>1, <3>2
  <2> QED
    BY <1>1, <2>1, <2>2, KeepsInv
<1>12. CASE HelpCheckNext(t)
  <2>1. Keeps(t)
    BY <1>12, <1>2, <1>3, <1>5 DEF HelpCheckNext, Keeps, Transfers, Opens, Holds, Commits, LocalTypes, Goto, Set
  <2>2. Knows(t)'
    BY <1>12, <1>2, <1>4 DEF HelpCheckNext, LocalTypes, Knows, KnowsNext, KnowsStamp, KnowsThreshold, Goto, Set, Return
  <2> QED
    BY <1>1, <2>1, <2>2, KeepsInv
<1>13. CASE HelpCheckTable(t)
  <2>1. Keeps(t)
    BY <1>13, <1>2, <1>3, <1>5 DEF HelpCheckTable, Keeps, Transfers, Opens, Holds, Commits, LocalTypes, Goto, Set
  <2>2. Knows(t)'
    BY <1>13, <1>2, <1>4 DEF HelpCheckTable, LocalTypes, Knows, KnowsNext, KnowsStamp, KnowsThreshold, Goto, Set, Return
  <2> QED
    BY <1>1, <2>1, <2>2, KeepsInv
<1>14. CASE HelpLoadSizeCtl(t)
  <2>1. Keeps(t)
    BY <1>14, <1>2, <1>3, <1>5 DEF HelpLoadSizeCtl, Keeps, Transfers, Opens, Holds, Commits, LocalTypes, Goto, Set
  <2>2. Knows(t)'
    BY <1>14, <1>2, <1>4 DEF HelpLoadSizeCtl, LocalTypes, Knows, KnowsNext, KnowsStamp, KnowsThreshold, ResizeStamp, Goto, Set, Return
  <2> QED
    BY <1>1, <2>1, <2>2, KeepsInv
<1>15. CASE HelpLoadIndex(t)
  <2>1. Keeps(t)
    BY <1>15, <1>2, <1>3, <1>5 DEF HelpLoadIndex, Keeps, Transfers, Opens, Holds, Commits, LocalTypes, Goto, Set
  <2>2. Knows(t)'
    BY <1>15, <1>2, <1>4 DEF HelpLoadIndex, LocalTypes, Knows, KnowsNext, KnowsStamp, KnowsThreshold, ResizeStamp, Goto, Set, Return
  <2> QED
    BY <1>1, <2>1, <2>2, KeepsInv
<1>16. CASE HelpJoin(t)
  <2>1. CASE sizeCtl # ld[t]
    <3>1. Keeps(t)
      BY <1>16, <1>2, <1>3, <2>1 DEF HelpJoin, Goto, Keeps, Transfers, Opens, Holds, Commits, LocalTypes
    <3>2. Knows(t)'
      BY <1>16, <1>2, <1>4, <2>1 DEF HelpJoin, Goto, LocalTypes, Knows, KnowsNext, KnowsStamp, KnowsThreshold
    <3> QED
      BY <1>1, <3>1, <3>2, KeepsInv
  <2>2. CASE sizeCtl = ld[t]
    <3>1. pc[t] = "HelpJoin" /\ nt[t] # Null
      BY <1>16 DEF HelpJoin, IInv, Locals
    <3>2. /\ pc'[t] = "TransferAdvance" /\ sizeCtl' = ld[t] + 1
          /\ UNCHANGED <<table, nextTable, moved, fwd, tab, nt, fin>>
      BY <1>16, <1>2, <2>2, <3>1 DEF HelpJoin, EnterTransfer, Goto, LocalTypes
    <3>3. StampIs(ld[t], tab[t])
      BY <3>1, <3>2 DEF JoinsMatch
    <3> QED
      BY <1>1, <2>2, <3>1, <3>2, <3>3, JoinInv
  <2> QED
    BY <2>1, <2>2
<1> QED
  BY <1>11, <1>12, <1>13, <1>14, <1>15, <1>16 DEF HelpTransfer

(* try_presize. *)
LEMMA TryPresizeCounts ==
    ASSUME IInv, CInv, NEW t \in Threads, TryPresize(t)
    PROVE  CInv'
<1>1. Elsewhere(t) /\ IInv'
  BY OthersSame, TryPresizeInv DEF Step, IInv, TypeOK
<1>2. SharedTypes /\ LocalTypes
  BY DEF IInv, TypeOK
<1>3. fin[t] => pc[t] \in {"TransferAdvance", "TransferBin"} \cup CommitPcs
  BY DEF IInv, Sweep
<1>4. Knows(t)
  BY DEF CInv
<1>5. ASSUME NEW result, Return(t, result), pc[t] \notin TransferPcs
      PROVE  pc'[t] = "idle" /\ fin'[t] = fin[t]
  BY <1>2, <1>3, <1>5 DEF LocalTypes, Return, Goto, Set
<1>11. CASE PresizeLoad(t)
  <2>1. Keeps(t)
    BY <1>11, <1>2, <1>3, <1>5 DEF PresizeLoad, Keeps, Transfers, Opens, Holds, Commits, LocalTypes, Goto, Set
  <2>2. Knows(t)'
    <3>1. CASE sizeCtl < 0
      BY <1>11, <1>2, <3>1 DEF PresizeLoad, Return, Goto, LocalTypes, Knows, KnowsNext, KnowsStamp, KnowsThreshold
    <3>2. CASE ~(sizeCtl < 0)
      <4>1. pc'[t] = "PresizeLoadTable" /\ ld'[t] = sizeCtl /\ table' = table
        BY <1>11, <1>2, <3>2 DEF PresizeLoad, Goto, Set, LocalTypes
      <4>2. sizeCtl <= Threshold(table) /\ Threshold(table)' = Threshold(table) /\ sizeCtl >= 0
        BY <1>2, <3>2, <4>1, BelowThreshold, SameThreshold, TableNat
      <4> QED
        BY <4>1, <4>2 DEF Knows, KnowsNext, KnowsStamp, KnowsThreshold
    <3> QED
      BY <3>1, <3>2
  <2> QED
    BY <1>1, <2>1, <2>2, KeepsInv
<1>12. CASE PresizeLoadTable(t)
  <2>1. Keeps(t)
    BY <1>12, <1>2, <1>3, <1>5 DEF PresizeLoadTable, Keeps, Transfers, Opens, Holds, Commits, LocalTypes, Goto, Set
  <2>2. Knows(t)'
    <3>1. CASE table # Null /\ (arg[t] <= ld[t] \/ table >= MaxCap)
      BY <1>12, <1>2, <3>1 DEF PresizeLoadTable, Return, Goto, LocalTypes, Knows, KnowsNext, KnowsStamp, KnowsThreshold
    <3>2. CASE ~(table # Null /\ (arg[t] <= ld[t] \/ table >= MaxCap))
      <4>1. /\ pc[t] = "PresizeLoadTable" /\ tab'[t] = table /\ UNCHANGED <<table, ld[t]>>
            /\ pc'[t] \in {"PresizeClaim", "PresizeCheckTable"}
        BY <1>12, <1>2, <3>2 DEF PresizeLoadTable, Goto, Set, LocalTypes
      <4>2. ld[t] >= 0 /\ ld[t] <= Threshold(table) /\ Threshold(tab[t])' = Threshold(table)
        BY <1>4, <4>1 DEF Knows, KnowsThreshold, Threshold, LoadFactor
      <4>3. table <= table
        BY <1>2, TableNat
      <4> QED
        BY <4>1, <4>2, <4>3 DEF Knows, KnowsNext, KnowsStamp, KnowsThreshold
    <3> QED
      BY <3>1, <3>2
  <2> QED
    BY <1>1, <2>1, <2>2, KeepsInv
<1>13. CASE PresizeClaim(t)
  <2>1. CASE sizeCtl # ld[t]
    <3>1. Keeps(t) /\ Knows(t)'
      BY <1>13, <1>2, <1>3, <2>1 DEF PresizeClaim, Goto, Keeps, Transfers, Opens, Holds, Commits, LocalTypes,
         Knows, KnowsNext, KnowsStamp, KnowsThreshold
    <3> QED
      BY <1>1, <3>1, KeepsInv
  <2>2. CASE sizeCtl = ld[t]
    <3>1. /\ pc[t] = "PresizeClaim" /\ pc'[t] = "PresizeRecheck" /\ sizeCtl' = -1
          /\ UNCHANGED <<table, nextTable, moved, fwd, ld, fin>>
      BY <1>13, <1>2, <2>2 DEF PresizeClaim, Goto, LocalTypes
    <3>2. Knows(t)' /\ ld[t] >= 0 /\ Holds(t)' /\ ~Transfers(t)' /\ ~Opens(t)'
      BY <1>4, <3>1 DEF Transfers, Opens, Holds, Knows, KnowsNext, KnowsStamp, KnowsThreshold
    <3> QED
      BY <1>1, <2>2, <3>1, <3>2, ClaimInv
  <2> QED
    BY <2>1, <2>2
<1>14. CASE PresizeRecheck(t)
  <2>1. Keeps(t)
    BY <1>14, <1>2, <1>3 DEF PresizeRecheck, Keeps, Transfers, Opens, Holds, Commits, LocalTypes, Goto
  <2>2. Knows(t)'
    BY <1>14, <1>2, <1>4 DEF PresizeRecheck, LocalTypes, Knows, KnowsNext, KnowsStamp, KnowsThreshold, Goto
  <2> QED
    BY <1>1, <2>1, <2>2, KeepsInv
<1>15. CASE PresizeStoreTable(t)
  <2> DEFINE n == IF arg[t] >= ld[t] THEN arg[t] ELSE ld[t]
  <2>1. /\ pc[t] = "PresizeStoreTable" /\ pc'[t] = "PresizeStoreSizeCtl"
        /\ table' = n /\ ld'[t] = LoadFactor(n)
        /\ UNCHANGED <<sizeCtl, nextTable, moved, fwd, fin>>
    BY <1>15, <1>2 DEF PresizeStoreTable, Goto, Set, LocalTypes
  <2>2. table = Null /\ table' # Null
    <3>1. table = Null
      BY <2>1 DEF IInv, FirstTableOnce
    <3>2. arg[t] \in Caps /\ ld[t] = 0
      BY <2>1, <3>1 DEF IInv, Locals, BeforeTable
    <3>3. n = arg[t]
      BY <3>2, Arithmetic
    <3> QED
      BY <2>1, <3>1, <3>2, <3>3
  <2>3. Knows(t)' /\ Holds(t) /\ Holds(t)' /\ ~Transfers(t) /\ ~Transfers(t)' /\ ~Opens(t)'
    BY <2>1 DEF Transfers, Opens, Holds, Knows, KnowsNext, KnowsStamp, KnowsThreshold
  <2> HIDE DEF n
  <2> QED
    BY <1>1, <2>1, <2>2, <2>3, StoreInv
<1>16. CASE PresizeStoreSizeCtl(t)
  <2>1. /\ pc[t] = "PresizeStoreSizeCtl" /\ pc'[t] = "PresizeLoad" /\ sizeCtl' = ld[t]
        /\ UNCHANGED <<table, nextTable, moved, fwd, fin>>
    BY <1>16, <1>2 DEF PresizeStoreSizeCtl, Goto, LocalTypes
  <2>2. Knows(t)' /\ Holds(t) /\ ~Holds(t)' /\ ~Transfers(t) /\ ~Transfers(t)' /\ ~Opens(t)'
    BY <2>1 DEF Transfers, Opens, Holds, Knows, KnowsNext, KnowsStamp, KnowsThreshold
  <2> QED
    BY <1>1, <2>1, <2>2, ReleaseInv
<1>17. CASE PresizeCheckTable(t)
  <2>1. Keeps(t)
    BY <1>17, <1>2, <1>3 DEF PresizeCheckTable, Keeps, Transfers, Opens, Holds, Commits, LocalTypes, Goto
  <2>2. Knows(t)'
    BY <1>17, <1>2, <1>4 DEF PresizeCheckTable, LocalTypes, Knows, KnowsNext, KnowsStamp, KnowsThreshold, Threshold, LoadFactor, Goto
  <2> QED
    BY <1>1, <2>1, <2>2, KeepsInv
<1>18. CASE PresizeStart(t)
  <2>1. CASE sizeCtl # ld[t]
    <3>1. Keeps(t)
      BY <1>18, <1>2, <1>3, <2>1 DEF PresizeStart, Goto, Keeps, Transfers, Opens, Holds, Commits, LocalTypes
    <3>2. Knows(t)'
      BY <1>18, <1>2, <1>4, <2>1 DEF PresizeStart, Goto, LocalTypes, Knows, KnowsNext, KnowsStamp, KnowsThreshold
    <3> QED
      BY <1>1, <3>1, <3>2, KeepsInv
  <2>2. CASE sizeCtl = ld[t]
    <3>1. /\ pc[t] = "PresizeStart" /\ pc'[t] = "TransferAllocate" /\ sizeCtl' = ResizeStamp(tab[t]) + 2
          /\ UNCHANGED <<table, nextTable, moved, fwd, tab, fin>>
      BY <1>18, <1>2, <2>2 DEF PresizeStart, EnterTransfer, Goto, LocalTypes
    <3> QED
      BY <1>1, <2>2, <3>1, StartInv
  <2> QED
    BY <2>1, <2>2
<1> QED
  BY <1>11, <1>12, <1>13, <1>14, <1>15, <1>16, <1>17, <1>18 DEF TryPresize

(* transfer: the loop and its end. *)
LEMMA TransferLoopCounts ==
    ASSUME IInv, CInv, NEW t \in Threads, TransferLoop(t)
    PROVE  CInv'
<1>1. Elsewhere(t) /\ IInv'
  BY OthersSame, TransferLoopInv DEF Step, IInv, TypeOK
<1>2. SharedTypes /\ LocalTypes
  BY DEF IInv, TypeOK
<1>3. fin[t] => pc[t] \in {"TransferAdvance", "TransferBin"} \cup CommitPcs
  BY DEF IInv, Sweep
<1>4. Knows(t)
  BY DEF CInv
<1>5. ASSUME NEW result, Return(t, result), pc[t] \notin TransferPcs
      PROVE  pc'[t] = "idle" /\ fin'[t] = fin[t]
  BY <1>2, <1>3, <1>5 DEF LocalTypes, Return, Goto, Set
<1>11. CASE TransferAllocate(t)
  <2>1. /\ pc[t] = "TransferAllocate" /\ pc'[t] = "TransferOpen" /\ nextTable' = 2 * tab[t]
        /\ UNCHANGED <<table, sizeCtl, moved, fwd, locals>>
    BY <1>11, <1>2 DEF TransferAllocate, Goto, LocalTypes
  <2>2. Knows(t)'
    BY <1>4, <2>1 DEF Knows, KnowsNext, KnowsStamp, KnowsThreshold
  <2>3. /\ Transfers(t) /\ Transfers(t)' /\ ~Commits(t) /\ ~Commits(t)' /\ ~Holds(t)'
        /\ Opens(t) /\ Opens(t)'
    BY <2>1 DEF Transfers, Opens, Holds, Commits, IInv, Sweep
  <2> QED
    BY <1>1, <2>1, <2>2, <2>3, NextTableInv
<1>12. CASE TransferOpen(t)
  <2>1. Keeps(t)
    BY <1>12, <1>2, <1>3 DEF TransferOpen, Keeps, Transfers, Opens, Holds, Commits, LocalTypes, Goto
  <2>2. Knows(t)'
    BY <1>12, <1>2, <1>4 DEF TransferOpen, LocalTypes, Knows, KnowsNext, KnowsStamp, KnowsThreshold, Goto
  <2> QED
    BY <1>1, <2>1, <2>2, KeepsInv
<1>13. CASE TransferLoadNext(t)
  <2>1. Keeps(t)
    BY <1>13, <1>2, <1>3 DEF TransferLoadNext, Keeps, Transfers, Opens, Holds, Commits, LocalTypes, Goto, Set
  <2>2. Knows(t)'
    BY <1>13, <1>2, <1>4 DEF TransferLoadNext, LocalTypes, Knows, KnowsNext, KnowsStamp, KnowsThreshold, Goto, Set
  <2> QED
    BY <1>1, <2>1, <2>2, KeepsInv
<1>14. CASE TransferAdvance(t)
  <2>1. Keeps(t)
    BY <1>14, <1>2, <1>3, LocalValues, BodyForCases DEF TransferAdvance, Keeps, Transfers, Opens, Holds, Commits, LocalTypes, Goto, Set
  <2>2. Knows(t)'
    <3>1. /\ pc[t] = "TransferAdvance" /\ UNCHANGED <<shared, tab, nt>>
          /\ pc'[t] \in {"TransferBin", "TransferClearNext", "TransferLoadSizeCtl", "TransferClaim"}
      BY <1>14, <1>2, LocalValues, BodyForCases DEF TransferAdvance, LocalTypes, Goto
    <3> QED
      BY <1>4, <3>1 DEF Knows, KnowsNext, KnowsStamp, KnowsThreshold
  <2> QED
    BY <1>1, <2>1, <2>2, KeepsInv
<1>15. CASE TransferClaim(t)
  <2>1. Keeps(t)
    BY <1>15, <1>2, <1>3, LocalValues, BodyForCases DEF TransferClaim, Keeps, Transfers, Opens, Holds, Commits, LocalTypes, Goto, Set
  <2>2. Knows(t)'
    <3>1. /\ pc[t] = "TransferClaim" /\ UNCHANGED <<table, nextTable, sizeCtl, tab, nt>>
          /\ pc'[t] \in {"TransferAdvance", "TransferBin", "TransferClearNext", "TransferLoadSizeCtl"}
      BY <1>15, <1>2, LocalValues, BodyForCases DEF TransferClaim, LocalTypes, Goto
    <3> QED
      BY <1>4, <3>1 DEF Knows, KnowsNext, KnowsStamp, KnowsThreshold
  <2> QED
    BY <1>1, <2>1, <2>2, KeepsInv
<1>16. CASE TransferLoadSizeCtl(t)
  <2>1. Keeps(t)
    BY <1>16, <1>2, <1>3 DEF TransferLoadSizeCtl, Keeps, Transfers, Opens, Holds, Commits, LocalTypes, Goto, Set
  <2>2. Knows(t)'
    BY <1>16, <1>2, <1>4 DEF TransferLoadSizeCtl, LocalTypes, Knows, KnowsNext, KnowsStamp, KnowsThreshold, Goto, Set
  <2> QED
    BY <1>1, <2>1, <2>2, KeepsInv
<1>17. CASE TransferDone(t)
  <2>1. CASE sizeCtl # ld[t]
    <3>1. Keeps(t)
      BY <1>17, <1>2, <1>3, <2>1 DEF TransferDone, Goto, Keeps, Transfers, Opens, Holds, Commits, LocalTypes
    <3>2. Knows(t)'
      BY <1>17, <1>2, <1>4, <2>1 DEF TransferDone, Goto, LocalTypes, Knows, KnowsNext, KnowsStamp, KnowsThreshold
    <3> QED
      BY <1>1, <3>1, <3>2, KeepsInv
  <2>2. CASE sizeCtl = ld[t] /\ ld[t] - 2 # ResizeStamp(tab[t])
    <3>1. /\ pc[t] = "TransferDone" /\ sizeCtl' = ld[t] - 1 /\ LeaveTransfer(t)
          /\ UNCHANGED <<table, nextTable, moved, fwd>>
      BY <1>17, <2>2 DEF TransferDone
    <3>2. /\ Knows(t)' /\ ~Holds(t)' /\ ~Opens(t)' /\ ~Commits(t)' /\ ~Transfers(t)' /\ ~fin'[t]
      BY <1>2, <3>1, Leaves
    <3> QED
      BY <1>1, <2>2, <3>1, <3>2, SignOffInv
  <2>3. CASE sizeCtl = ld[t] /\ ld[t] - 2 = ResizeStamp(tab[t])
    <3>1. /\ pc[t] = "TransferDone" /\ pc'[t] = "TransferAdvance" /\ sizeCtl' = ld[t] - 1
          /\ fin'[t] /\ UNCHANGED <<table, nextTable, moved, fwd, tab, nt>>
      BY <1>17, <1>2, <2>3 DEF TransferDone, Goto, Set, LocalTypes
    <3>2. Knows(t)' /\ ~Holds(t)' /\ ~Opens(t)' /\ ~Commits(t)' /\ Transfers(t)'
      BY <1>4, <3>1 DEF Transfers, Opens, Holds, Commits, Knows, KnowsNext, KnowsStamp, KnowsThreshold
    <3> QED
      BY <1>1, <2>3, <3>1, <3>2, SignOffInv
  <2> QED
    BY <2>1, <2>2, <2>3
<1>18. CASE TransferClearNext(t)
  <2>1. /\ pc[t] = "TransferClearNext" /\ pc'[t] = "TransferSwap" /\ nextTable' = Null
        /\ UNCHANGED <<table, sizeCtl, moved, fwd, locals>>
    BY <1>18, <1>2 DEF TransferClearNext, Goto, LocalTypes
  <2>2. Knows(t)'
    BY <1>4, <2>1 DEF Knows, KnowsNext, KnowsStamp, KnowsThreshold
  <2>3. /\ Transfers(t) /\ Transfers(t)' /\ ~Commits(t) /\ ~Commits(t)' /\ ~Holds(t)'
        /\ fin[t] /\ ~Opens(t)'
    BY <2>1 DEF Transfers, Opens, Holds, Commits, IInv, Sweep
  <2> QED
    BY <1>1, <2>1, <2>2, <2>3, NextTableInv
<1>19. CASE TransferSwap(t)
  BY <1>1, <1>19, SwapInv
<1>20. CASE TransferCommit(t)
  <2>1. /\ pc[t] = "TransferCommit" /\ sizeCtl' = 2 * tab[t] - (tab[t] \div 2) /\ LeaveTransfer(t)
        /\ UNCHANGED <<table, nextTable, moved, fwd>>
    BY <1>20 DEF TransferCommit
  <2>2. Knows(t)' /\ ~Holds(t)' /\ ~Opens(t)' /\ ~Transfers(t)' /\ ~fin'[t]
    BY <1>2, <2>1, Leaves
  <2> QED
    BY <1>1, <2>1, <2>2, CommitInv
<1> QED
  BY <1>11, <1>12, <1>13, <1>14, <1>15, <1>16, <1>17, <1>18, <1>19, <1>20 DEF TransferLoop

(* transfer: one bin. *)
LEMMA TransferBinCounts ==
    ASSUME IInv, CInv, NEW t \in Threads, TransferBinStep(t)
    PROVE  CInv'
<1>1. Elsewhere(t) /\ IInv'
  BY OthersSame, TransferBinStepInv DEF Step, IInv, TypeOK
<1>2. SharedTypes /\ LocalTypes
  BY DEF IInv, TypeOK
<1>3. fin[t] => pc[t] \in {"TransferAdvance", "TransferBin"} \cup CommitPcs
  BY DEF IInv, Sweep
<1>4. Knows(t)
  BY DEF CInv
<1>5. ASSUME NEW result, Return(t, result), pc[t] \notin TransferPcs
      PROVE  pc'[t] = "idle" /\ fin'[t] = fin[t]
  BY <1>2, <1>3, <1>5 DEF LocalTypes, Return, Goto, Set
<1>11. CASE TransferSkipMoved(t)
  <2>1. Keeps(t)
    BY <1>11, <1>2, <1>3 DEF TransferSkipMoved, Keeps, Transfers, Opens, Holds, Commits, LocalTypes, Goto
  <2>2. Knows(t)'
    BY <1>11, <1>2, <1>4 DEF TransferSkipMoved, LocalTypes, Knows, KnowsNext, KnowsStamp, KnowsThreshold, Goto
  <2> QED
    BY <1>1, <2>1, <2>2, KeepsInv
<1>12. CASE TransferForward(t)
  <2>1. pc[t] = "TransferBin" /\ UNCHANGED <<table, nextTable, sizeCtl, locals>>
    BY <1>12 DEF TransferForward
  <2>2. tab[t] \in Caps
    BY <1>2, <2>1, LocalValues DEF IInv, Locals
  <2>3. pc'[t] \in {"TransferBin", "TransferAdvance"}
    BY <1>12, <1>2 DEF TransferForward, Goto, LocalTypes
  <2>4. Forwards'
    <3>1. nt[t] = 2 * tab[t]
      BY <1>4, <2>1 DEF Knows, KnowsNext
    <3>2. fwd' = [fwd EXCEPT ![tab[t]] = 2 * tab[t]] /\ moved' = moved
      BY <1>12, <3>1 DEF TransferForward, Set
    <3> QED
      BY <1>2, <2>2, <3>2 DEF CInv, Forwards, SharedTypes
  <2>5. Knows(t)'
    BY <1>4, <2>1, <2>3 DEF Knows, KnowsNext, KnowsStamp, KnowsThreshold
  <2>6. /\ Transfers(t) /\ Transfers(t)' /\ ~Opens(t)' /\ ~Commits(t) /\ ~Commits(t)'
        /\ ~Holds(t) /\ ~Holds(t)'
    BY <2>1, <2>3 DEF Transfers, Opens, Holds, Commits
  <2> QED
    BY <1>1, <2>1, <2>4, <2>5, <2>6, MarkInv
<1>13. CASE TransferMoveBin(t)
  <2>1. pc[t] = "TransferBin" /\ UNCHANGED <<table, nextTable, sizeCtl, locals>>
    BY <1>13 DEF TransferMoveBin
  <2>2. tab[t] \in Caps
    BY <1>2, <2>1, LocalValues DEF IInv, Locals
  <2>3. pc'[t] \in {"TransferBin", "TransferAdvance"}
    BY <1>13, <1>2 DEF TransferMoveBin, Goto, LocalTypes
  <2>4. Forwards'
    <3>1. fwd[tab[t]] = 2 * tab[t]
      BY <1>13, <2>2 DEF TransferMoveBin, CInv, Forwards
    <3>2. fwd' = fwd /\ \A n \in Caps : n # tab[t] => moved'[n] = moved[n]
      BY <1>13, <1>2 DEF TransferMoveBin, SharedTypes
    <3> QED
      BY <3>1, <3>2 DEF CInv, Forwards
  <2>5. Knows(t)'
    BY <1>4, <2>1, <2>3 DEF Knows, KnowsNext, KnowsStamp, KnowsThreshold
  <2>6. /\ Transfers(t) /\ Transfers(t)' /\ ~Opens(t)' /\ ~Commits(t) /\ ~Commits(t)'
        /\ ~Holds(t) /\ ~Holds(t)'
    BY <2>1, <2>3 DEF Transfers, Opens, Holds, Commits
  <2> QED
    BY <1>1, <2>1, <2>4, <2>5, <2>6, MarkInv
<1> QED
  BY <1>11, <1>12, <1>13 DEF TransferBinStep

-----------------------------------------------------------------------------
(* The theorems. *)
LEMMA InitCInv == Init => CInv
<1> SUFFICES ASSUME Init PROVE CInv
  OBVIOUS
<1>1. \A t \in Threads : ~Holds(t) /\ ~Transfers(t) /\ ~Opens(t) /\ ~fin[t] /\ pc[t] = "idle"
  BY DEF Init, Holds, Transfers, Opens
<1>2. Counted /\ Quiet /\ AtRest /\ Held /\ OneEach
  BY <1>1 DEF Init, Counted, Quiet, AtRest, Held, OneEach, Threshold
<1>3. Forwards
  BY DEF Init, Forwards
<1>4. ASSUME NEW t \in Threads PROVE Knows(t)
  BY <1>1 DEF Knows, KnowsNext, KnowsStamp, KnowsThreshold
<1> QED
  BY <1>2, <1>3, <1>4 DEF CInv

LEMMA NextCInv == IInv /\ CInv /\ [Next /\ JoinsMatch]_resizeVars => CInv'
<1> SUFFICES ASSUME IInv, CInv, [Next /\ JoinsMatch]_resizeVars PROVE CInv'
  OBVIOUS
<1>1. CASE UNCHANGED resizeVars
  <2>1. UNCHANGED <<table, nextTable, sizeCtl, moved, fwd, pc, tab, nt, ld, fin>>
    BY <1>1
  <2>2. /\ \A t \in Threads : /\ Holds(t)' = Holds(t)
                              /\ Transfers(t)' = Transfers(t)
                              /\ Opens(t)' = Opens(t)
                              /\ Commits(t)' = Commits(t)
        /\ Workers' = Workers
    BY <2>1 DEF Holds, Transfers, Opens, Commits, Workers
  <2>3. ASSUME NEW n \in Caps, Resizing(n) PROVE Resizing(n)'
    BY <2>1, <2>2, <2>3 DEF Resizing, StampIs, ResizeStamp
  <2>4. Counted' /\ Forwards' /\ OneEach'
    BY <2>1, <2>2, <2>3 DEF CInv, Counted, Forwards, OneEach
  <2>5. Quiet' /\ AtRest' /\ Held'
    BY <2>1, <2>2, SameThreshold DEF CInv, Quiet, AtRest, Held
  <2>6. ASSUME NEW t \in Threads PROVE Knows(t)'
    <3>1. Knows(t)
      BY DEF CInv
    <3> QED
      BY <2>1, <3>1 DEF Knows, KnowsNext, KnowsStamp, KnowsThreshold, Begun, StampIs,
         ResizeStamp, Threshold, LoadFactor
  <2> QED
    BY <2>4, <2>5, <2>6 DEF CInv
<1>2. ASSUME NEW t \in Threads, Call(t) PROVE CInv'
  BY <1>2, CallIsAny, CallCounts DEF IInv
<1>3. CASE Next /\ JoinsMatch
  BY <1>2, <1>3, InitTableCounts, AddCountCounts, HelpTransferCounts, TryPresizeCounts,
     TransferLoopCounts, TransferBinCounts DEF Next, Step
<1> QED
  BY <1>1, <1>3

(* Until a thread joins late, size_ctl counts the threads in the resize whose
   stamp it holds, for any number of threads. *)
THEOREM CountedInvariance == Spec => [](IInv /\ (lateJoin \/ CInv))
<1>1. Init => IInv /\ (lateJoin \/ CInv)
  BY InitIInv, InitCInv
<1>2. IInv /\ (lateJoin \/ CInv) /\ [Next /\ Remember]_watchedVars
          => (IInv /\ (lateJoin \/ CInv))'
  BY NextIInv, NextCInv, StepsOfNext, StepsMatch
<1> QED
  BY <1>1, <1>2, PTL DEF Spec

(* transfer finds next_table free when it allocates, for any number of threads:
   its assertion that it swaps out a null pointer fails only after some thread
   has joined late. *)
THEOREM OneResizeAtATimeCorrect == Spec => []OneResizeAtATime
<1>1. lateJoin \/ CInv => OneResizeAtATime
  BY DEF CInv, Knows, KnowsNext, OneResizeAtATime
<1> QED
  BY <1>1, CountedInvariance, PTL

(* Threads that mark the bins of one table agree on the table that follows it,
   for any number of threads: the assertions of Table::get_moved hold as long as
   nobody has joined late. *)
THEOREM ForwardAgreesCorrect == Spec => [](lateJoin \/ ForwardAgrees)
<1>1. IInv /\ CInv => ForwardAgrees
  <2> SUFFICES ASSUME IInv, CInv, NEW t \in Threads, pc[t] = "TransferBin"
               PROVE  fwd[tab[t]] \in {Null, nt[t]}
    BY DEF ForwardAgrees
  <2>1. tab[t] \in Caps /\ nt[t] = 2 * tab[t]
    BY LocalValues DEF IInv, TypeOK, Locals, CInv, Knows, KnowsNext
  <2> QED
    BY <2>1 DEF CInv, Forwards
<1> QED
  BY <1>1, CountedInvariance, PTL

(* With no call in progress size_ctl is the threshold of the table, whatever
   late claims of the first allocation took away and put back, or some thread
   has joined a resize late. *)
THEOREM ThresholdAtRestCorrect == Spec => []ThresholdAtRest
<1>1. IInv /\ (lateJoin \/ CInv) => ThresholdAtRest
  <2> SUFFICES ASSUME IInv, CInv, \A t \in Threads : pc[t] = "idle"
               PROVE  sizeCtl = Threshold(table)
    BY DEF ThresholdAtRest, Threshold
  <2>1. \A t \in Threads : ~Holds(t) /\ ~Transfers(t) /\ ~fin[t]
    BY DEF Holds, Transfers, IInv, Sweep
  <2>2. Workers = {}
    BY <2>1 DEF Workers
  <2>3. ~(sizeCtl < -1)
    BY <2>1, <2>2 DEF CInv, Counted, Resizing
  <2>4. sizeCtl # -1 /\ sizeCtl \in Int
    BY <2>1, TableNat DEF CInv, Held, IInv, TypeOK
  <2> QED
    BY <2>3, <2>4 DEF CInv, AtRest
<1> QED
  BY <1>1, CountedInvariance, PTL

(* With no call in progress no resize is half done, for any number of threads:
   the assertion of the map's Drop, which the code can fail, fails only after
   some thread has joined late. *)
THEOREM NothingOpenAtRestCorrect == Spec => [](lateJoin \/ NothingOpenAtRest)
<1>1. IInv /\ CInv => NothingOpenAtRest
  <2> SUFFICES ASSUME IInv, CInv, \A t \in Threads : pc[t] = "idle"
               PROVE  nextTable = Null
    BY DEF NothingOpenAtRest
  <2>1. \A t \in Threads : ~Transfers(t) /\ ~fin[t]
    BY DEF Transfers, IInv, Sweep
  <2>2. Workers = {}
    BY <2>1 DEF Workers
  <2>3. ~(sizeCtl < -1)
    BY <2>1, <2>2 DEF CInv, Counted, Resizing
  <2>4. sizeCtl \in Int
    BY TableNat DEF IInv, TypeOK
  <2> QED
    BY <2>3, <2>4 DEF CInv, Quiet
<1> QED
  BY <1>1, CountedInvariance, PTL

LEMMA SwapDoubles ==
    ASSUME IInv, CInv, NEW t \in Threads, TransferSwap(t)
    PROVE  /\ table' = 2 * table
           /\ moved[table] = 0..(table - 1)
           /\ fwd[table] = table'
<1>1. pc[t] = "TransferSwap" /\ table' = nt[t] /\ LocalTypes /\ SharedTypes
  BY DEF TransferSwap, IInv, TypeOK
<1>2. Transfers(t) /\ fin[t] /\ nt[t] = 2 * tab[t]
  BY <1>1 DEF Transfers, IInv, Sweep, CInv, Knows, KnowsNext
<1>3. tab[t] \in Caps /\ Resizing(tab[t])
  BY <1>2, InResize
<1>4. \A u \in Threads : ~Commits(u)
  BY <1>1, <1>2, SweeperAlone DEF Commits, Transfers
<1>5. table = tab[t]
  BY <1>3, <1>4 DEF Resizing
<1>6. moved[table] = 0..(table - 1)
  <2>1. \A j \in 0..(table - 1) : j \in moved[table]
    BY <1>1, <1>2, <1>5 DEF IInv, Sweep
  <2>2. moved[table] \subseteq 0..(table - 1)
    BY <1>1, <1>3, <1>5 DEF SharedTypes
  <2> QED
    BY <2>1, <2>2
<1>7. moved[table] # {}
  <2>1. table \in Caps
    BY <1>3, <1>5
  <2>2. 0 \in 0..(table - 1)
    BY <2>1
  <2> HIDE DEF Null
  <2> QED
    BY <1>6, <2>2
<1>8. fwd[table] = 2 * table
  BY <1>3, <1>5, <1>7 DEF CInv, Forwards
<1> QED
  BY <1>1, <1>2, <1>5, <1>6, <1>8

(* No other step than the swap replaces a table. *)
LEMMA TableMoves ==
    ASSUME IInv, CInv, NEW t \in Threads, Step(t) \/ AnyCall(t), table # Null, table' # table
    PROVE  /\ TransferSwap(t)
           /\ table' = 2 * table
           /\ moved[table] = 0..(table - 1)
           /\ fwd[table] = table'
<1> SUFFICES TransferSwap(t)
  BY SwapDoubles
<1>1. ~InitStoreTable(t) /\ ~PresizeStoreTable(t)
  BY DEF IInv, FirstTableOnce, InitStoreTable, PresizeStoreTable
<1>2. ~AnyCall(t)
  BY DEF AnyCall, SetsTab, CallInitTable, CallHelpTransfer, CallTryPresize, CallAddCount
<1>3. ~InitTable(t)
  BY <1>1 DEF InitTable, InitLoadTable, InitLoadSizeCtl, InitClaim, InitRecheck, InitStoreSizeCtl
<1>4. ~AddCount(t)
  BY DEF AddCount, AddLoadSizeCtl, AddLoadTable, AddLoadNext, AddLoadIndex, AddJoin,
     AddStart, AddReload
<1>5. ~HelpTransfer(t)
  BY DEF HelpTransfer, HelpForward, HelpCheckNext, HelpCheckTable, HelpLoadSizeCtl,
     HelpLoadIndex, HelpJoin
<1>6. ~TryPresize(t)
  BY <1>1 DEF TryPresize, PresizeLoad, PresizeLoadTable, PresizeClaim, PresizeRecheck,
     PresizeStoreSizeCtl, PresizeCheckTable, PresizeStart
<1>7. ~TransferBinStep(t)
  BY DEF TransferBinStep, TransferSkipMoved, TransferForward, TransferMoveBin
<1> QED
  BY <1>2, <1>3, <1>4, <1>5, <1>6, <1>7 DEF Step, TransferLoop, TransferAllocate, TransferOpen,
     TransferLoadNext, TransferAdvance, TransferClaim, TransferLoadSizeCtl, TransferDone,
     TransferClearNext, TransferCommit

(* A store to the map's table pointer either puts the first table there or
   replaces a table by the one of twice its length, when all its bins are Moved
   and point there: no element is left behind, for any number of threads, as
   long as nobody has joined late; and in a behaviour without late joins
   TableDoubles holds throughout. *)
THEOREM TableDoublesCorrect ==
    Spec => [][lateJoin' \/ Doubles]_resizeVars /\ ([]~lateJoin => TableDoubles)
<1>1. IInv /\ (lateJoin \/ CInv) /\ [Next /\ Remember]_watchedVars
          => [lateJoin' \/ Doubles]_resizeVars
  <2> SUFFICES ASSUME IInv, lateJoin \/ CInv, [Next /\ Remember]_watchedVars, ~lateJoin'
               PROVE  [Doubles]_resizeVars
    OBVIOUS
  <2>1. CInv /\ [Next /\ JoinsMatch]_resizeVars
    BY StepsMatch
  <2>2. \A t \in Threads : Call(t) => AnyCall(t)
    BY CallIsAny DEF IInv
  <2> QED
    BY <2>1, <2>2, TableMoves DEF Next, Doubles
<1>2. Spec => [][lateJoin' \/ Doubles]_resizeVars
  BY <1>1, CountedInvariance, PTL DEF Spec
<1>3. ~lateJoin' /\ [lateJoin' \/ Doubles]_resizeVars => [Doubles]_resizeVars
  OBVIOUS
<1> QED
  BY <1>2, <1>3, PTL DEF TableDoubles
=============================================================================
