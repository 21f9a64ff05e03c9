------------------------------- MODULE CRDTs --------------------------------
(***************************************************************************)
(* The data types of the library by their kinds, which Replication uses.   *)
(***************************************************************************)
EXTENDS Registers, MapCRDT, ListCRDT, CausalityBarrier

Maps == {"map", "mapstates"}

Default == CHOOSE v \in Values : TRUE

KindNew(k) ==
    CASE k = "gcounter"  -> NoClock
      [] k = "pncounter" -> PNCounterNew
      [] k = "lwwreg"    -> LWWRegNew(Default)
      [] k \in {"gset", "mvreg"} -> {}
      [] k = "orswot"    -> OrswotNew
      [] k \in Maps      -> MapNew
      [] k = "list"      -> ListNew
      [] k = "glist"     -> GListNew
      [] k = "barrier"   -> BarrierNew

KindApply(k, s, op) ==
    CASE k = "gcounter"  -> GCounterApply(s, op)
      [] k = "pncounter" -> PNCounterApply(s, op)
      [] k = "lwwreg"    -> LWWRegUpdate(s, op)
      [] k = "gset"      -> s \cup {op}
      [] k = "glist"     -> GListApply(s, op)
      [] k = "mvreg"     -> MVRegApply(s, op)
      [] k = "orswot"    -> OrswotApply(s, op)
      [] k \in Maps      -> MapApply(s, op)
      [] k = "list"      -> ListApply(s, op)
      [] k = "barrier"   -> BarrierApply(s, op)

KindMerge(k, s, o) ==
    CASE k = "gcounter"  -> ClockMerge(s, o)
      [] k = "pncounter" -> PNCounterMerge(s, o)
      [] k = "lwwreg"    -> LWWRegUpdate(s, o)
      [] k = "gset"      -> s \cup o
      [] k = "glist"     -> GListMerge(s, o)
      [] k = "mvreg"     -> MVRegMerge(s, o)
      [] k = "orswot"    -> OrswotMerge(s, o)
      [] k \in Maps      -> MapMerge(s, o)

KindOps(k, s, a) ==
    CASE k = "gcounter"  -> GCounterOps(s, a)
      [] k = "pncounter" -> PNCounterOps(s, a)
      [] k = "lwwreg"    -> LWWRegOps(s, a)
      [] k = "gset"      -> Members
      [] k = "mvreg"     -> MVRegOps(s, a)
      [] k = "orswot"    -> OrswotOps(s, a)
      [] k = "map"       -> MapOps(s, a)
      [] k = "mapstates" -> MapOps(s, a) \cup MapShrinkOps(s, a)
      [] k = "list"      -> ListOps(s, a)
      [] k = "glist"     -> GListOps(s)
      [] k = "barrier"   -> BarrierOps(s, a)

KindSound(k, s) ==
    CASE k = "orswot"  -> OrswotSound(s)
      [] k = "mvreg"   -> MVRegSound(s)
      [] k \in Maps    -> MapSound(s)
      [] k = "barrier" -> BarrierSound(s)
      [] OTHER         -> TRUE

KindRead(k, s) ==
    CASE k = "gcounter"  -> GCounterRead(s)
      [] k = "pncounter" -> PNCounterRead(s)
      [] k = "lwwreg"    -> s.val
      [] k \in {"gset", "glist"} -> s
      [] k = "mvreg"     -> MVRegRead(s)
      [] k = "orswot"    -> OrswotRead(s)
      [] k = "map"       -> MapRead(s)
      [] k = "mapstates" -> DOMAIN MapRead(s)
      [] k = "list"      -> s.seq
      [] k = "barrier"   -> s.held

(* What the operations add up to *)
KindMeaning(k, ops) ==
    CASE k = "gcounter"  -> MapThenSumSet(LAMBDA op : op.steps, ops)
      [] k = "pncounter" -> PNCounterMeaning(ops)
      [] k = "lwwreg"    -> LWWRegMeaning(LWWRegNew(Default), ops)
      [] k \in {"gset", "glist"} -> ops
      [] k = "mvreg"     -> MVRegMeaning(ops)
      [] k = "orswot"    -> OrswotMeaning(ops)
      [] k = "map"       -> MapMeaning(ops)
      [] k = "mapstates" -> DOMAIN MapMeaning(ops)
      [] k = "list"      -> ListMeaning(ops)
      [] k = "barrier"   -> BarrierMeaning(ops)
=============================================================================
