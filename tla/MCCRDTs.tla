------------------------------ MODULE MCCRDTs -------------------------------
(* Replication of the data types of CRDTs, in instances small enough for TLC. *)
EXTENDS Replication

CONSTANTS m1, m2, v1, v2, k1, k2

TwoActors == 1..2
ThreeActors == 1..3
TwoMembers == {m1, m2}
TwoValues == {v1, v2}
OneOrTwo == {1, 2}

OneKey == {k1}
TwoKeys == {k1, k2}

AllKinds ==
    {"gcounter", "pncounter", "lwwreg", "gset", "mvreg", "orswot", "map", "mapstates", "list", "glist",
     "barrier"}
Lists == {"list"}
ByOperations == AllKinds \ {"mvreg", "mapstates"}
ByStates == AllKinds \ {"map", "list", "barrier"}
OnlyMVReg == {"mvreg"}
OnlyMap == {"map"}
NoKinds == {}
=============================================================================
