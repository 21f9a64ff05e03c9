------------------------------ MODULE MCGossip ------------------------------
(* Instances of Gossip small enough for TLC. *)
EXTENDS Gossip

CONSTANTS n1, n2, n3, u1, u2

TwoNodes == {n1, n2}
ThreeNodes == {n1, n2, n3}
OneUpdate == {u1}
TwoUpdates == {u1, u2}

Config(push, pull, expiry, limit) ==
    [push |-> push, pull |-> pull, expiry |-> expiry, limit |-> limit]

EveryConfig ==
    {Config(TRUE, TRUE, "none", 0), Config(TRUE, FALSE, "none", 0), Config(FALSE, TRUE, "none", 0),
     Config(TRUE, TRUE, "pushes", 2), Config(TRUE, FALSE, "recent", 1),
     Config(FALSE, TRUE, "recent", 1), Config(TRUE, TRUE, "duration", 0)}

PushOnce == {Config(TRUE, TRUE, "pushes", 1)}

Nobody == {}
OnlyFirst == {n1}
=============================================================================
