--------------------------- MODULE MCPeerSampling ---------------------------
(* Instances of PeerSampling small enough for TLC. *)
EXTENDS PeerSampling

FivePeers == 1..5
ThreeHosts == 1..3
OnlyFirst == {1}

(* Three nodes that have room for each other, and begin in a line or, where
   nobody pushes, in a ring. *)
Meeting(push, pull, viewSize, healing, contacts) ==
    [push |-> push, pull |-> pull, viewSize |-> viewSize, maxAge |-> 1, healing |-> healing,
     here |-> 1..3, elsewhere |-> {}, contacts |-> contacts]

Line == <<{2}, {3}, {}>>
Ring == <<{2}, {3}, {1}>>

(* A node that was told of four others, hears from three, has room for two. *)
Crowded(healing) ==
    [push |-> TRUE, pull |-> TRUE, viewSize |-> 2, maxAge |-> 2, healing |-> healing,
     here |-> {1}, elsewhere |-> 2..4, contacts |-> <<2..5>>]

AllWorlds ==
    {Meeting(TRUE, TRUE, 6, 1, Line), Meeting(TRUE, FALSE, 6, 1, Line),
     Meeting(FALSE, TRUE, 6, 1, Ring), Meeting(TRUE, TRUE, 4, 1, Line),
     Crowded(0), Crowded(1)}
=============================================================================
