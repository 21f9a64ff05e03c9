----------------------------- MODULE MCTreeBin -----------------------------
(* An instance of TreeBin small enough for TLC. The writers of a bin are      *)
(* serialised by its mutex, so one of them meets all that the root lock can   *)
(* show it; the proofs are for any set of writers.                            *)
EXTENDS TreeBin

CONSTANTS r1, r2, w1, k1, k2

TwoReaders == {r1, r2}
OneWriter == {w1}
TwoKeys == {k1, k2}
TwoFirst == <<k1, k2>>
=============================================================================
