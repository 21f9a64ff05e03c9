----------------------------- MODULE MCStorage -----------------------------
(* A DB with keys that share buckets of small tables and part in larger ones,
   containers of a few elements, and lists that become too long, or are given
   an item that is. *)
EXTENDS Storage, TLC

CONSTANTS v1, v2

ThreeKeys == 1..3
OneKey == {1}
TwoValues == {v1, v2}
(* 1 and 2 share a bucket until the table has four. *)
SomeShare == <<0, 2, 1>>
(* Values are only compared. *)
ValuesAlike == Permutations(TwoValues)

EightKeys == 1..8
(* Some keys collide, and the order of the hashes is not that of the keys. *)
SomeCollide == <<4, 2, 2, 1, 4, 3, 2, 1>>

(* A byte has two bits, the widths are 1, 2 and 4 bytes. *)
SmallWidths == {1, 2, 4}
EveryWidth == {-100, -8, -3, -2, 0, 1, 7, 100}

FourElements == 1..4
TiedScores == <<1, 2, 2, 3>>

LastKey == {3}

(* Two items a zip list takes, of different lengths, and one it does not *)
ThreeItems == 1..3
ItemBytes == <<1, 3, 9>>
=============================================================================
