----------------------------- MODULE SetObject -----------------------------
(***************************************************************************)
(* The set object: an int set until it is given a word, then a dict, for   *)
(* good.  Its elements are strings; the key of an integer is that integer, *)
(* spelled as the program spells it.                                       *)
(***************************************************************************)
EXTENDS IntSet, Dict

CONSTANT Words      \* the keys that spell no integer

ASSUME WordsAssumption == Words \subseteq Keys /\ Keys \subseteq Int

SetOf(enc, body) == [enc |-> enc, body |-> body]
Unit == 0   \* the value of every entry

(* create_int_set_object and create_set_object *)
SetNews == {SetOf("intset", IntSetNew), SetOf("ht", DictNew)}

(* Iter of the dict: the second table only while a rehash goes on *)
DictIter(d) == {e.key : e \in UNION {Entries(d.ht[t]) : t \in 0..Working(d)}}

SetUpgradeAdd(s, x) ==
    LET added(d, y) == Add(d, y, Unit).dict
    IN SetOf("ht", added(FoldLeft(added, DictNew, IntValues(s.body)), x))

SetAdd(s, x) ==
    CASE s.enc = "ht" -> SetOf("ht", Add(s.body, x, Unit).dict)
      [] s.enc = "intset" /\ x \in Words -> SetUpgradeAdd(s, x)
      [] OTHER -> SetOf("intset", IntAdd(s.body, x))

(* sw_iter *)
SetMembers(s) == IF s.enc = "ht" THEN DictIter(s.body) ELSE Range(IntValues(s.body))

(* sw_exists *)
SetExists(s, x) ==
    IF s.enc = "ht" THEN Found(s.body, x) # {} ELSE x \notin Words /\ IntHas(s.body, x)

(* sw_delete *)
SetDelete(s, x) ==
    CASE s.enc = "ht" -> SetOf("ht", Delete(s.body, x).dict)
      [] s.enc = "intset" /\ x \notin Words -> SetOf("intset", IntRemove(s.body, x))
      [] OTHER -> s

(* sw_pop_random of a set that is not empty: random_key_value goes from a
   random bucket on to the first that is not empty, through both tables while a
   rehash goes on, and comes to any entry. *)
SetRandom(s) == SetMembers(s)
=============================================================================
