-------------------------------- MODULE Dict --------------------------------
(***************************************************************************)
(* A dict of two hash tables that grows a little with every call: while it *)
(* is rehashing, each call moves one bucket from the first table to the    *)
(* second, and new entries go to the second.                               *)
(*                                                                         *)
(* A bucket is the set of the entries chained in it.  dict_can_resize is   *)
(* always TRUE: nothing in the repository clears it, or sets the seed of   *)
(* the hash anew.                                                          *)
(***************************************************************************)
EXTENDS Integers, FiniteSetsExt

CONSTANTS
    Keys,
    Hash,           \* of each key
    InitialSize,    \* DICT_HT_INITIAL_SIZE, 4 in the code
    Absent          \* what is found of a key that is not there

ASSUME HashAssumption == Hash \in [Keys -> Nat]
ASSUME InitialSizeAssumption == InitialSize \in Nat \ {0}
(* Powers of two outgrow what they are compared with. *)
ASSUME PowersAssumption ==
    IsFiniteSet(Keys) /\ \A n \in 0..(2 * Cardinality(Keys)) : 2^n > n

NextPower(size) == Min({p \in {InitialSize * 2^i : i \in 0..size} : p >= size})

(* A table of `size` buckets, and a dict: two tables and rehash_idx *)
Table(size, used, at) == [size |-> size, used |-> used, at |-> at]
Dict(first, second, idx) ==
    [ht |-> [t \in 0..1 |-> IF t = 0 THEN first ELSE second], idx |-> idx]

Buckets(n) == [i \in 0..(n - 1) |-> {}]
DictNew == Dict(Table(0, 0, Buckets(0)), Table(0, 0, Buckets(0)), -1)

(* What a call does to one of the tables *)
WithTable(d, t, T) ==
    IF t = 0 THEN Dict(T, d.ht[1], d.idx) ELSE Dict(d.ht[0], T, d.idx)

Length(d) == d.ht[0].used + d.ht[1].used
IsRehashing(d) == d.idx # -1

(* get_working_ht; lookups go no further *)
Working(d) == IF IsRehashing(d) THEN 1 ELSE 0

Place(d, t, k) == Hash[k] % d.ht[t].size

(* The tables that have the key, and the one that is looked into first *)
Found(d, k) ==
    IF d.ht[0].size = 0 THEN {}
    ELSE {t \in 0..Working(d) : \E e \in d.ht[t].at[Place(d, t, k)] : e.key = k}
EntryOf(d, t, k) == CHOOSE e \in d.ht[t].at[Place(d, t, k)] : e.key = k

Find(d, k) == IF Found(d, k) = {} THEN Absent ELSE EntryOf(d, Min(Found(d, k)), k).value

(* Mutant: the new table is no larger. *)
NewSizeSame(d) == NextPower(d.ht[0].used)

NewSize(d) == NextPower(d.ht[0].used * 2)

ExpandIfNeeded(d) ==
    LET n == NewSize(d) IN
    CASE IsRehashing(d) -> d
      [] ~IsRehashing(d) /\ d.ht[0].size = 0 ->
            WithTable(d, 0, Table(InitialSize, d.ht[0].used, Buckets(InitialSize)))
      [] ~IsRehashing(d) /\ d.ht[0].size # 0 /\ d.ht[0].used >= d.ht[0].size ->
            Dict(d.ht[0], Table(n, d.ht[1].used, Buckets(n)), 0)
      [] OTHER -> d

(* Mutant: the tables are swapped when the last bucket is reached. *)
RehashDoneAtEnd(d) == d.idx = d.ht[0].size - 1

RehashDone(d) == d.ht[0].used = 0

(* The first bucket from rehash_idx on that has entries *)
NextBucket(d) == Min({j \in d.idx..(d.ht[0].size - 1) : d.ht[0].at[j] # {}})

(* Mutant: the entries moved are still counted in the first table. *)
EmptiedCounted(T, i) == Table(T.size, T.used, [T.at EXCEPT ![i] = {}])

(* A table that some entries are moved out of, and one they are moved to *)
Emptied(T, i) == Table(T.size, T.used - Cardinality(T.at[i]), [T.at EXCEPT ![i] = {}])
Filled(T, moved) ==
    Table(T.size, T.used + Cardinality(moved),
          [j \in DOMAIN T.at |-> T.at[j] \cup {e \in moved : Hash[e.key] % T.size = j}])

MoveBucket(d) ==
    LET i == NextBucket(d) IN
    Dict(Emptied(d.ht[0], i), Filled(d.ht[1], d.ht[0].at[i]), i)

(* rehash_step_if_needed *)
RehashStep(d) ==
    CASE ~IsRehashing(d) -> d
      [] IsRehashing(d) /\ RehashDone(d) ->
            Dict(d.ht[1], d.ht[0], -1)
      [] OTHER -> MoveBucket(d)

InsertHead(d, k, v) ==
    LET t == Working(d)
        T == d.ht[t]
        b == Place(d, t, k)
    IN WithTable(d, t, Table(T.size, T.used + 1,
                             [T.at EXCEPT ![b] = @ \cup {[key |-> k, value |-> v]}]))

Without(d, t, k) ==
    LET T == d.ht[t]
        b == Place(d, t, k)
    IN WithTable(d, t, Table(T.size, T.used - 1, [T.at EXCEPT ![b] = @ \ {EntryOf(d, t, k)}]))

(* try_update, of a key that is there *)
Updated(d, t, k, v) ==
    LET T == d.ht[t]
        b == Place(d, t, k)
    IN WithTable(d, t, Table(T.size, T.used,
           [T.at EXCEPT ![b] = (@ \ {EntryOf(d, t, k)}) \cup {[key |-> k, value |-> v]}]))

(* Each operation gives the dict after it, and whether it did what it says. *)
Add(d, k, v) ==
    LET e == ExpandIfNeeded(RehashStep(d)) IN
    IF Found(e, k) = {} THEN [dict |-> InsertHead(e, k, v), ok |-> TRUE]
    ELSE [dict |-> e, ok |-> FALSE]

Replace(d, k, v) ==
    LET e == ExpandIfNeeded(RehashStep(d)) IN
    IF Found(e, k) = {}
    THEN [dict |-> InsertHead(RehashStep(e), k, v), ok |-> TRUE]
    ELSE [dict |-> Updated(e, Min(Found(e, k)), k, v), ok |-> FALSE]

Delete(d, k) ==
    LET e == RehashStep(d) IN
    CASE d.ht[0].size = 0 -> [dict |-> d, ok |-> FALSE]
      [] d.ht[0].size # 0 /\ Found(e, k) = {} -> [dict |-> e, ok |-> FALSE]
      [] OTHER -> [dict |-> Without(e, Min(Found(e, k)), k), ok |-> TRUE]

(* find_by_mut *)
FindByMut(d, k) ==
    LET e == IF d.ht[0].size = 0 THEN d ELSE RehashStep(d) IN
    [dict |-> e, value |-> Find(e, k)]

-----------------------------------------------------------------------------
Entries(t) == UNION {t.at[i] : i \in DOMAIN t.at}

(* What a caller can find *)
Contents(d) == [k \in {x \in Keys : Found(d, x) # {}} |-> Find(d, k)]

(* Every entry is in the bucket of its hash, a key has one entry in the two
   tables, the second table is empty but for a rehash, and a rehash has left
   nothing behind it. *)
DictSound(d) ==
    /\ \A t \in 0..1 :
          /\ \A i \in DOMAIN d.ht[t].at : \A e \in d.ht[t].at[i] : Place(d, t, e.key) = i
          /\ d.ht[t].used = Cardinality(Entries(d.ht[t]))
          /\ DOMAIN d.ht[t].at = 0..(d.ht[t].size - 1)
    /\ \A e, f \in Entries(d.ht[0]) \cup Entries(d.ht[1]) : e.key = f.key => e = f
    /\ Entries(d.ht[0]) \cap Entries(d.ht[1]) = {}
    /\ IsRehashing(d) => /\ d.idx \in DOMAIN d.ht[0].at
                         /\ \A i \in 0..(d.idx - 1) : d.ht[0].at[i] = {}
    /\ ~IsRehashing(d) => d.ht[1].used = 0

(* A rehash keeps up: it ends before the table it fills has more than one
   entry too many, whatever the calls in between. *)
KeepsUp(d) == d.ht[0].size # 0 => Length(d) <= d.ht[Working(d)].size + 1
=============================================================================
