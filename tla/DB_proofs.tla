------------------------------ MODULE DB_proofs ------------------------------
(***************************************************************************)
(* A DB is a plain map of values and a plain map of times, for any keys,   *)
(* hashes, values and number of calls: what its two dicts do while they    *)
(* are rehashed is not seen from outside.  First, what the operations of a *)
(* dict do to what it contains, whatever its phase of a rehash.            *)
(***************************************************************************)
EXTENDS DB, FiniteSetTheorems, TLAPS

Entry(V) == [key : Keys, value : V]

(* The bucket of a key in a table of n *)
Slot(n, k) == Hash[k] % n

(* n buckets that hold the entries E, each in the bucket of its key *)
Holds(n, at, E, V) ==
    /\ n \in Nat /\ at \in [0..(n - 1) -> SUBSET Entry(V)]
    /\ \A i \in 0..(n - 1) : at[i] \subseteq E /\ \A e \in at[i] : Slot(n, e.key) = i
    /\ \A e \in E : \E i \in 0..(n - 1) : e \in at[i]
    /\ IsFiniteSet(E)

-----------------------------------------------------------------------------
(* Buckets *)

(* A key has a bucket. *)
LEMMA SlotTyped ==
    ASSUME NEW n \in Nat, n # 0, NEW k \in Keys
    PROVE  Slot(n, k) \in 0..(n - 1)
<1>1. Hash[k] \in Nat
    BY HashAssumption
<1> QED BY <1>1 DEF Slot

(* An entry is in the bucket of its key and nowhere else. *)
LEMMA EntryPlace ==
    ASSUME NEW n, NEW at, NEW E, NEW V, Holds(n, at, E, V)
    PROVE  /\ E \subseteq Entry(V)
           /\ \A e \in E : n # 0 /\ Slot(n, e.key) \in 0..(n - 1) /\ e \in at[Slot(n, e.key)]
<1>1. SUFFICES ASSUME NEW e \in E
               PROVE  e \in Entry(V) /\ n # 0 /\ Slot(n, e.key) \in 0..(n - 1) /\ e \in at[Slot(n, e.key)]
    OBVIOUS
<1>2. PICK i \in 0..(n - 1) : e \in at[i]
    BY DEF Holds
<1>3. Slot(n, e.key) = i /\ n \in Nat /\ e \in Entry(V)
    BY <1>2 DEF Holds
<1> QED BY <1>2, <1>3

(* Buckets without entries *)
LEMMA HoldsNothing ==
    ASSUME NEW n \in Nat, NEW V
    PROVE  Holds(n, Buckets(n), {}, V)
<1>1. Buckets(n) \in [0..(n - 1) -> SUBSET Entry(V)] /\ \A i \in 0..(n - 1) : Buckets(n)[i] = {}
    BY DEF Buckets
<1> QED BY <1>1, FS_EmptySet DEF Holds

(* An entry that joins its bucket *)
LEMMA HoldsWith ==
    ASSUME NEW n, NEW at, NEW E, NEW V, Holds(n, at, E, V), n # 0, NEW x \in Entry(V)
    PROVE  Holds(n, [at EXCEPT ![Slot(n, x.key)] = @ \cup {x}], E \cup {x}, V)
<1> DEFINE p == Slot(n, x.key)
           new == [at EXCEPT ![p] = @ \cup {x}]
<1>1. /\ n \in Nat /\ at \in [0..(n - 1) -> SUBSET Entry(V)]
      /\ \A i \in 0..(n - 1) : at[i] \subseteq E /\ \A e \in at[i] : Slot(n, e.key) = i
      /\ IsFiniteSet(E)
    BY DEF Holds
<1>2. p \in 0..(n - 1)
    BY <1>1, SlotTyped DEF Entry
<1>3. new \in [0..(n - 1) -> SUBSET Entry(V)]
    BY <1>1, <1>2
<1>4. \A i \in 0..(n - 1) : new[i] = IF i = p THEN at[i] \cup {x} ELSE at[i]
    BY <1>1, <1>2
<1>5. Slot(n, x.key) = p
    OBVIOUS
<1> HIDE DEF p, new
<1>6. ASSUME NEW i \in 0..(n - 1)
      PROVE  new[i] \subseteq E \cup {x} /\ \A e \in new[i] : Slot(n, e.key) = i
    <2>1. CASE i = p
        BY <1>1, <1>4, <1>5, <2>1
    <2>2. CASE i # p
        BY <1>1, <1>4, <2>2
    <2> QED BY <2>1, <2>2
<1>7. ASSUME NEW e \in E \cup {x} PROVE \E i \in 0..(n - 1) : e \in new[i]
    <2>1. CASE e \in E
        <3>1. Slot(n, e.key) \in 0..(n - 1) /\ e \in at[Slot(n, e.key)]
            BY <2>1, EntryPlace
        <3> QED BY <1>4, <3>1
    <2>2. CASE e = x
        BY <1>2, <1>4, <2>2
    <2> QED BY <2>1, <2>2
<1>8. IsFiniteSet(E \cup {x})
    BY <1>1, FS_AddElement
<1> QED BY <1>1, <1>3, <1>6, <1>7, <1>8 DEF Holds, p, new

(* An entry that leaves its bucket *)
LEMMA HoldsWithout ==
    ASSUME NEW n, NEW at, NEW E, NEW V, Holds(n, at, E, V), NEW x \in E
    PROVE  Holds(n, [at EXCEPT ![Slot(n, x.key)] = @ \ {x}], E \ {x}, V)
<1> DEFINE p == Slot(n, x.key)
           new == [at EXCEPT ![p] = @ \ {x}]
<1>1. /\ n \in Nat /\ at \in [0..(n - 1) -> SUBSET Entry(V)]
      /\ \A i \in 0..(n - 1) : at[i] \subseteq E /\ \A e \in at[i] : Slot(n, e.key) = i
      /\ IsFiniteSet(E)
    BY DEF Holds
<1>2. p \in 0..(n - 1)
    BY EntryPlace
<1>3. new \in [0..(n - 1) -> SUBSET Entry(V)]
    BY <1>1, <1>2
<1>4. \A i \in 0..(n - 1) : new[i] = IF i = p THEN at[i] \ {x} ELSE at[i]
    BY <1>1, <1>2
<1>5. Slot(n, x.key) = p
    OBVIOUS
<1> HIDE DEF p, new
<1>6. ASSUME NEW i \in 0..(n - 1)
      PROVE  new[i] \subseteq E \ {x} /\ \A e \in new[i] : Slot(n, e.key) = i
    <2>1. CASE i = p
        BY <1>1, <1>4, <2>1
    <2>2. CASE i # p
        <3>1. new[i] = at[i] /\ x \notin at[i]
            BY <1>1, <1>4, <1>5, <2>2
        <3> QED BY <1>1, <3>1
    <2> QED BY <2>1, <2>2
<1>7. ASSUME NEW e \in E \ {x} PROVE \E i \in 0..(n - 1) : e \in new[i]
    <2>1. Slot(n, e.key) \in 0..(n - 1) /\ e \in at[Slot(n, e.key)]
        BY EntryPlace
    <2> QED BY <1>4, <2>1
<1>8. IsFiniteSet(E \ {x})
    BY <1>1, FS_RemoveElement
<1> QED BY <1>1, <1>3, <1>6, <1>7, <1>8 DEF Holds, p, new

(* A bucket that is emptied *)
LEMMA HoldsCleared ==
    ASSUME NEW n, NEW at, NEW E, NEW V, Holds(n, at, E, V), NEW p \in 0..(n - 1)
    PROVE  Holds(n, [at EXCEPT ![p] = {}], E \ at[p], V)
<1> DEFINE new == [at EXCEPT ![p] = {}]
<1>1. /\ n \in Nat /\ at \in [0..(n - 1) -> SUBSET Entry(V)]
      /\ \A i \in 0..(n - 1) : at[i] \subseteq E /\ \A e \in at[i] : Slot(n, e.key) = i
      /\ IsFiniteSet(E)
    BY DEF Holds
<1>3. new \in [0..(n - 1) -> SUBSET Entry(V)]
    BY <1>1
<1>4. \A i \in 0..(n - 1) : new[i] = IF i = p THEN {} ELSE at[i]
    BY <1>1
<1> HIDE DEF new
<1>6. ASSUME NEW i \in 0..(n - 1)
      PROVE  new[i] \subseteq E \ at[p] /\ \A e \in new[i] : Slot(n, e.key) = i
    <2>1. CASE i = p
        BY <1>4, <2>1
    <2>2. CASE i # p
        <3>1. new[i] = at[i]
            BY <1>4, <2>2
        <3>2. at[i] \cap at[p] = {}
            BY <1>1, <2>2
        <3> QED BY <1>1, <3>1, <3>2
    <2> QED BY <2>1, <2>2
<1>7. ASSUME NEW e \in E \ at[p] PROVE \E i \in 0..(n - 1) : e \in new[i]
    <2>1. Slot(n, e.key) \in 0..(n - 1) /\ e \in at[Slot(n, e.key)]
        BY EntryPlace
    <2> QED BY <1>4, <2>1
<1>8. IsFiniteSet(E \ at[p])
    BY <1>1, FS_Difference
<1> QED BY <1>1, <1>3, <1>6, <1>7, <1>8 DEF Holds, new

(* Entries that join their buckets *)
LEMMA HoldsFilled ==
    ASSUME NEW n, NEW at, NEW E, NEW V, Holds(n, at, E, V), n # 0,
           NEW M \in SUBSET Entry(V), IsFiniteSet(M)
    PROVE  Holds(n, [j \in DOMAIN at |-> at[j] \cup {e \in M : Slot(n, e.key) = j}], E \cup M, V)
<1> DEFINE new == [j \in DOMAIN at |-> at[j] \cup {e \in M : Slot(n, e.key) = j}]
<1>1. /\ n \in Nat /\ at \in [0..(n - 1) -> SUBSET Entry(V)]
      /\ \A i \in 0..(n - 1) : at[i] \subseteq E /\ \A e \in at[i] : Slot(n, e.key) = i
      /\ IsFiniteSet(E)
    BY DEF Holds
<1>3. new \in [0..(n - 1) -> SUBSET Entry(V)]
    BY <1>1
<1>4. \A i \in 0..(n - 1) : new[i] = at[i] \cup {e \in M : Slot(n, e.key) = i}
    BY <1>1
<1> HIDE DEF new
<1>6. ASSUME NEW i \in 0..(n - 1)
      PROVE  new[i] \subseteq E \cup M /\ \A e \in new[i] : Slot(n, e.key) = i
    BY <1>1, <1>4
<1>7. ASSUME NEW e \in E \cup M PROVE \E i \in 0..(n - 1) : e \in new[i]
    <2>1. CASE e \in E
        <3>1. Slot(n, e.key) \in 0..(n - 1) /\ e \in at[Slot(n, e.key)]
            BY <2>1, EntryPlace
        <3> QED BY <1>4, <3>1
    <2>2. CASE e \in M
        <3>1. Slot(n, e.key) \in 0..(n - 1)
            BY <1>1, <2>2, SlotTyped DEF Entry
        <3> QED BY <1>4, <2>2, <3>1
    <2> QED BY <2>1, <2>2
<1>8. IsFiniteSet(E \cup M)
    BY <1>1, FS_Union
<1> QED BY <1>1, <1>3, <1>6, <1>7, <1>8 DEF Holds, new

(* An entry that is given another value *)
LEMMA HoldsChanged ==
    ASSUME NEW n, NEW at, NEW E, NEW V, Holds(n, at, E, V), NEW x \in E, NEW v \in V,
           \A e \in E : e.key = x.key => e = x,
           NEW y, y = [x EXCEPT !.value = v]
    PROVE  Holds(n, [at EXCEPT ![Slot(n, x.key)] =
                        {IF e.key = x.key THEN [e EXCEPT !.value = v] ELSE e : e \in @}],
                 (E \ {x}) \cup {y}, V)
<1> DEFINE p == Slot(n, x.key)
           less == [at EXCEPT ![p] = @ \ {x}]
           changed == {IF e.key = x.key THEN [e EXCEPT !.value = v] ELSE e : e \in at[p]}
<1>1. /\ n \in Nat /\ at \in [0..(n - 1) -> SUBSET Entry(V)]
      /\ \A i \in 0..(n - 1) : at[i] \subseteq E
    BY DEF Holds
<1>2. p \in 0..(n - 1) /\ x \in at[p] /\ n # 0 /\ x \in Entry(V)
    BY EntryPlace
<1>3. y \in Entry(V) /\ y.key = x.key
    BY <1>2 DEF Entry
<1>4. changed = (at[p] \ {x}) \cup {y}
    <2>1. \A e \in at[p] : IF e = x THEN e.key = x.key ELSE e.key # x.key
        BY <1>1, <1>2
    <2>2. ASSUME NEW z \in changed PROVE z \in (at[p] \ {x}) \cup {y}
        BY <2>1
    <2>3. ASSUME NEW z \in (at[p] \ {x}) \cup {y} PROVE z \in changed
        <3>1. CASE z = y
            BY <1>2, <3>1
        <3>2. CASE z \in at[p] \ {x}
            BY <2>1, <3>2
        <3> QED BY <3>1, <3>2
    <2> QED BY <2>2, <2>3
<1>5. Holds(n, less, E \ {x}, V)
    BY HoldsWithout
<1>6. Holds(n, [less EXCEPT ![p] = @ \cup {y}], (E \ {x}) \cup {y}, V)
    <2> HIDE DEF less
    <2> QED BY <1>2, <1>3, <1>5, HoldsWith
<1>7. [less EXCEPT ![p] = @ \cup {y}] = [at EXCEPT ![p] = (at[p] \ {x}) \cup {y}]
    BY <1>1, <1>2
<1>8. [less EXCEPT ![p] = @ \cup {y}] = [at EXCEPT ![p] = changed]
    BY <1>4, <1>7
<1> QED BY <1>6, <1>8

-----------------------------------------------------------------------------
(* Dicts *)

(* A table counts the entries it holds. *)
GoodTable(T, V) ==
    /\ T = Table(T.size, Cardinality(Entries(T)), T.at)
    /\ Holds(T.size, T.at, Entries(T), V)

All(d) == Entries(d.ht[0]) \cup Entries(d.ht[1])

(* DictSound, with the types and with the tables being there *)
Good(d, V) ==
    /\ d = Dict(d.ht[0], d.ht[1], d.idx) /\ d.idx \in Int
    /\ GoodTable(d.ht[0], V) /\ GoodTable(d.ht[1], V)
    /\ \A e, f \in All(d) : e.key = f.key => e = f
    /\ Entries(d.ht[0]) \cap Entries(d.ht[1]) = {}
    /\ IsRehashing(d) => /\ d.idx \in 0..(d.ht[0].size - 1)
                         /\ \A i \in 0..(d.idx - 1) : d.ht[0].at[i] = {}
                         /\ d.ht[1].size # 0
    /\ ~IsRehashing(d) => Entries(d.ht[1]) = {}

(* The parts of a dict *)
LEMMA DictIs ==
    ASSUME NEW A, NEW B, NEW i, NEW d, d = Dict(A, B, i)
    PROVE  /\ d = Dict(d.ht[0], d.ht[1], d.idx)
           /\ d.ht[0] = A /\ d.ht[1] = B /\ d.idx = i
<1>1. d.ht[0] = A /\ d.ht[1] = B /\ d.idx = i
    BY DEF Dict
<1> QED BY <1>1

(* A table made of buckets that hold E *)
LEMMA TableMade ==
    ASSUME NEW V, NEW n, NEW at, NEW E, Holds(n, at, E, V),
           NEW T, T = Table(n, Cardinality(E), at)
    PROVE  /\ GoodTable(T, V) /\ Entries(T) = E
           /\ T.size = n /\ T.at = at /\ T.used = Cardinality(E)
<1>1. T.size = n /\ T.at = at /\ T.used = Cardinality(E)
    BY DEF Table
<1>2. Entries(T) = E
    <2>1. DOMAIN at = 0..(n - 1) /\ \A i \in 0..(n - 1) : at[i] \subseteq E
        BY DEF Holds
    <2>2. \A e \in E : \E i \in 0..(n - 1) : e \in at[i]
        BY DEF Holds
    <2>3. ASSUME NEW e \in E PROVE e \in Entries(T)
        BY <1>1, <2>1, <2>2 DEF Entries
    <2>4. ASSUME NEW e \in Entries(T) PROVE e \in E
        BY <1>1, <2>1 DEF Entries
    <2> QED BY <2>3, <2>4
<1> QED BY <1>1, <1>2 DEF GoodTable

(* The size and the count of a good table are numbers. *)
LEMMA TableIs ==
    ASSUME NEW T, NEW V, GoodTable(T, V)
    PROVE  /\ T.size \in Nat /\ T.used \in Nat /\ T.used = Cardinality(Entries(T))
           /\ T.at \in [0..(T.size - 1) -> SUBSET Entry(V)]
           /\ IsFiniteSet(Entries(T)) /\ Entries(T) \subseteq Entry(V)
           /\ T.size = 0 => Entries(T) = {}
           /\ T.used = 0 <=> Entries(T) = {}
<1>1. Holds(T.size, T.at, Entries(T), V) /\ T.used = Cardinality(Entries(T))
    BY DEF GoodTable, Table
<1>2. IsFiniteSet(Entries(T)) /\ T.size \in Nat /\ T.at \in [0..(T.size - 1) -> SUBSET Entry(V)]
    BY <1>1 DEF Holds
<1>3. Entries(T) \subseteq Entry(V) /\ (T.size = 0 => Entries(T) = {})
    BY <1>1, EntryPlace
<1> QED BY <1>1, <1>2, <1>3, FS_CardinalityType, FS_EmptySet

(* A good dict is sound. *)
LEMMA GoodIsSound ==
    ASSUME NEW d, NEW V, Good(d, V)
    PROVE  DictSound(d)
<1>1. ASSUME NEW t \in 0..1
      PROVE  /\ DOMAIN d.ht[t].at = 0..(d.ht[t].size - 1)
             /\ \A i \in DOMAIN d.ht[t].at : \A e \in d.ht[t].at[i] : Place(d, t, e.key) = i
             /\ d.ht[t].used = Cardinality(Entries(d.ht[t]))
    <2>1. GoodTable(d.ht[t], V)
        BY DEF Good
    <2>2. Holds(d.ht[t].size, d.ht[t].at, Entries(d.ht[t]), V)
        BY <2>1 DEF GoodTable
    <2> QED BY <2>1, <2>2, TableIs DEF Holds, Place, Slot
<1>2. d.ht[1].used = 0 <=> Entries(d.ht[1]) = {}
    BY TableIs DEF Good
<1>3. IsRehashing(d) => /\ d.idx \in DOMAIN d.ht[0].at
                        /\ \A i \in 0..(d.idx - 1) : d.ht[0].at[i] = {}
    <2>1. DOMAIN d.ht[0].at = 0..(d.ht[0].size - 1)
        BY <1>1
    <2> QED BY <2>1 DEF Good
<1>4. /\ \A e, f \in Entries(d.ht[0]) \cup Entries(d.ht[1]) : e.key = f.key => e = f
      /\ Entries(d.ht[0]) \cap Entries(d.ht[1]) = {}
    BY DEF Good, All
<1>5. ~IsRehashing(d) => d.ht[1].used = 0
    BY <1>2 DEF Good
<1> QED BY <1>1, <1>3, <1>4, <1>5 DEF DictSound

(* A least number of two *)
LEMMA LeastOfTwo ==
    ASSUME NEW S \in SUBSET (0..1), S # {}
    PROVE  Min(S) \in S
<1>1. CASE 0 \in S
    <2>1. 0 \in S /\ \A y \in S : 0 <= y
        BY <1>1
    <2> QED BY <2>1 DEF Min
<1>2. CASE 0 \notin S
    <2>1. \A y \in S : y = 1
        BY <1>2
    <2>2. PICK y \in S : TRUE
        OBVIOUS
    <2>3. 1 \in S /\ \A z \in S : 1 <= z
        BY <2>1, <2>2
    <2> QED BY <2>3 DEF Min
<1> QED BY <1>1, <1>2

(* A key is found in the tables that have an entry of it. *)
LEMMA FoundIs ==
    ASSUME NEW d, NEW V, Good(d, V), NEW k \in Keys
    PROVE  /\ Found(d, k) = {t \in 0..1 : \E e \in Entries(d.ht[t]) : e.key = k}
           /\ \A t \in Found(d, k) :
                 /\ EntryOf(d, t, k) \in Entries(d.ht[t]) /\ EntryOf(d, t, k).key = k
                 /\ Place(d, t, k) = Slot(d.ht[t].size, k)
<1>1. ASSUME NEW t \in 0..1, d.ht[t].size # 0
      PROVE  /\ Place(d, t, k) = Slot(d.ht[t].size, k)
             /\ d.ht[t].at[Place(d, t, k)] \subseteq Entries(d.ht[t])
             /\ \A e \in Entries(d.ht[t]) : e.key = k => e \in d.ht[t].at[Place(d, t, k)]
    <2>1. Holds(d.ht[t].size, d.ht[t].at, Entries(d.ht[t]), V)
        BY DEF Good, GoodTable
    <2>2. Place(d, t, k) = Slot(d.ht[t].size, k)
        BY DEF Place, Slot
    <2>3. d.ht[t].size \in Nat
        BY <2>1 DEF Holds
    <2>4. Slot(d.ht[t].size, k) \in 0..(d.ht[t].size - 1)
        BY <1>1, <2>3, SlotTyped
    <2>5. \A e \in Entries(d.ht[t]) : e \in d.ht[t].at[Slot(d.ht[t].size, e.key)]
        BY <2>1, EntryPlace
    <2> QED BY <2>1, <2>2, <2>4, <2>5 DEF Holds
<1>2. /\ d.ht[0].size = 0 => ~IsRehashing(d) /\ Entries(d.ht[0]) = {}
      /\ IsRehashing(d) => d.ht[1].size # 0
      /\ ~IsRehashing(d) => Entries(d.ht[1]) = {}
    <2>1. GoodTable(d.ht[0], V)
        BY DEF Good
    <2>2. d.ht[0].size = 0 => Entries(d.ht[0]) = {}
        BY <2>1, TableIs
    <2>3. IsRehashing(d) => d.ht[0].size # 0
        BY DEF Good
    <2> QED BY <2>2, <2>3 DEF Good
<1>3. CASE d.ht[0].size = 0
    BY <1>2, <1>3 DEF Found
<1>4. CASE d.ht[0].size # 0
    <2>1. Found(d, k) = {t \in 0..Working(d) : \E e \in d.ht[t].at[Place(d, t, k)] : e.key = k}
        BY <1>4 DEF Found
    <2>2. \A t \in 0..Working(d) : t \in 0..1 /\ d.ht[t].size # 0
        BY <1>2, <1>4 DEF Working
    <2>3. \A t \in 0..1 : t \notin 0..Working(d) => Entries(d.ht[t]) = {}
        BY <1>2 DEF Working
    <2>4. \A t \in 0..Working(d) :
             (\E e \in d.ht[t].at[Place(d, t, k)] : e.key = k) <=> \E e \in Entries(d.ht[t]) : e.key = k
        BY <1>1, <2>2
    <2>5. Found(d, k) = {t \in 0..1 : \E e \in Entries(d.ht[t]) : e.key = k}
        BY <2>1, <2>2, <2>3, <2>4
    <2>6. ASSUME NEW t \in Found(d, k)
          PROVE  /\ EntryOf(d, t, k) \in Entries(d.ht[t]) /\ EntryOf(d, t, k).key = k
                 /\ Place(d, t, k) = Slot(d.ht[t].size, k)
        <3>1. t \in 0..1 /\ d.ht[t].size # 0 /\ \E e \in d.ht[t].at[Place(d, t, k)] : e.key = k
            BY <2>1, <2>2
        <3>2. EntryOf(d, t, k) \in d.ht[t].at[Place(d, t, k)] /\ EntryOf(d, t, k).key = k
            BY <3>1 DEF EntryOf
        <3> QED BY <1>1, <3>1, <3>2
    <2> QED BY <2>5, <2>6
<1> QED BY <1>3, <1>4

(* What is found of a key is the value of its entry. *)
LEMMA FindIs ==
    ASSUME NEW d, NEW V, Good(d, V), NEW k \in Keys
    PROVE  /\ Found(d, k) # {} <=> \E e \in All(d) : e.key = k
           /\ \A e \in All(d) : e.key = k => Find(d, k) = e.value
           /\ (~ \E e \in All(d) : e.key = k) => Find(d, k) = Absent
<1>1. Found(d, k) = {t \in 0..1 : \E e \in Entries(d.ht[t]) : e.key = k}
    BY FoundIs
<1>2. Found(d, k) # {} <=> \E e \in All(d) : e.key = k
    BY <1>1 DEF All
<1>3. ASSUME NEW e \in All(d), e.key = k PROVE Find(d, k) = e.value
    <2> DEFINE t == Min(Found(d, k))
    <2>1. Found(d, k) # {}
        BY <1>2, <1>3
    <2>2. t \in Found(d, k)
        BY <1>1, <2>1, LeastOfTwo
    <2> HIDE DEF t
    <2>3. EntryOf(d, t, k) \in Entries(d.ht[t]) /\ EntryOf(d, t, k).key = k /\ t \in 0..1
        BY <1>1, <2>2, FoundIs
    <2>4. EntryOf(d, t, k) \in All(d)
        BY <2>3 DEF All
    <2>5. EntryOf(d, t, k) = e
        BY <1>3, <2>3, <2>4 DEF Good
    <2> QED BY <2>1, <2>5 DEF Find, t
<1>4. (~ \E e \in All(d) : e.key = k) => Find(d, k) = Absent
    BY <1>2 DEF Find
<1> QED BY <1>2, <1>3, <1>4

(* What a caller can find is what the tables hold. *)
LEMMA ContentsAre ==
    ASSUME NEW d, NEW V, Good(d, V)
    PROVE  /\ DOMAIN Contents(d) = {e.key : e \in All(d)}
           /\ \A e \in All(d) : Contents(d)[e.key] = e.value /\ e.value \in V
           /\ Contents(d) = [k \in DOMAIN Contents(d) |-> Contents(d)[k]]
           /\ \A k \in Keys : Find(d, k) = IF k \in DOMAIN Contents(d) THEN Contents(d)[k] ELSE Absent
<1>1. All(d) \subseteq Entry(V)
    BY TableIs DEF All, Good
<1>2. DOMAIN Contents(d) = {x \in Keys : Found(d, x) # {}}
    BY DEF Contents
<1>3. DOMAIN Contents(d) = {e.key : e \in All(d)}
    BY <1>1, <1>2, FindIs DEF Entry
<1>4. \A e \in All(d) : Contents(d)[e.key] = e.value /\ e.value \in V
    <2>1. \A e \in All(d) : e.key \in DOMAIN Contents(d) /\ e.key \in Keys /\ e.value \in V
        BY <1>1, <1>3 DEF Entry
    <2>2. \A k \in DOMAIN Contents(d) : Contents(d)[k] = Find(d, k)
        BY DEF Contents
    <2> QED BY <2>1, <2>2, FindIs
<1>5. Contents(d) = [k \in DOMAIN Contents(d) |-> Contents(d)[k]]
    BY DEF Contents
<1>6. \A k \in Keys : Find(d, k) = IF k \in DOMAIN Contents(d) THEN Contents(d)[k] ELSE Absent
    BY <1>2, FindIs DEF Contents
<1> QED BY <1>3, <1>4, <1>5, <1>6

(* Dicts that hold the same entries are the same from outside. *)
LEMMA SameContents ==
    ASSUME NEW d, NEW e, NEW V, Good(d, V), Good(e, V), All(e) = All(d)
    PROVE  Contents(e) = Contents(d)
<1>0. DOMAIN Contents(d) = {x.key : x \in All(d)} /\ DOMAIN Contents(e) = {x.key : x \in All(e)}
    BY ContentsAre
<1>1. DOMAIN Contents(e) = DOMAIN Contents(d)
    BY <1>0
<1>2. ASSUME NEW k \in DOMAIN Contents(d) PROVE Contents(e)[k] = Contents(d)[k]
    <2>1. PICK x \in All(d) : k = x.key
        BY <1>0
    <2>2. Contents(d)[x.key] = x.value
        BY ContentsAre
    <2>3. Contents(e)[x.key] = x.value
        BY ContentsAre
    <2> QED BY <2>1, <2>2, <2>3
<1>3. Contents(d) = [k \in DOMAIN Contents(d) |-> Contents(d)[k]]
      /\ Contents(e) = [k \in DOMAIN Contents(e) |-> Contents(e)[k]]
    BY ContentsAre
<1> QED BY <1>1, <1>2, <1>3

-----------------------------------------------------------------------------
(* Rehashing *)

(* A set of numbers has a least one. *)
LEMMA LeastNat ==
    ASSUME NEW T \in SUBSET Nat, T # {}
    PROVE  Min(T) \in T /\ \A y \in T : Min(T) <= y
<1> DEFINE R == OpToRel(<, Nat)
<1>1. IsWellFoundedOn(R, Nat)
    BY NatLessThanWellFounded
<1>2. PICK x \in T : \A y \in T : ~ (<<y, x>> \in R)
    <2> HIDE DEF R
    <2> QED BY <1>1, WFMin
<1>3. \A y \in T : <<y, x>> \in Nat \X Nat /\ ~(y < x)
    BY <1>2 DEF OpToRel
<1> HIDE DEF R
<1>4. ASSUME NEW y \in T PROVE x <= y
    <2>1. x \in Nat /\ y \in Nat /\ ~(y < x)
        BY <1>3
    <2> QED BY <2>1
<1> QED BY <1>4 DEF Min

(* A table as long as the next power of two has room for what is asked. *)
LEMMA NextPowerIs ==
    ASSUME NEW n \in 0..(2 * Cardinality(Keys))
    PROVE  NextPower(n) \in Nat /\ NextPower(n) >= n /\ NextPower(n) # 0
<1> DEFINE S == {p \in {InitialSize * 2^i : i \in 0..n} : p >= n}
<1>0. Cardinality(Keys) \in Nat /\ n \in Nat
    BY PowersAssumption, FS_CardinalityType
<1>1. InitialSize \in Nat \ {0}
    BY InitialSizeAssumption
<1>2. \A a, b \in Nat \ {0} : a * b \in Nat \ {0} /\ a * b >= b
    OBVIOUS
<1>3. ASSUME NEW i \in 0..n
      PROVE  InitialSize * 2^i \in Nat \ {0} /\ InitialSize * 2^i >= i
    <2>1. 2^i > i /\ 2^i \in Int /\ i \in Nat
        BY <1>0, PowersAssumption
    <2>2. 2^i \in Nat \ {0}
        BY <2>1
    <2> QED BY <1>1, <1>2, <2>1, <2>2
<1>4. S \in SUBSET (Nat \ {0})
    BY <1>3
<1>5. InitialSize * 2^n \in S
    BY <1>0, <1>3
<1>6. Min(S) \in S
    <2> HIDE DEF S
    <2> QED BY <1>4, <1>5, LeastNat
<1> QED BY <1>4, <1>6 DEF NextPower

(* A dict has no more entries than there are keys. *)
LEMMA FewEntries ==
    ASSUME NEW d, NEW V, Good(d, V)
    PROVE  d.ht[0].used \in 0..Cardinality(Keys)
<1> DEFINE E == Entries(d.ht[0])
           f == [e \in E |-> e.key]
<1>1. /\ E \subseteq Entry(V) /\ IsFiniteSet(E)
      /\ d.ht[0].used = Cardinality(E) /\ d.ht[0].used \in Nat
    BY TableIs DEF Good
<1>2. \A x, y \in E : x.key = y.key => x = y
    BY DEF Good, All
<1> HIDE DEF E
<1>3. f \in [E -> Keys]
    BY <1>1 DEF Entry
<1>4. f \in Injection(E, Keys)
    BY <1>2, <1>3 DEF Injection, IsInjective
<1>5. Cardinality(E) <= Cardinality(Keys)
    BY <1>4, PowersAssumption, FS_Injection
<1>6. Cardinality(Keys) \in Nat
    BY PowersAssumption, FS_CardinalityType
<1> QED BY <1>1, <1>5, <1>6

(* While there are entries in the first table there is a bucket to move. *)
LEMMA NextBucketIs ==
    ASSUME NEW d, NEW V, Good(d, V), IsRehashing(d), Entries(d.ht[0]) # {}
    PROVE  /\ NextBucket(d) \in 0..(d.ht[0].size - 1) /\ d.ht[0].at[NextBucket(d)] # {}
           /\ \A j \in 0..(NextBucket(d) - 1) : d.ht[0].at[j] = {}
<1> DEFINE at == d.ht[0].at
           n == d.ht[0].size
           S == {j \in d.idx..(n - 1) : at[j] # {}}
<1>1. /\ d.idx \in 0..(n - 1) /\ n \in Nat
      /\ \A i \in 0..(d.idx - 1) : at[i] = {}
    BY TableIs DEF Good
<1>2. PICK e \in Entries(d.ht[0]) : TRUE
    OBVIOUS
<1>3. Holds(n, at, Entries(d.ht[0]), V)
    BY DEF Good, GoodTable
<1>4. PICK i \in 0..(n - 1) : e \in at[i]
    BY <1>3 DEF Holds
<1> HIDE DEF at, n
<1>5. i \in S /\ S \in SUBSET Nat
    BY <1>1, <1>4
<1>6. NextBucket(d) = Min(S)
    BY DEF NextBucket, at, n
<1>7. /\ \A j \in S : j \in d.idx..(n - 1) /\ at[j] # {}
      /\ \A j \in d.idx..(n - 1) : at[j] # {} => j \in S
    OBVIOUS
<1> HIDE DEF S
<1>8. Min(S) \in S /\ \A y \in S : Min(S) <= y
    BY <1>5, LeastNat
<1>9. \A j \in 0..(Min(S) - 1) : at[j] = {}
    <2>1. ASSUME NEW j \in 0..(Min(S) - 1), at[j] # {} PROVE FALSE
        <3>1. Min(S) \in Nat /\ Min(S) <= n - 1 /\ j < Min(S)
            BY <1>1, <1>8, <1>7, <2>1
        <3>2. CASE j < d.idx
            BY <1>1, <2>1, <3>1, <3>2
        <3>3. CASE ~(j < d.idx)
            <4>1. j \in S
                BY <1>1, <1>7, <2>1, <3>1, <3>3
            <4> QED BY <1>8, <3>1, <4>1
        <3> QED BY <3>2, <3>3
    <2> QED BY <2>1
<1>10. Min(S) \in 0..(n - 1) /\ at[Min(S)] # {}
    BY <1>1, <1>8, <1>7
<1> QED BY <1>6, <1>9, <1>10 DEF at, n

(* What a table still has to move, and what it has, against the room for it *)
Weight(d) == Length(d) + (IF IsRehashing(d) THEN d.ht[0].used ELSE 0)
Capacity(d) == d.ht[Working(d)].size

(* KeepsUp, strengthened: the entries still to be moved are counted twice. *)
Tight(d) == d.ht[0].size # 0 => Weight(d) <= Capacity(d) + 1

(* Weights and capacities are numbers. *)
LEMMA WeightTyped ==
    ASSUME NEW d, NEW V, Good(d, V)
    PROVE  Weight(d) \in Nat /\ Capacity(d) \in Nat
<1>1. \A t \in 0..1 : d.ht[t].used \in Nat /\ d.ht[t].size \in Nat
    <2>1. /\ d.ht[0].used \in Nat /\ d.ht[0].size \in Nat
          /\ d.ht[1].used \in Nat /\ d.ht[1].size \in Nat
        BY TableIs DEF Good
    <2> QED BY <2>1
<1> QED BY <1>1 DEF Weight, Capacity, Length, Working

(* A step of a rehash keeps what the dict holds, and makes it lighter. *)
LEMMA MoveBucketIs ==
    ASSUME NEW d, NEW V, Good(d, V), IsRehashing(d), Entries(d.ht[0]) # {},
           NEW e, e = MoveBucket(d)
    PROVE  /\ Good(e, V) /\ All(e) = All(d) /\ IsRehashing(e)
           /\ e.ht[0].size = d.ht[0].size /\ Capacity(e) = Capacity(d)
           /\ Weight(e) < Weight(d)
<1> DEFINE A == d.ht[0]
           B == d.ht[1]
           p == NextBucket(d)
           M == A.at[p]
           less == [A.at EXCEPT ![p] = {}]
           more == [j \in DOMAIN B.at |-> B.at[j] \cup {x \in M : Slot(B.size, x.key) = j}]
<1>1. /\ GoodTable(A, V) /\ GoodTable(B, V) /\ B.size # 0
      /\ Entries(A) \cap Entries(B) = {}
    BY DEF Good
<1>2. /\ Holds(A.size, A.at, Entries(A), V) /\ Holds(B.size, B.at, Entries(B), V)
    BY <1>1 DEF GoodTable
<1>3. /\ A.used \in Nat /\ B.used \in Nat /\ A.size \in Nat /\ B.size \in Nat
      /\ A.used = Cardinality(Entries(A)) /\ B.used = Cardinality(Entries(B))
      /\ IsFiniteSet(Entries(A)) /\ IsFiniteSet(Entries(B)) /\ Entries(A) \subseteq Entry(V)
    BY <1>1, TableIs
<1>4. /\ p \in 0..(A.size - 1) /\ M # {}
      /\ \A j \in 0..(p - 1) : A.at[j] = {}
    BY NextBucketIs
<1>5. M \subseteq Entries(A)
    BY <1>2, <1>4 DEF Holds
<1>6. IsFiniteSet(M) /\ Cardinality(M) \in Nat /\ Cardinality(M) # 0 /\ Cardinality(M) <= A.used
    BY <1>3, <1>4, <1>5, FS_Subset, FS_CardinalityType, FS_EmptySet
<1>7. Cardinality(Entries(A) \ M) = A.used - Cardinality(M)
    <2>1. Entries(A) \cap M = M
        BY <1>5
    <2>2. Cardinality(Entries(A) \ M) = Cardinality(Entries(A)) - Cardinality(Entries(A) \cap M)
        <3> HIDE DEF M
        <3> QED BY <1>3, FS_Difference
    <2> QED BY <1>3, <2>1, <2>2
<1>8. Cardinality(Entries(B) \cup M) = B.used + Cardinality(M)
    <2>1. Entries(B) \cap M = {}
        BY <1>1, <1>5
    <2>2. Cardinality(Entries(B) \cap M) = 0
        BY <2>1, FS_EmptySet
    <2>3. Cardinality(Entries(B) \cup M) = Cardinality(Entries(B)) + Cardinality(M) - Cardinality(Entries(B) \cap M)
        BY <1>3, <1>6, FS_Union
    <2> QED BY <1>3, <1>6, <2>2, <2>3
<1>9. Holds(A.size, less, Entries(A) \ M, V)
    BY <1>2, <1>4, HoldsCleared
<1>10. Holds(B.size, more, Entries(B) \cup M, V)
    BY <1>1, <1>2, <1>3, <1>5, <1>6, HoldsFilled
<1>11. /\ Emptied(A, p) = Table(A.size, Cardinality(Entries(A) \ M), less)
       /\ Filled(B, M) = Table(B.size, Cardinality(Entries(B) \cup M), more)
    BY <1>7, <1>8 DEF Emptied, Filled, Slot
<1>12. e = Dict(Emptied(A, p), Filled(B, M), p)
    BY DEF MoveBucket
<1> HIDE DEF less, more, p, M
<1>13. /\ GoodTable(Emptied(A, p), V) /\ Entries(Emptied(A, p)) = Entries(A) \ M
       /\ Emptied(A, p).size = A.size /\ Emptied(A, p).at = less
       /\ Emptied(A, p).used = A.used - Cardinality(M)
    <2>1. Emptied(A, p) = Table(A.size, Cardinality(Entries(A) \ M), less)
        BY <1>11
    <2> QED BY <1>7, <1>9, <2>1, TableMade
<1>14. /\ GoodTable(Filled(B, M), V) /\ Entries(Filled(B, M)) = Entries(B) \cup M
       /\ Filled(B, M).size = B.size /\ Filled(B, M).used = B.used + Cardinality(M)
    BY <1>8, <1>10, <1>11, TableMade
<1>15. /\ e = Dict(e.ht[0], e.ht[1], e.idx) /\ e.idx = p
       /\ e.ht[0] = Emptied(A, p) /\ e.ht[1] = Filled(B, M)
    BY <1>12, DictIs
<1>16. All(e) = All(d) /\ Entries(e.ht[0]) \cap Entries(e.ht[1]) = {}
    BY <1>1, <1>5, <1>13, <1>14, <1>15 DEF All
<1>17. \A j \in 0..(p - 1) : e.ht[0].at[j] = {}
    <2>1. A.at \in [0..(A.size - 1) -> SUBSET Entry(V)]
        BY <1>2 DEF Holds
    <2>2. \A j \in 0..(p - 1) : j \in 0..(A.size - 1) /\ j # p
        BY <1>3, <1>4
    <2>3. \A j \in 0..(A.size - 1) : j # p => less[j] = A.at[j]
        BY <2>1 DEF less
    <2>4. e.ht[0].at = less
        BY <1>13, <1>15
    <2> QED BY <1>4, <2>2, <2>3, <2>4
<1>18. p \in Int /\ p # -1 /\ IsRehashing(e)
    BY <1>3, <1>4, <1>15 DEF IsRehashing
<1>19. \A x, y \in All(e) : x.key = y.key => x = y
    BY <1>16 DEF Good
<1>20. Good(e, V)
    BY <1>1, <1>4, <1>13, <1>14, <1>15, <1>16, <1>17, <1>18, <1>19 DEF Good
<1>21. Capacity(e) = Capacity(d)
    BY <1>14, <1>15, <1>18 DEF Capacity, Working
<1>22. Weight(e) < Weight(d)
    BY <1>3, <1>6, <1>13, <1>14, <1>15, <1>18 DEF Weight, Length
<1> QED BY <1>13, <1>15, <1>16, <1>18, <1>20, <1>21, <1>22

(* So does a call's share of it, whatever the phase. *)
LEMMA RehashStepIs ==
    ASSUME NEW d, NEW V, Good(d, V), NEW e, e = RehashStep(d)
    PROVE  /\ Good(e, V) /\ All(e) = All(d)
           /\ Capacity(e) = Capacity(d) /\ Weight(e) <= Weight(d)
           /\ IsRehashing(e) => Weight(e) < Weight(d)
           /\ e.ht[0].size = 0 <=> d.ht[0].size = 0
<1>1. /\ GoodTable(d.ht[0], V) /\ GoodTable(d.ht[1], V)
      /\ Entries(d.ht[0]) \cap Entries(d.ht[1]) = {}
    BY DEF Good
<1>2. Weight(d) \in Nat
    BY WeightTyped
<1>3. CASE ~IsRehashing(d)
    <2>1. e = d
        BY <1>3 DEF RehashStep
    <2> QED BY <1>2, <1>3, <2>1
<1>4. CASE IsRehashing(d) /\ RehashDone(d)
    <2>1. e = Dict(d.ht[1], d.ht[0], -1)
        BY <1>4 DEF RehashStep
    <2>2. /\ e = Dict(e.ht[0], e.ht[1], e.idx) /\ e.idx = -1
          /\ e.ht[0] = d.ht[1] /\ e.ht[1] = d.ht[0]
        BY <2>1, DictIs
    <2>3. Entries(d.ht[0]) = {} /\ d.ht[0].used = 0 /\ d.ht[1].used \in Nat
        BY <1>1, <1>4, TableIs DEF RehashDone
    <2>4. ~IsRehashing(e)
        BY <2>2 DEF IsRehashing
    <2>5. All(e) = All(d)
        BY <2>2 DEF All
    <2>6. \A x, y \in All(e) : x.key = y.key => x = y
        BY <2>5 DEF Good
    <2>7. Good(e, V)
        BY <1>1, <2>2, <2>3, <2>4, <2>6 DEF Good
    <2>8. d.ht[1].size # 0 /\ d.ht[0].size # 0
        BY <1>4, TableIs DEF Good
    <2>9. Capacity(e) = Capacity(d) /\ Weight(e) = Weight(d)
        BY <1>4, <2>2, <2>3, <2>4 DEF Capacity, Weight, Length, Working
    <2> QED BY <1>2, <2>2, <2>4, <2>5, <2>7, <2>8, <2>9
<1>5. CASE IsRehashing(d) /\ ~RehashDone(d)
    <2>1. e = MoveBucket(d)
        BY <1>5 DEF RehashStep
    <2>2. Entries(d.ht[0]) # {}
        BY <1>1, <1>5, TableIs DEF RehashDone
    <2>3. Weight(e) \in Nat
        BY <1>5, <2>1, <2>2, MoveBucketIs, WeightTyped
    <2> QED BY <1>2, <1>5, <2>1, <2>2, <2>3, MoveBucketIs
<1> QED BY <1>3, <1>4, <1>5

(* After a step of the rehash there is room, or room is made. *)
LEMMA ExpandIs ==
    ASSUME NEW d, NEW V, Good(d, V), Tight(d), IsRehashing(d) => Weight(d) <= Capacity(d),
           NEW e, e = ExpandIfNeeded(d)
    PROVE  /\ Good(e, V) /\ All(e) = All(d)
           /\ e.ht[0].size # 0 /\ Weight(e) <= Capacity(e)
<1> DEFINE A == d.ht[0]
           B == d.ht[1]
<1>1. /\ GoodTable(A, V) /\ GoodTable(B, V) /\ Entries(A) \cap Entries(B) = {}
      /\ ~IsRehashing(d) => Entries(B) = {}
    BY DEF Good
<1>2. /\ A.used \in Nat /\ B.used \in Nat /\ A.size \in Nat /\ B.size \in Nat
      /\ A.used = Cardinality(Entries(A)) /\ B.used = Cardinality(Entries(B))
      /\ A.size = 0 => Entries(A) = {}
      /\ B.used = 0 <=> Entries(B) = {}
      /\ A.used = 0 <=> Entries(A) = {}
    BY <1>1, TableIs
<1>3. Cardinality({}) = 0
    BY FS_EmptySet
<1>4. CASE IsRehashing(d)
    <2>1. e = d
        BY <1>4 DEF ExpandIfNeeded
    <2>2. A.size # 0
        BY <1>4 DEF Good
    <2> QED BY <1>4, <2>1, <2>2
<1>5. CASE ~IsRehashing(d) /\ A.size = 0
    <2> DEFINE T == Table(InitialSize, 0, Buckets(InitialSize))
    <2>1. Entries(A) = {} /\ Entries(B) = {} /\ A.used = 0 /\ B.used = 0
        BY <1>1, <1>2, <1>5
    <2>2. Holds(InitialSize, Buckets(InitialSize), {}, V)
        BY InitialSizeAssumption, HoldsNothing
    <2>3. GoodTable(T, V) /\ Entries(T) = {} /\ T.size = InitialSize /\ T.used = 0
        BY <1>3, <2>2, TableMade
    <2>4. e = Dict(T, B, d.idx)
        BY <1>5, <2>1 DEF ExpandIfNeeded, WithTable
    <2> HIDE DEF T
    <2>5. /\ e = Dict(e.ht[0], e.ht[1], e.idx) /\ e.idx = d.idx
          /\ e.ht[0] = T /\ e.ht[1] = B
        BY <2>4, DictIs
    <2>6. All(e) = {} /\ All(d) = {} /\ ~IsRehashing(e)
        BY <1>5, <2>1, <2>3, <2>5 DEF All, IsRehashing
    <2>7. d.idx \in Int
        BY DEF Good
    <2>8. Good(e, V)
        BY <1>1, <2>1, <2>3, <2>5, <2>6, <2>7 DEF Good
    <2>9. Weight(e) = 0 /\ Capacity(e) = InitialSize
        BY <2>1, <2>3, <2>5, <2>6 DEF Weight, Capacity, Length, Working
    <2> QED BY <2>3, <2>5, <2>6, <2>8, <2>9, InitialSizeAssumption
<1>6. CASE ~IsRehashing(d) /\ A.size # 0 /\ A.used >= A.size
    <2> DEFINE n == NewSize(d)
               T == Table(n, 0, Buckets(n))
    <2>1. Entries(B) = {} /\ B.used = 0
        BY <1>1, <1>2, <1>6
    <2>2. n \in Nat /\ n >= 2 * A.used /\ n # 0
        <3>1. A.used \in 0..Cardinality(Keys) /\ Cardinality(Keys) \in Nat
            BY FewEntries, PowersAssumption, FS_CardinalityType
        <3>2. A.used * 2 \in 0..(2 * Cardinality(Keys)) /\ A.used * 2 = 2 * A.used
            BY <3>1
        <3> QED BY <3>2, NextPowerIs DEF NewSize
    <2>3. e = Dict(A, T, 0)
        BY <1>6, <2>1 DEF ExpandIfNeeded
    <2> HIDE DEF n
    <2>4. GoodTable(T, V) /\ Entries(T) = {} /\ T.size = n /\ T.used = 0
        BY <1>3, <2>2, HoldsNothing, TableMade
    <2> HIDE DEF T
    <2>5. /\ e = Dict(e.ht[0], e.ht[1], e.idx) /\ e.idx = 0
          /\ e.ht[0] = A /\ e.ht[1] = T
        BY <2>3, DictIs
    <2>6. All(e) = All(d) /\ IsRehashing(e) /\ e.idx \in 0..(A.size - 1)
        BY <1>2, <1>6, <2>1, <2>4, <2>5 DEF All, IsRehashing
    <2>7. \A x, y \in All(e) : x.key = y.key => x = y
        BY <2>6 DEF Good
    <2>8. \A i \in 0..(e.idx - 1) : e.ht[0].at[i] = {}
        BY <2>5
    <2>9. Good(e, V)
        BY <1>1, <2>2, <2>4, <2>5, <2>6, <2>7, <2>8 DEF Good
    <2>10. Weight(e) = 2 * A.used /\ Capacity(e) = n
        BY <1>2, <2>4, <2>5, <2>6 DEF Weight, Capacity, Length, Working
    <2> QED BY <1>2, <1>6, <2>2, <2>5, <2>6, <2>9, <2>10
<1>7. CASE ~IsRehashing(d) /\ A.size # 0 /\ ~(A.used >= A.size)
    <2>1. e = d
        BY <1>7 DEF ExpandIfNeeded
    <2>2. Weight(d) = A.used /\ Capacity(d) = A.size
        BY <1>1, <1>2, <1>7 DEF Weight, Capacity, Length, Working
    <2> QED BY <1>2, <1>7, <2>1, <2>2
<1> QED BY <1>4, <1>5, <1>6, <1>7

-----------------------------------------------------------------------------
(* Entries that come, go and change *)

(* A table that may take the place of table t of a dict *)
Fits(T, d, t, V) ==
    /\ GoodTable(T, V) /\ T.size = d.ht[t].size
    /\ t = 1 => IsRehashing(d)
    /\ \A x, y \in Entries(T) \cup Entries(d.ht[1 - t]) : x.key = y.key => x = y
    /\ Entries(T) \cap Entries(d.ht[1 - t]) = {}
    /\ t = 0 => \A i \in 0..(d.idx - 1) : d.ht[0].at[i] = {} => T.at[i] = {}

(* A dict of which one table changes what it holds *)
LEMMA TableReplaced ==
    ASSUME NEW d, NEW V, Good(d, V), NEW t \in 0..1, NEW T, Fits(T, d, t, V),
           NEW e, e = WithTable(d, t, T)
    PROVE  /\ Good(e, V) /\ All(e) = Entries(T) \cup Entries(d.ht[1 - t])
           /\ e.ht[0].size = d.ht[0].size /\ Capacity(e) = Capacity(d)
           /\ T.used <= d.ht[t].used => Weight(e) <= Weight(d)
           /\ t = Working(d) /\ T.used = d.ht[t].used + 1 => Weight(e) = Weight(d) + 1
<1>0. /\ GoodTable(T, V) /\ T.size = d.ht[t].size
      /\ t = 1 => IsRehashing(d)
      /\ \A x, y \in Entries(T) \cup Entries(d.ht[1 - t]) : x.key = y.key => x = y
      /\ Entries(T) \cap Entries(d.ht[1 - t]) = {}
      /\ t = 0 => \A i \in 0..(d.idx - 1) : d.ht[0].at[i] = {} => T.at[i] = {}
    BY DEF Fits
<1>1. GoodTable(d.ht[0], V) /\ GoodTable(d.ht[1], V) /\ d.idx \in Int
    BY DEF Good
<1>2. /\ d.ht[0].used \in Nat /\ d.ht[1].used \in Nat /\ T.used \in Nat
    BY <1>0, <1>1, TableIs
<1>3. CASE t = 0
    <2>1. e = Dict(T, d.ht[1], d.idx)
        BY <1>3 DEF WithTable
    <2>2. /\ e = Dict(e.ht[0], e.ht[1], e.idx) /\ e.idx = d.idx
          /\ e.ht[0] = T /\ e.ht[1] = d.ht[1]
        BY <2>1, DictIs
    <2>3. IsRehashing(e) <=> IsRehashing(d)
        BY <2>2 DEF IsRehashing
    <2>4. All(e) = Entries(T) \cup Entries(d.ht[1 - t]) /\ Entries(e.ht[0]) \cap Entries(e.ht[1]) = {}
        BY <1>0, <1>3, <2>2 DEF All
    <2>5. IsRehashing(e) => /\ e.idx \in 0..(e.ht[0].size - 1)
                            /\ \A i \in 0..(e.idx - 1) : e.ht[0].at[i] = {}
                            /\ e.ht[1].size # 0
        BY <1>0, <1>3, <2>2, <2>3 DEF Good
    <2>6. \A x, y \in All(e) : x.key = y.key => x = y
        BY <1>0, <2>4
    <2>7. ~IsRehashing(e) => Entries(e.ht[1]) = {}
        BY <2>2, <2>3 DEF Good
    <2>8. Good(e, V)
        BY <1>0, <1>1, <2>2, <2>4, <2>5, <2>6, <2>7 DEF Good
    <2>9. Capacity(e) = Capacity(d)
        BY <1>0, <1>3, <2>2, <2>3 DEF Capacity, Working
    <2>10. /\ T.used <= d.ht[0].used => Weight(e) <= Weight(d)
           /\ Working(d) = 0 /\ T.used = d.ht[0].used + 1 => Weight(e) = Weight(d) + 1
        BY <1>2, <2>2, <2>3 DEF Weight, Length, Working
    <2> QED BY <1>0, <1>3, <2>2, <2>4, <2>8, <2>9, <2>10
<1>4. CASE t = 1
    <2>1. e = Dict(d.ht[0], T, d.idx)
        BY <1>4 DEF WithTable
    <2>2. /\ e = Dict(e.ht[0], e.ht[1], e.idx) /\ e.idx = d.idx
          /\ e.ht[0] = d.ht[0] /\ e.ht[1] = T
        BY <2>1, DictIs
    <2>3. IsRehashing(e) /\ IsRehashing(d)
        BY <1>0, <1>4, <2>2 DEF IsRehashing
    <2>4. All(e) = Entries(T) \cup Entries(d.ht[1 - t]) /\ Entries(e.ht[0]) \cap Entries(e.ht[1]) = {}
        BY <1>0, <1>4, <2>2 DEF All
    <2>5. /\ e.idx \in 0..(e.ht[0].size - 1)
          /\ \A i \in 0..(e.idx - 1) : e.ht[0].at[i] = {}
          /\ e.ht[1].size # 0
        BY <1>0, <1>4, <2>2, <2>3 DEF Good
    <2>6. \A x, y \in All(e) : x.key = y.key => x = y
        BY <1>0, <2>4
    <2>8. Good(e, V)
        BY <1>0, <1>1, <2>2, <2>3, <2>4, <2>5, <2>6 DEF Good
    <2>9. Capacity(e) = Capacity(d)
        BY <1>0, <1>4, <2>2, <2>3 DEF Capacity, Working
    <2>10. /\ T.used <= d.ht[1].used => Weight(e) <= Weight(d)
           /\ T.used = d.ht[1].used + 1 => Weight(e) = Weight(d) + 1
        BY <1>2, <2>2, <2>3 DEF Weight, Length
    <2> QED BY <1>4, <2>2, <2>4, <2>8, <2>9, <2>10
<1> QED BY <1>3, <1>4

(* An entry of a new key *)
LEMMA InsertHeadIs ==
    ASSUME NEW d, NEW V, Good(d, V), d.ht[0].size # 0, NEW k \in Keys, NEW v \in V,
           ~ \E x \in All(d) : x.key = k,
           NEW e, e = InsertHead(d, k, v)
    PROVE  /\ Good(e, V) /\ All(e) = All(d) \cup {[key |-> k, value |-> v]}
           /\ Weight(e) = Weight(d) + 1 /\ Capacity(e) = Capacity(d)
<1> DEFINE t == Working(d)
           A == d.ht[t]
           x == [key |-> k, value |-> v]
           new == [A.at EXCEPT ![Slot(A.size, k)] = @ \cup {x}]
           T == Table(A.size, A.used + 1, new)
<1>1. t \in 0..1 /\ (t = 1 <=> IsRehashing(d)) /\ (t = 0 <=> ~IsRehashing(d))
    BY DEF Working
<1>2. GoodTable(A, V) /\ A.size # 0 /\ Entries(d.ht[0]) \cap Entries(d.ht[1]) = {}
    BY <1>1 DEF Good
<1>3. e = WithTable(d, t, T)
    BY DEF InsertHead, Place, Slot
<1> HIDE DEF t
<1>4. x \in Entry(V) /\ x.key = k
    BY DEF Entry
<1>5. All(d) = Entries(A) \cup Entries(d.ht[1 - t])
    BY <1>1 DEF All
<1>6. x \notin Entries(A) /\ x \notin Entries(d.ht[1 - t])
    BY <1>4, <1>5
<1>7. Holds(A.size, new, Entries(A) \cup {x}, V)
    <2> HIDE DEF x
    <2>1. Holds(A.size, A.at, Entries(A), V)
        BY <1>2 DEF GoodTable
    <2>2. Holds(A.size, [A.at EXCEPT ![Slot(A.size, x.key)] = @ \cup {x}], Entries(A) \cup {x}, V)
        BY <1>2, <1>4, <2>1, HoldsWith
    <2> QED BY <1>4, <2>2
<1>8. Cardinality(Entries(A) \cup {x}) = A.used + 1
    <2> HIDE DEF x, A
    <2>1. IsFiniteSet(Entries(A)) /\ A.used = Cardinality(Entries(A))
        BY <1>2, TableIs
    <2> QED BY <1>6, <2>1, FS_AddElement
<1>9. /\ GoodTable(T, V) /\ Entries(T) = Entries(A) \cup {x}
      /\ T.size = A.size /\ T.at = new /\ T.used = A.used + 1
    <2> HIDE DEF x, new, A
    <2> QED BY <1>7, <1>8, TableMade
<1> HIDE DEF T
<1>10. Entries(A) \cap Entries(d.ht[1 - t]) = {}
    BY <1>1, <1>2
<1>11. Entries(T) \cap Entries(d.ht[1 - t]) = {}
    BY <1>6, <1>9, <1>10
<1>12. Entries(T) \cup Entries(d.ht[1 - t]) = All(d) \cup {x}
    BY <1>5, <1>9
<1>13. \A y, z \in All(d) \cup {x} : y.key = z.key => y = z
    BY <1>4 DEF Good
<1>14. t = 0 => \A i \in 0..(d.idx - 1) : FALSE
    <2>1. t = 0 => d.idx = -1
        BY <1>1 DEF IsRehashing
    <2> QED BY <2>1
<1> HIDE DEF x, new
<1>15. /\ Good(e, V) /\ All(e) = Entries(T) \cup Entries(d.ht[1 - t])
       /\ Capacity(e) = Capacity(d)
       /\ t = Working(d) /\ T.used = d.ht[t].used + 1 => Weight(e) = Weight(d) + 1
    <2>1. Fits(T, d, t, V)
        BY <1>1, <1>9, <1>11, <1>12, <1>13, <1>14 DEF Fits
    <2> HIDE DEF A
    <2> QED BY <1>1, <1>3, <2>1, TableReplaced
<1> QED BY <1>9, <1>12, <1>15 DEF t, x

(* An entry that is found and taken out *)
LEMMA WithoutIs ==
    ASSUME NEW d, NEW V, Good(d, V), NEW k \in Keys, NEW t \in Found(d, k),
           NEW e, e = Without(d, t, k)
    PROVE  /\ Good(e, V) /\ All(e) = {x \in All(d) : x.key # k}
           /\ e.ht[0].size = d.ht[0].size
           /\ Weight(e) <= Weight(d) /\ Capacity(e) = Capacity(d)
<1> DEFINE A == d.ht[t]
           x == EntryOf(d, t, k)
           new == [A.at EXCEPT ![Slot(A.size, k)] = @ \ {x}]
           T == Table(A.size, A.used - 1, new)
<1>1. /\ t \in 0..1 /\ x \in Entries(A) /\ x.key = k
      /\ Place(d, t, k) = Slot(A.size, k)
    BY FoundIs
<1>2. /\ GoodTable(A, V) /\ Entries(d.ht[0]) \cap Entries(d.ht[1]) = {}
      /\ ~IsRehashing(d) => Entries(d.ht[1]) = {}
    BY <1>1 DEF Good
<1>3. e = WithTable(d, t, T)
    BY <1>1 DEF Without
<1>4. t = 1 => IsRehashing(d)
    BY <1>1, <1>2
<1>5. All(d) = Entries(A) \cup Entries(d.ht[1 - t]) /\ Entries(A) \cap Entries(d.ht[1 - t]) = {}
    BY <1>1, <1>2 DEF All
<1>6. \A y, z \in All(d) : y.key = z.key => y = z
    BY DEF Good
<1>7. A.at \in [0..(A.size - 1) -> SUBSET Entry(V)] /\ IsFiniteSet(Entries(A))
      /\ A.used = Cardinality(Entries(A)) /\ A.used \in Nat
    BY <1>2, TableIs
<1>8. \A i \in DOMAIN A.at : A.at[i] = {} => new[i] = {}
    BY <1>7
<1> HIDE DEF x
<1>9. Holds(A.size, new, Entries(A) \ {x}, V)
    <2>1. Holds(A.size, A.at, Entries(A), V)
        BY <1>2 DEF GoodTable
    <2>2. Holds(A.size, [A.at EXCEPT ![Slot(A.size, x.key)] = @ \ {x}], Entries(A) \ {x}, V)
        BY <1>1, <2>1, HoldsWithout
    <2> QED BY <1>1, <2>2
<1>10. Cardinality(Entries(A) \ {x}) = A.used - 1
    <2> HIDE DEF A, new, T
    <2> QED BY <1>1, <1>7, FS_RemoveElement
<1>11. /\ GoodTable(T, V) /\ Entries(T) = Entries(A) \ {x}
       /\ T.size = A.size /\ T.at = new /\ T.used = A.used - 1
    <2> HIDE DEF new, A
    <2> QED BY <1>9, <1>10, TableMade
<1> HIDE DEF T
<1>12. Entries(T) \cup Entries(d.ht[1 - t]) = {y \in All(d) : y.key # k}
    <2>1. \A y \in All(d) : y.key = k <=> y = x
        BY <1>1, <1>5, <1>6
    <2> QED BY <1>1, <1>5, <1>11, <2>1
<1>13. \A y, z \in Entries(T) \cup Entries(d.ht[1 - t]) : y.key = z.key => y = z
    BY <1>6, <1>12
<1>14. Entries(T) \cap Entries(d.ht[1 - t]) = {}
    BY <1>5, <1>11
<1>15. t = 0 => \A i \in 0..(d.idx - 1) : d.ht[0].at[i] = {} => T.at[i] = {}
    <2>1. ASSUME t = 0, NEW i \in 0..(d.idx - 1), d.ht[0].at[i] = {} PROVE T.at[i] = {}
        <3>1. IsRehashing(d) /\ d.idx \in Int
            BY <2>1 DEF Good, IsRehashing
        <3>2. i \in 0..(A.size - 1)
            BY <1>7, <2>1, <3>1, TableIs DEF Good
        <3> QED BY <1>7, <1>8, <1>11, <2>1, <3>2
    <2> QED BY <2>1
<1> HIDE DEF new
<1>16. /\ Good(e, V) /\ All(e) = Entries(T) \cup Entries(d.ht[1 - t])
       /\ e.ht[0].size = d.ht[0].size /\ Capacity(e) = Capacity(d)
       /\ T.used <= d.ht[t].used => Weight(e) <= Weight(d)
    <2>1. Fits(T, d, t, V)
        BY <1>4, <1>11, <1>13, <1>14, <1>15 DEF Fits
    <2> HIDE DEF A
    <2> QED BY <1>1, <1>3, <2>1, TableReplaced
<1> QED BY <1>7, <1>11, <1>12, <1>16

(* An entry that is found and given another value *)
LEMMA UpdatedIs ==
    ASSUME NEW d, NEW V, Good(d, V), NEW k \in Keys, NEW v \in V, NEW t \in Found(d, k),
           NEW e, e = Updated(d, t, k, v)
    PROVE  /\ Good(e, V)
           /\ All(e) = {x \in All(d) : x.key # k} \cup {[key |-> k, value |-> v]}
           /\ Weight(e) <= Weight(d) /\ Capacity(e) = Capacity(d)
<1> DEFINE A == d.ht[t]
           x == EntryOf(d, t, k)
           y == [key |-> k, value |-> v]
           b == Slot(A.size, k)
           new == [A.at EXCEPT ![b] = (@ \ {x}) \cup {y}]
           T == Table(A.size, A.used, new)
<1>1. /\ t \in 0..1 /\ x \in Entries(A) /\ x.key = k
      /\ Place(d, t, k) = b
    BY FoundIs
<1>2. /\ GoodTable(A, V) /\ Entries(d.ht[0]) \cap Entries(d.ht[1]) = {}
      /\ ~IsRehashing(d) => Entries(d.ht[1]) = {}
    BY <1>1 DEF Good
<1>3. e = WithTable(d, t, T)
    BY <1>1 DEF Updated
<1>4. t = 1 => IsRehashing(d)
    BY <1>1, <1>2
<1>5. All(d) = Entries(A) \cup Entries(d.ht[1 - t]) /\ Entries(A) \cap Entries(d.ht[1 - t]) = {}
    BY <1>1, <1>2 DEF All
<1>6. \A w, z \in All(d) : w.key = z.key => w = z
    BY DEF Good
<1>7. A.at \in [0..(A.size - 1) -> SUBSET Entry(V)] /\ IsFiniteSet(Entries(A))
      /\ A.used = Cardinality(Entries(A)) /\ A.used \in Nat
    BY <1>2, TableIs
<1>8. y \in Entry(V) /\ y.key = k
    BY DEF Entry
<1> HIDE DEF x, y
<1>9. Holds(A.size, A.at, Entries(A), V)
    BY <1>2 DEF GoodTable
<1>10. A.size # 0 /\ b \in 0..(A.size - 1) /\ x \in A.at[b]
    BY <1>1, <1>9, EntryPlace
<1>11. Holds(A.size, new, (Entries(A) \ {x}) \cup {y}, V)
    <2> DEFINE less == [A.at EXCEPT ![b] = @ \ {x}]
    <2>1. Holds(A.size, [A.at EXCEPT ![Slot(A.size, x.key)] = @ \ {x}], Entries(A) \ {x}, V)
        BY <1>1, <1>9, HoldsWithout
    <2>2. Holds(A.size, less, Entries(A) \ {x}, V)
        BY <1>1, <2>1
    <2>3. [less EXCEPT ![b] = @ \cup {y}] = new
        BY <1>7, <1>10
    <2> HIDE DEF less, new
    <2>4. Holds(A.size, [less EXCEPT ![Slot(A.size, y.key)] = @ \cup {y}], (Entries(A) \ {x}) \cup {y}, V)
        BY <1>8, <1>10, <2>2, HoldsWith
    <2> QED BY <1>8, <2>3, <2>4
<1>12. \A z \in All(d) : z.key = k <=> z = x
    BY <1>1, <1>5, <1>6
<1>13. y \notin Entries(A) \ {x} /\ y \notin Entries(d.ht[1 - t])
    BY <1>1, <1>5, <1>8, <1>12
<1>14. Cardinality((Entries(A) \ {x}) \cup {y}) = A.used
    <2>1. Cardinality(Entries(A) \ {x}) = A.used - 1 /\ IsFiniteSet(Entries(A) \ {x})
        BY <1>1, <1>7, FS_RemoveElement
    <2>2. Cardinality((Entries(A) \ {x}) \cup {y}) = Cardinality(Entries(A) \ {x}) + 1
        BY <1>13, <2>1, FS_AddElement
    <2> QED BY <1>7, <2>1, <2>2
<1>15. /\ GoodTable(T, V) /\ Entries(T) = (Entries(A) \ {x}) \cup {y}
       /\ T.size = A.size /\ T.at = new /\ T.used = A.used
    <2> HIDE DEF new, A
    <2> QED BY <1>11, <1>14, TableMade
<1> HIDE DEF T
<1>16. Entries(T) \cup Entries(d.ht[1 - t]) = {z \in All(d) : z.key # k} \cup {y}
    BY <1>1, <1>5, <1>12, <1>15
<1>17. \A w, z \in Entries(T) \cup Entries(d.ht[1 - t]) : w.key = z.key => w = z
    BY <1>6, <1>8, <1>16
<1>18. Entries(T) \cap Entries(d.ht[1 - t]) = {}
    BY <1>5, <1>13, <1>15
<1>19. t = 0 => \A i \in 0..(d.idx - 1) : d.ht[0].at[i] = {} => T.at[i] = {}
    <2>1. ASSUME t = 0, NEW i \in 0..(d.idx - 1), d.ht[0].at[i] = {} PROVE T.at[i] = {}
        <3>1. IsRehashing(d) /\ d.idx \in Int
            BY <2>1 DEF Good, IsRehashing
        <3>2. i \in 0..(A.size - 1)
            BY <1>7, <2>1, <3>1, TableIs DEF Good
        <3>3. i # b
            BY <1>10, <2>1
        <3> QED BY <1>7, <1>15, <2>1, <3>2, <3>3
    <2> QED BY <2>1
<1> HIDE DEF new
<1>20. /\ Good(e, V) /\ All(e) = Entries(T) \cup Entries(d.ht[1 - t])
       /\ Capacity(e) = Capacity(d)
       /\ T.used <= d.ht[t].used => Weight(e) <= Weight(d)
    <2>1. Fits(T, d, t, V)
        BY <1>4, <1>15, <1>17, <1>18, <1>19 DEF Fits
    <2> HIDE DEF A, b
    <2> QED BY <1>1, <1>3, <2>1, TableReplaced
<1> QED BY <1>7, <1>15, <1>16, <1>20 DEF y

-----------------------------------------------------------------------------
(* What a caller finds after it *)

With(f, k, x) == [j \in DOMAIN f \cup {k} |-> IF j = k THEN x ELSE f[j]]
Drop(f, k) == [j \in DOMAIN f \ {k} |-> f[j]]

(* A function that says of each entry's key what the entry says is what a
   caller finds. *)
LEMMA ContentsMade ==
    ASSUME NEW d, NEW V, Good(d, V), NEW f, f = [j \in DOMAIN f |-> f[j]],
           DOMAIN f = {x.key : x \in All(d)}, \A x \in All(d) : f[x.key] = x.value
    PROVE  Contents(d) = f
<1>1. /\ DOMAIN Contents(d) = {x.key : x \in All(d)}
      /\ \A x \in All(d) : Contents(d)[x.key] = x.value
      /\ Contents(d) = [k \in DOMAIN Contents(d) |-> Contents(d)[k]]
    BY ContentsAre
<1>2. ASSUME NEW j \in DOMAIN f PROVE Contents(d)[j] = f[j]
    <2>1. PICK x \in All(d) : x.key = j
        OBVIOUS
    <2> QED BY <1>1, <2>1
<1>3. DOMAIN Contents(d) = DOMAIN f
    BY <1>1
<1> QED BY <1>1, <1>2, <1>3

(* An entry put among those of other keys *)
LEMMA ContentsWith ==
    ASSUME NEW d, NEW e, NEW V, Good(d, V), Good(e, V), NEW k \in Keys, NEW v \in V,
           All(e) = {x \in All(d) : x.key # k} \cup {[key |-> k, value |-> v]}
    PROVE  Contents(e) = With(Contents(d), k, v)
<1> DEFINE y == [key |-> k, value |-> v]
           f == With(Contents(d), k, v)
<1>1. /\ DOMAIN Contents(d) = {x.key : x \in All(d)}
      /\ \A x \in All(d) : Contents(d)[x.key] = x.value
    BY ContentsAre
<1>2. y.key = k /\ y.value = v
    OBVIOUS
<1>3. f = [j \in DOMAIN f |-> f[j]] /\ DOMAIN f = DOMAIN Contents(d) \cup {k}
      /\ \A j \in DOMAIN f : f[j] = IF j = k THEN v ELSE Contents(d)[j]
    BY DEF With
<1> HIDE DEF y, f
<1>4. All(e) = {x \in All(d) : x.key # k} \cup {y}
    BY DEF y
<1>5. DOMAIN f = {x.key : x \in All(e)}
    <2>1. ASSUME NEW j \in DOMAIN f PROVE \E x \in All(e) : x.key = j
        <3>1. CASE j = k
            BY <1>2, <1>4, <3>1
        <3>2. CASE j # k
            BY <1>1, <1>3, <1>4, <3>2
        <3> QED BY <3>1, <3>2
    <2>2. ASSUME NEW x \in All(e) PROVE x.key \in DOMAIN f
        BY <1>1, <1>2, <1>3, <1>4
    <2> QED BY <2>1, <2>2
<1>6. ASSUME NEW x \in All(e) PROVE f[x.key] = x.value
    <2>1. CASE x = y
        BY <1>2, <1>3, <2>1
    <2>2. CASE x # y
        <3>1. x \in All(d) /\ x.key # k
            BY <1>4, <2>2
        <3>2. x.key \in DOMAIN f
            BY <1>5
        <3> QED BY <1>1, <1>3, <3>1, <3>2
    <2> QED BY <2>1, <2>2
<1>7. Contents(e) = f
    BY <1>3, <1>5, <1>6, ContentsMade
<1> QED BY <1>7 DEF f

(* The entries of a key taken out *)
LEMMA ContentsDrop ==
    ASSUME NEW d, NEW e, NEW V, Good(d, V), Good(e, V), NEW k \in Keys,
           All(e) = {x \in All(d) : x.key # k}
    PROVE  Contents(e) = Drop(Contents(d), k)
<1> DEFINE f == Drop(Contents(d), k)
<1>1. /\ DOMAIN Contents(d) = {x.key : x \in All(d)}
      /\ \A x \in All(d) : Contents(d)[x.key] = x.value
    BY ContentsAre
<1>2. f = [j \in DOMAIN f |-> f[j]] /\ DOMAIN f = DOMAIN Contents(d) \ {k}
      /\ \A j \in DOMAIN f : f[j] = Contents(d)[j]
    BY DEF Drop
<1> HIDE DEF f
<1>3. DOMAIN f = {x.key : x \in All(e)}
    BY <1>1, <1>2
<1>4. ASSUME NEW x \in All(e) PROVE f[x.key] = x.value
    <2>1. x \in All(d) /\ x.key \in DOMAIN f
        BY <1>3
    <2> QED BY <1>1, <1>2, <2>1
<1>5. Contents(e) = f
    BY <1>2, <1>3, <1>4, ContentsMade
<1> QED BY <1>5 DEF f

(* A key without an entry has nothing to be dropped. *)
LEMMA NothingToDrop ==
    ASSUME NEW d, NEW k, k \notin DOMAIN Contents(d)
    PROVE  Drop(Contents(d), k) = Contents(d)
<1>1. Contents(d) = [j \in DOMAIN Contents(d) |-> Contents(d)[j]]
    BY DEF Contents
<1>2. DOMAIN Contents(d) \ {k} = DOMAIN Contents(d)
    OBVIOUS
<1> QED BY <1>1, <1>2 DEF Drop

-----------------------------------------------------------------------------
(* The operations *)

(* What every call finds and leaves *)
DictInv(d, V) == Good(d, V) /\ Tight(d)

(* A new dict holds nothing. *)
LEMMA DictNewIs ==
    ASSUME NEW V
    PROVE  DictInv(DictNew, V) /\ Contents(DictNew) = << >>
<1> DEFINE T == Table(0, 0, Buckets(0))
<1>1. Cardinality({}) = 0
    BY FS_EmptySet
<1>2. Holds(0, Buckets(0), {}, V)
    BY HoldsNothing
<1>3. GoodTable(T, V) /\ Entries(T) = {} /\ T.size = 0 /\ T.used = 0
    BY <1>1, <1>2, TableMade
<1> HIDE DEF T
<1>4. DictNew = Dict(T, T, -1)
    BY DEF DictNew, T
<1>5. /\ DictNew = Dict(DictNew.ht[0], DictNew.ht[1], DictNew.idx)
      /\ DictNew.ht[0] = T /\ DictNew.ht[1] = T /\ DictNew.idx = -1
    BY <1>4, DictIs
<1>6. ~IsRehashing(DictNew) /\ All(DictNew) = {}
    BY <1>3, <1>5 DEF IsRehashing, All
<1>7. Good(DictNew, V)
    BY <1>3, <1>5, <1>6 DEF Good
<1>8. Tight(DictNew)
    BY <1>3, <1>5 DEF Tight
<1>9. Contents(DictNew) = << >>
    <2>1. \A k \in Keys : Found(DictNew, k) = {}
        BY <1>3, <1>5 DEF Found
    <2>2. {x \in Keys : Found(DictNew, x) # {}} = {}
        BY <2>1
    <2> QED BY <2>2 DEF Contents
<1> QED BY <1>7, <1>8, <1>9 DEF DictInv

(* A rehash has kept up. *)
LEMMA InvKeepsUp ==
    ASSUME NEW d, NEW V, DictInv(d, V)
    PROVE  DictSound(d) /\ KeepsUp(d)
<1>1. DictSound(d)
    BY GoodIsSound DEF DictInv
<1>2. d.ht[0].used \in Nat /\ d.ht[1].used \in Nat
    BY TableIs DEF DictInv, Good
<1>3. Length(d) <= Weight(d) /\ Length(d) \in Nat /\ Weight(d) \in Nat
    BY <1>2 DEF Weight, Length
<1>4. Capacity(d) \in Nat
    BY WeightTyped DEF DictInv
<1> QED BY <1>1, <1>3, <1>4 DEF DictInv, Tight, KeepsUp, Capacity

(* A call's step of the rehash *)
LEMMA SteppedIs ==
    ASSUME NEW d, NEW V, DictInv(d, V), NEW e, e = RehashStep(d)
    PROVE  /\ DictInv(e, V) /\ All(e) = All(d) /\ Contents(e) = Contents(d)
           /\ IsRehashing(e) => Weight(e) <= Capacity(e)
           /\ e.ht[0].size = 0 <=> d.ht[0].size = 0
<1>1. Good(d, V) /\ Tight(d)
    BY DEF DictInv
<1>2. /\ Good(e, V) /\ All(e) = All(d)
      /\ Capacity(e) = Capacity(d) /\ Weight(e) <= Weight(d)
      /\ IsRehashing(e) => Weight(e) < Weight(d)
      /\ e.ht[0].size = 0 <=> d.ht[0].size = 0
    BY <1>1, RehashStepIs
<1>3. Weight(d) \in Nat /\ Capacity(d) \in Nat /\ Weight(e) \in Nat
    BY <1>1, <1>2, WeightTyped
<1>4. Tight(e)
    BY <1>1, <1>2, <1>3 DEF Tight
<1>5. IsRehashing(e) => e.ht[0].size # 0
    BY <1>2 DEF Good
<1>6. IsRehashing(e) => Weight(e) <= Capacity(e)
    BY <1>1, <1>2, <1>3, <1>5 DEF Tight
<1>7. Contents(e) = Contents(d)
    BY <1>1, <1>2, SameContents
<1> QED BY <1>2, <1>4, <1>6, <1>7 DEF DictInv

(* The step of the rehash, and the room made for another entry *)
LEMMA PreparedIs ==
    ASSUME NEW d, NEW V, DictInv(d, V), NEW e, e = ExpandIfNeeded(RehashStep(d))
    PROVE  /\ DictInv(e, V) /\ All(e) = All(d) /\ Contents(e) = Contents(d)
           /\ e.ht[0].size # 0 /\ Weight(e) <= Capacity(e)
<1> DEFINE r == RehashStep(d)
<1>1. /\ DictInv(r, V) /\ All(r) = All(d) /\ Contents(r) = Contents(d)
      /\ IsRehashing(r) => Weight(r) <= Capacity(r)
    BY SteppedIs
<1>2. e = ExpandIfNeeded(r)
    OBVIOUS
<1> HIDE DEF r
<1>3. /\ Good(e, V) /\ All(e) = All(r)
      /\ e.ht[0].size # 0 /\ Weight(e) <= Capacity(e)
    BY <1>1, <1>2, ExpandIs DEF DictInv
<1>4. Weight(e) \in Nat /\ Capacity(e) \in Nat
    BY <1>3, WeightTyped
<1>5. Contents(e) = Contents(r)
    BY <1>1, <1>3, SameContents DEF DictInv
<1> QED BY <1>1, <1>3, <1>4, <1>5 DEF DictInv, Tight

(* An entry added where there is room *)
LEMMA AddedIs ==
    ASSUME NEW d, NEW V, Good(d, V), d.ht[0].size # 0, Weight(d) <= Capacity(d),
           NEW k \in Keys, NEW v \in V, Found(d, k) = {},
           NEW e, e = InsertHead(d, k, v)
    PROVE  DictInv(e, V) /\ Contents(e) = With(Contents(d), k, v)
<1>1. ~ \E x \in All(d) : x.key = k
    BY FindIs
<1>2. /\ Good(e, V) /\ All(e) = All(d) \cup {[key |-> k, value |-> v]}
      /\ Weight(e) = Weight(d) + 1 /\ Capacity(e) = Capacity(d)
    BY <1>1, InsertHeadIs
<1>3. Weight(d) \in Nat /\ Capacity(d) \in Nat
    BY WeightTyped
<1>4. Tight(e)
    BY <1>2, <1>3 DEF Tight
<1>5. All(e) = {x \in All(d) : x.key # k} \cup {[key |-> k, value |-> v]}
    BY <1>1, <1>2
<1> QED BY <1>2, <1>4, <1>5, ContentsWith DEF DictInv

(* A key is found in a table if a caller can find it. *)
LEMMA FoundInContents ==
    ASSUME NEW d, NEW k \in Keys
    PROVE  Found(d, k) # {} <=> k \in DOMAIN Contents(d)
BY DEF Contents

(* add: a key that is there keeps its value. *)
LEMMA AddIs ==
    ASSUME NEW d, NEW V, DictInv(d, V), NEW k \in Keys, NEW v \in V
    PROVE  LET c == Contents(d) IN
           /\ DictInv(Add(d, k, v).dict, V)
           /\ Add(d, k, v).ok <=> k \notin DOMAIN c
           /\ Contents(Add(d, k, v).dict) = IF k \in DOMAIN c THEN c ELSE With(c, k, v)
<1> DEFINE e == ExpandIfNeeded(RehashStep(d))
           f == InsertHead(e, k, v)
<1>1. Add(d, k, v) = IF Found(e, k) = {} THEN [dict |-> f, ok |-> TRUE]
                     ELSE [dict |-> e, ok |-> FALSE]
    BY DEF Add
<1>2. /\ DictInv(e, V) /\ Contents(e) = Contents(d)
      /\ e.ht[0].size # 0 /\ Weight(e) <= Capacity(e)
    BY PreparedIs
<1> HIDE DEF e
<1>3. Found(e, k) # {} <=> k \in DOMAIN Contents(d)
    BY <1>2, FoundInContents
<1>4. Found(e, k) = {} => DictInv(f, V) /\ Contents(f) = With(Contents(e), k, v)
    BY <1>2, AddedIs DEF DictInv
<1> HIDE DEF f
<1>5. CASE Found(e, k) = {}
    <2>1. Add(d, k, v).dict = f /\ Add(d, k, v).ok = TRUE
        BY <1>1, <1>5
    <2> QED BY <1>2, <1>3, <1>4, <1>5, <2>1
<1>6. CASE Found(e, k) # {}
    <2>1. Add(d, k, v).dict = e /\ Add(d, k, v).ok = FALSE
        BY <1>1, <1>6
    <2> QED BY <1>2, <1>3, <1>6, <2>1
<1> QED BY <1>5, <1>6

(* replace: a key that is there gets the new value. *)
LEMMA ReplaceIs ==
    ASSUME NEW d, NEW V, DictInv(d, V), NEW k \in Keys, NEW v \in V
    PROVE  /\ DictInv(Replace(d, k, v).dict, V)
           /\ Replace(d, k, v).ok <=> k \notin DOMAIN Contents(d)
           /\ Contents(Replace(d, k, v).dict) = With(Contents(d), k, v)
<1> DEFINE e == ExpandIfNeeded(RehashStep(d))
           r == RehashStep(e)
           f == InsertHead(r, k, v)
           t == Min(Found(e, k))
           u == Updated(e, t, k, v)
<1>1. Replace(d, k, v) = IF Found(e, k) = {} THEN [dict |-> f, ok |-> TRUE]
                         ELSE [dict |-> u, ok |-> FALSE]
    BY DEF Replace
<1>2. /\ DictInv(e, V) /\ Contents(e) = Contents(d)
      /\ e.ht[0].size # 0 /\ Weight(e) <= Capacity(e)
    BY PreparedIs
<1> HIDE DEF e
<1>3. Found(e, k) # {} <=> k \in DOMAIN Contents(d)
    BY <1>2, FoundInContents
<1>4. CASE Found(e, k) = {}
    <2>1. Replace(d, k, v).dict = f /\ Replace(d, k, v).ok = TRUE
        BY <1>1, <1>4
    <2>2. /\ Good(r, V) /\ Capacity(r) = Capacity(e) /\ Weight(r) <= Weight(e)
          /\ r.ht[0].size # 0
        BY <1>2, RehashStepIs DEF DictInv
    <2>3. Contents(r) = Contents(d)
        BY <1>2, SteppedIs
    <2>4. Weight(r) \in Nat /\ Weight(e) \in Nat /\ Capacity(e) \in Nat
        BY <1>2, <2>2, WeightTyped DEF DictInv
    <2>5. Weight(r) <= Capacity(r)
        BY <1>2, <2>2, <2>4
    <2> HIDE DEF r
    <2>6. Found(r, k) = {}
        BY <1>3, <1>4, <2>3, FoundInContents
    <2>7. DictInv(f, V) /\ Contents(f) = With(Contents(r), k, v)
        BY <2>2, <2>5, <2>6, AddedIs
    <2> QED BY <1>3, <1>4, <2>1, <2>3, <2>7
<1>5. CASE Found(e, k) # {}
    <2>1. Replace(d, k, v).dict = u /\ Replace(d, k, v).ok = FALSE
        BY <1>1, <1>5
    <2>2. Found(e, k) \subseteq 0..1
        BY <1>2, FoundIs DEF DictInv
    <2>3. t \in Found(e, k)
        BY <1>5, <2>2, LeastOfTwo
    <2> HIDE DEF t
    <2>4. /\ Good(u, V)
          /\ All(u) = {x \in All(e) : x.key # k} \cup {[key |-> k, value |-> v]}
          /\ Weight(u) <= Weight(e) /\ Capacity(u) = Capacity(e)
        BY <1>2, <2>3, UpdatedIs DEF DictInv
    <2> HIDE DEF u
    <2>5. Contents(u) = With(Contents(e), k, v)
        BY <1>2, <2>4, ContentsWith DEF DictInv
    <2>6. Weight(u) \in Nat /\ Weight(e) \in Nat /\ Capacity(e) \in Nat
        BY <1>2, <2>4, WeightTyped DEF DictInv
    <2>7. Tight(u)
        BY <1>2, <2>4, <2>6 DEF Tight
    <2> QED BY <1>2, <1>3, <1>5, <2>1, <2>4, <2>5, <2>7 DEF DictInv
<1> QED BY <1>4, <1>5

(* delete: a key is gone, whether it was there or not. *)
LEMMA DeleteIs ==
    ASSUME NEW d, NEW V, DictInv(d, V), NEW k \in Keys
    PROVE  /\ DictInv(Delete(d, k).dict, V)
           /\ Delete(d, k).ok <=> k \in DOMAIN Contents(d)
           /\ Contents(Delete(d, k).dict) = Drop(Contents(d), k)
<1> DEFINE e == RehashStep(d)
           t == Min(Found(e, k))
           u == Without(e, t, k)
<1>1. /\ DictInv(e, V) /\ Contents(e) = Contents(d)
      /\ e.ht[0].size = 0 <=> d.ht[0].size = 0
    BY SteppedIs
<1>2. Delete(d, k) = CASE d.ht[0].size = 0 -> [dict |-> d, ok |-> FALSE]
                       [] d.ht[0].size # 0 /\ Found(e, k) = {} -> [dict |-> e, ok |-> FALSE]
                       [] OTHER -> [dict |-> u, ok |-> TRUE]
    BY DEF Delete
<1> HIDE DEF e
<1>3. Found(e, k) # {} <=> k \in DOMAIN Contents(d)
    BY <1>1, FoundInContents
<1>4. CASE d.ht[0].size = 0
    <2>1. Delete(d, k).dict = d /\ Delete(d, k).ok = FALSE
        BY <1>2, <1>4
    <2>2. Found(d, k) = {}
        BY <1>4 DEF Found
    <2>3. k \notin DOMAIN Contents(d)
        BY <2>2, FoundInContents
    <2>4. Drop(Contents(d), k) = Contents(d)
        BY <2>3, NothingToDrop
    <2> QED BY <2>1, <2>3, <2>4
<1>5. CASE d.ht[0].size # 0 /\ Found(e, k) = {}
    <2>1. Delete(d, k).dict = e /\ Delete(d, k).ok = FALSE
        BY <1>2, <1>5
    <2>2. k \notin DOMAIN Contents(d)
        BY <1>3, <1>5
    <2>3. Drop(Contents(d), k) = Contents(d)
        BY <2>2, NothingToDrop
    <2> QED BY <1>1, <2>1, <2>2, <2>3
<1>6. CASE d.ht[0].size # 0 /\ Found(e, k) # {}
    <2>1. Delete(d, k).dict = u /\ Delete(d, k).ok = TRUE
        BY <1>2, <1>6
    <2>2. Found(e, k) \subseteq 0..1
        BY <1>1, FoundIs DEF DictInv
    <2>3. t \in Found(e, k)
        BY <1>6, <2>2, LeastOfTwo
    <2> HIDE DEF t
    <2>4. /\ Good(u, V) /\ All(u) = {x \in All(e) : x.key # k}
          /\ u.ht[0].size = e.ht[0].size
          /\ Weight(u) <= Weight(e) /\ Capacity(u) = Capacity(e)
        BY <1>1, <2>3, WithoutIs DEF DictInv
    <2> HIDE DEF u
    <2>5. Contents(u) = Drop(Contents(e), k)
        BY <1>1, <2>4, ContentsDrop DEF DictInv
    <2>6. Weight(u) \in Nat /\ Weight(e) \in Nat /\ Capacity(e) \in Nat
        BY <1>1, <2>4, WeightTyped DEF DictInv
    <2>7. Tight(u)
        BY <1>1, <2>4, <2>6 DEF Tight, DictInv
    <2> QED BY <1>1, <1>3, <1>6, <2>1, <2>4, <2>5, <2>7 DEF DictInv
<1> QED BY <1>4, <1>5, <1>6

(* find and find_by_mut: what is found is what is there. *)
LEMMA FindByMutIs ==
    ASSUME NEW d, NEW V, DictInv(d, V), NEW k \in Keys
    PROVE  LET c == Contents(d) IN
           /\ DictInv(FindByMut(d, k).dict, V)
           /\ Contents(FindByMut(d, k).dict) = c
           /\ FindByMut(d, k).value = IF k \in DOMAIN c THEN c[k] ELSE Absent
           /\ Find(d, k) = IF k \in DOMAIN c THEN c[k] ELSE Absent
           /\ k \in DOMAIN c => c[k] \in V
<1> DEFINE e == IF d.ht[0].size = 0 THEN d ELSE RehashStep(d)
<1>1. FindByMut(d, k).dict = e /\ FindByMut(d, k).value = Find(e, k)
    BY DEF FindByMut
<1>2. DictInv(e, V) /\ Contents(e) = Contents(d)
    BY SteppedIs
<1> HIDE DEF e
<1>3. \A g : DictInv(g, V) => Find(g, k) = IF k \in DOMAIN Contents(g) THEN Contents(g)[k] ELSE Absent
    BY ContentsAre DEF DictInv
<1>4. k \in DOMAIN Contents(d) => Contents(d)[k] \in V
    <2>1. DOMAIN Contents(d) = {x.key : x \in All(d)}
          /\ \A x \in All(d) : Contents(d)[x.key] = x.value /\ x.value \in V
        BY ContentsAre DEF DictInv
    <2> QED BY <2>1
<1> QED BY <1>1, <1>2, <1>3, <1>4

-----------------------------------------------------------------------------
(* The DB *)

IInv ==
    /\ DictInv(dict, Values) /\ DictInv(expires, Times)
    /\ now \in 0..MaxTime

(* The plain maps' words for what changes *)
LEMMA SameWords ==
    ASSUME NEW f, NEW k, NEW v
    PROVE  /\ KeySpace!With(f, k, v) = With(f, k, v)
           /\ KeySpace!Drop(f, k) = Drop(f, k)
           /\ KeySpace!Has(f, k) <=> k \in DOMAIN f
           /\ KeySpace!Get(f, k) = IF k \in DOMAIN f THEN f[k] ELSE Absent
           /\ KeySpace!Ok(v) = Ok(v)
BY DEF KeySpace!With, KeySpace!Drop, KeySpace!Has, KeySpace!Get, KeySpace!Ok,
       KeySpace!Restrict, With, Drop, Ok, Restrict

(* Each call keeps the invariant, and the plain maps take the step it stands
   for.  To add leaves the value of a key that has one. *)
LEMMA DictAddStep ==
    ASSUME IInv, NEW k \in Keys, NEW v \in Values, DictAdd(k, v)
    PROVE  IInv' /\ KeySpace!Put(k, v)
<1>1. /\ DictInv(dict', Values)
      /\ Add(dict, k, v).ok <=> k \notin DOMAIN Contents(dict)
      /\ Contents(dict') = IF k \in DOMAIN Contents(dict) THEN Contents(dict)
                           ELSE With(Contents(dict), k, v)
    BY AddIs DEF IInv, DictAdd
<1>2. IInv'
    BY <1>1 DEF IInv, DictAdd
<1>3. KeySpace!Put(k, v)
    BY <1>1, SameWords DEF KeySpace!Put, DictAdd, Ok
<1> QED BY <1>2, <1>3

(* To replace gives a key the new value, whichever table its entry is in. *)
LEMMA DictReplaceStep ==
    ASSUME IInv, NEW k \in Keys, NEW v \in Values, DictReplace(k, v)
    PROVE  IInv' /\ KeySpace!Put(k, v)
<1>1. /\ DictInv(dict', Values)
      /\ Replace(dict, k, v).ok <=> k \notin DOMAIN Contents(dict)
      /\ Contents(dict') = With(Contents(dict), k, v)
    BY ReplaceIs DEF IInv, DictReplace
<1>2. IInv'
    BY <1>1 DEF IInv, DictReplace
<1>3. KeySpace!Put(k, v)
    BY <1>1, SameWords DEF KeySpace!Put, DictReplace, Ok
<1> QED BY <1>2, <1>3

(* A time, once set, stays. *)
LEMMA SetExpireStep ==
    ASSUME IInv, NEW k \in Keys, NEW when \in Times, SetExpire(k, when)
    PROVE  IInv' /\ KeySpace!SetExpire(k, when)
<1>1. /\ DictInv(expires', Times)
      /\ Add(expires, k, when).ok <=> k \notin DOMAIN Contents(expires)
      /\ Contents(expires') = IF k \in DOMAIN Contents(expires) THEN Contents(expires)
                              ELSE With(Contents(expires), k, when)
    BY AddIs DEF IInv, SetExpire
<1>2. IInv'
    BY <1>1 DEF IInv, SetExpire
<1>3. KeySpace!SetExpire(k, when)
    BY <1>1, SameWords DEF KeySpace!SetExpire, SetExpire, Ok
<1> QED BY <1>2, <1>3

(* A time that is removed is gone from both tables. *)
LEMMA RemoveExpireStep ==
    ASSUME IInv, NEW k \in Keys, RemoveExpire(k)
    PROVE  IInv' /\ KeySpace!RemoveExpire(k)
<1>1. /\ DictInv(expires', Times)
      /\ Delete(expires, k).ok <=> k \in DOMAIN Contents(expires)
      /\ Contents(expires') = Drop(Contents(expires), k)
    BY DeleteIs DEF IInv, RemoveExpire
<1>2. IInv'
    BY <1>1 DEF IInv, RemoveExpire
<1>3. KeySpace!RemoveExpire(k)
    BY <1>1, SameWords DEF KeySpace!RemoveExpire, RemoveExpire, Ok
<1> QED BY <1>2, <1>3

(* To read a time moves a bucket and changes nothing that is found. *)
LEMMA GetExpireStep ==
    ASSUME IInv, NEW k \in Keys, GetExpire(k)
    PROVE  IInv' /\ KeySpace!GetExpire(k)
<1>1. /\ DictInv(expires', Times)
      /\ Contents(expires') = Contents(expires)
      /\ answer' = IF k \in DOMAIN Contents(expires) THEN Contents(expires)[k] ELSE Absent
    BY FindByMutIs DEF IInv, GetExpire
<1>2. IInv'
    BY <1>1 DEF IInv, GetExpire
<1>3. KeySpace!GetExpire(k)
    BY <1>1, SameWords DEF KeySpace!GetExpire, GetExpire
<1> QED BY <1>2, <1>3

-----------------------------------------------------------------------------
(* Expiry *)

(* A key is due when its time has come, and only then. *)
LEMMA DueIs ==
    ASSUME IInv, NEW k \in Keys
    PROVE  /\ Due(k) <=> KeySpace!Due(k)
           /\ Find(expires, k) = Absent <=> k \notin DOMAIN Contents(expires)
<1>1. /\ Find(expires, k) = IF k \in DOMAIN Contents(expires) THEN Contents(expires)[k] ELSE Absent
      /\ k \in DOMAIN Contents(expires) => Contents(expires)[k] \in Times
    BY FindByMutIs DEF IInv
<1>2. Find(expires, k) = Absent <=> k \notin DOMAIN Contents(expires)
    BY <1>1, TimesAssumption DEF Times
<1> QED BY <1>1, <1>2, SameWords DEF Due, KeySpace!Due

(* What expire_if_needed leaves of the two dicts *)
LEMMA AfterExpiryIs ==
    ASSUME IInv, NEW k \in Keys
    PROVE  /\ DictInv(AfterExpiry(k).dict, Values) /\ DictInv(AfterExpiry(k).expires, Times)
           /\ Contents(AfterExpiry(k).dict) =
                 IF Due(k) THEN Drop(Contents(dict), k) ELSE Contents(dict)
           /\ Contents(AfterExpiry(k).expires) =
                 IF Due(k) THEN Drop(Contents(expires), k) ELSE Contents(expires)
<1>1. /\ DictInv(Delete(dict, k).dict, Values)
      /\ Contents(Delete(dict, k).dict) = Drop(Contents(dict), k)
      /\ DictInv(Delete(expires, k).dict, Times)
      /\ Contents(Delete(expires, k).dict) = Drop(Contents(expires), k)
    BY DeleteIs DEF IInv
<1>2. CASE Due(k)
    <2>1. /\ AfterExpiry(k).dict = Delete(dict, k).dict
          /\ AfterExpiry(k).expires = Delete(expires, k).dict
        BY <1>2 DEF AfterExpiry
    <2> QED BY <1>1, <1>2, <2>1
<1>3. CASE ~Due(k)
    <2>1. AfterExpiry(k).dict = dict /\ AfterExpiry(k).expires = expires
        BY <1>3 DEF AfterExpiry
    <2> QED BY <1>3, <2>1 DEF IInv
<1> QED BY <1>2, <1>3

(* A key that is due leaves both dicts; the answer says which case it was. *)
LEMMA ExpireIfNeededStep ==
    ASSUME IInv, NEW k \in Keys, ExpireIfNeeded(k)
    PROVE  IInv' /\ KeySpace!ExpireIfNeeded(k)
<1>1. /\ dict' = AfterExpiry(k).dict /\ expires' = AfterExpiry(k).expires /\ now' = now
      /\ answer' = CASE Find(expires, k) = Absent -> Refused
                     [] Find(expires, k) # Absent /\ ~Due(k) -> NotYet
                     [] OTHER -> Ok(Delete(dict, k).ok)
    BY DEF ExpireIfNeeded
<1>2. IInv'
    BY <1>1, AfterExpiryIs DEF IInv
<1>3. /\ Contents(dict') = IF Due(k) THEN Drop(Contents(dict), k) ELSE Contents(dict)
      /\ Contents(expires') = IF Due(k) THEN Drop(Contents(expires), k) ELSE Contents(expires)
    BY <1>1, AfterExpiryIs
<1>4. KeySpace!Expire(k)
    BY <1>1, <1>3, DueIs, SameWords DEF KeySpace!Expire
<1>5. Delete(dict, k).ok <=> k \in DOMAIN Contents(dict)
    BY DeleteIs DEF IInv
<1>6. Due(k) => Find(expires, k) # Absent
    BY DEF Due
<1>7. answer' = IF k \in DOMAIN Contents(expires) /\ ~Due(k) THEN NotYet
                ELSE Ok(Due(k) /\ k \in DOMAIN Contents(dict))
    BY <1>1, <1>5, <1>6, DueIs DEF Ok
<1>8. KeySpace!ExpireIfNeeded(k)
    BY <1>4, <1>7, DueIs, SameWords DEF KeySpace!ExpireIfNeeded, KeySpace!Ok, Ok
<1> QED BY <1>2, <1>8

(* A value is read after what is due has gone, and one more step of the rehash. *)
LEMMA LookUpKeyReadStep ==
    ASSUME IInv, NEW k \in Keys, LookUpKeyRead(k)
    PROVE  IInv' /\ KeySpace!Read(k)
<1> DEFINE d == AfterExpiry(k).dict
<1>1. /\ dict' = FindByMut(d, k).dict /\ expires' = AfterExpiry(k).expires /\ now' = now
      /\ answer' = FindByMut(d, k).value
    BY DEF LookUpKeyRead
<1>2. /\ DictInv(d, Values) /\ DictInv(AfterExpiry(k).expires, Times)
      /\ Contents(d) = IF Due(k) THEN Drop(Contents(dict), k) ELSE Contents(dict)
      /\ Contents(AfterExpiry(k).expires) =
            IF Due(k) THEN Drop(Contents(expires), k) ELSE Contents(expires)
    BY AfterExpiryIs
<1> HIDE DEF d
<1>3. /\ DictInv(dict', Values) /\ Contents(dict') = Contents(d)
      /\ answer' = IF k \in DOMAIN Contents(d) THEN Contents(d)[k] ELSE Absent
    BY <1>1, <1>2, FindByMutIs
<1>4. IInv'
    BY <1>1, <1>2, <1>3 DEF IInv
<1>5. KeySpace!Expire(k)
    BY <1>1, <1>2, <1>3, DueIs, SameWords DEF KeySpace!Expire
<1>6. k \notin DOMAIN Drop(Contents(dict), k)
    BY DEF Drop
<1>7. answer' = IF Due(k) THEN Absent
                ELSE IF k \in DOMAIN Contents(dict) THEN Contents(dict)[k] ELSE Absent
    BY <1>2, <1>3, <1>6
<1>8. KeySpace!Read(k)
    BY <1>5, <1>7, DueIs, SameWords DEF KeySpace!Read
<1> QED BY <1>4, <1>8

-----------------------------------------------------------------------------
(* Deletion *)

(* The shortcut for a DB no key of which expires *)
LEMMA ExpiryDropped ==
    ASSUME IInv, NEW k \in Keys,
           NEW e, e = IF Length(expires) = 0 THEN expires ELSE Delete(expires, k).dict
    PROVE  /\ DictInv(e, Times) /\ Contents(e) = Drop(Contents(expires), k)
           /\ Length(expires) # 0 /\ Delete(expires, k).ok <=> k \in DOMAIN Contents(expires)
<1>1. /\ DictInv(Delete(expires, k).dict, Times)
      /\ Delete(expires, k).ok <=> k \in DOMAIN Contents(expires)
      /\ Contents(Delete(expires, k).dict) = Drop(Contents(expires), k)
    BY DeleteIs DEF IInv
<1>2. CASE Length(expires) = 0
    <2>1. Good(expires, Times)
        BY DEF IInv, DictInv
    <2>2. GoodTable(expires.ht[0], Times) /\ GoodTable(expires.ht[1], Times)
        BY <2>1 DEF Good
    <2>3. expires.ht[0].used = 0 /\ expires.ht[1].used = 0
        BY <1>2, <2>2, TableIs DEF Length
    <2>4. All(expires) = {}
        BY <2>2, <2>3, TableIs DEF All
    <2>5. DOMAIN Contents(expires) = {x.key : x \in All(expires)}
        BY <2>1, ContentsAre
    <2>6. k \notin DOMAIN Contents(expires)
        BY <2>4, <2>5
    <2>7. Drop(Contents(expires), k) = Contents(expires)
        BY <2>6, NothingToDrop
    <2> QED BY <1>2, <2>6, <2>7 DEF IInv
<1>3. CASE Length(expires) # 0
    BY <1>1, <1>3
<1> QED BY <1>2, <1>3

(* delete leaves the value of a key that has no time to expire. *)
LEMMA DeleteWithExpiryStep ==
    ASSUME IInv, NEW k \in Keys, DeleteWithExpiry(k)
    PROVE  IInv' /\ KeySpace!DeleteWithExpiry(k)
<1>1. /\ expires' = IF Length(expires) = 0 THEN expires ELSE Delete(expires, k).dict
      /\ IF Length(expires) # 0 /\ Delete(expires, k).ok
         THEN dict' = Delete(dict, k).dict /\ answer' = Ok(Delete(dict, k).ok)
         ELSE answer' = Refused /\ dict' = dict
      /\ now' = now
    BY DEF DeleteWithExpiry
<1>2. /\ DictInv(expires', Times) /\ Contents(expires') = Drop(Contents(expires), k)
      /\ Length(expires) # 0 /\ Delete(expires, k).ok <=> k \in DOMAIN Contents(expires)
    BY <1>1, ExpiryDropped
<1>3. /\ DictInv(Delete(dict, k).dict, Values)
      /\ Delete(dict, k).ok <=> k \in DOMAIN Contents(dict)
      /\ Contents(Delete(dict, k).dict) = Drop(Contents(dict), k)
    BY DeleteIs DEF IInv
<1>4. IInv'
    BY <1>1, <1>2, <1>3 DEF IInv
<1>5. /\ Contents(dict') = IF k \in DOMAIN Contents(expires) THEN Drop(Contents(dict), k)
                           ELSE Contents(dict)
      /\ answer' = Ok(k \in DOMAIN Contents(expires) /\ k \in DOMAIN Contents(dict))
    BY <1>1, <1>2, <1>3 DEF Ok
<1>6. KeySpace!DeleteWithExpiry(k)
    BY <1>1, <1>2, <1>5, SameWords DEF KeySpace!DeleteWithExpiry, KeySpace!Ok, Ok
<1> QED BY <1>4, <1>6

(* A key is taken out of both dicts, whatever it had. *)
LEMMA DeleteKeyStep ==
    ASSUME IInv, NEW k \in Keys, DeleteKey(k)
    PROVE  IInv' /\ KeySpace!DeleteKey(k)
<1>1. /\ expires' = IF Length(expires) = 0 THEN expires ELSE Delete(expires, k).dict
      /\ dict' = Delete(dict, k).dict /\ answer' = Ok(Delete(dict, k).ok) /\ now' = now
    BY DEF DeleteKey
<1>2. DictInv(expires', Times) /\ Contents(expires') = Drop(Contents(expires), k)
    BY <1>1, ExpiryDropped
<1>3. /\ DictInv(dict', Values)
      /\ Delete(dict, k).ok <=> k \in DOMAIN Contents(dict)
      /\ Contents(dict') = Drop(Contents(dict), k)
    BY <1>1, DeleteIs DEF IInv
<1>4. IInv'
    BY <1>1, <1>2, <1>3 DEF IInv
<1>5. KeySpace!DeleteKey(k)
    BY <1>1, <1>2, <1>3, SameWords DEF KeySpace!DeleteKey, KeySpace!Ok, Ok
<1> QED BY <1>4, <1>5

-----------------------------------------------------------------------------
(* The specification *)

(* A new DB is two empty maps. *)
LEMMA InitIs == DBInit => IInv /\ KeySpace!Init
<1>1. \A V : DictInv(DictNew, V) /\ Contents(DictNew) = << >>
    BY DictNewIs
<1>2. 0 \in 0..MaxTime
    BY TimesAssumption
<1> QED BY <1>1, <1>2 DEF DBInit, IInv, KeySpace!Init

(* The clock moves on and nothing else does. *)
LEMMA TickStep ==
    ASSUME IInv, Tick
    PROVE  IInv' /\ KeySpace!Tick
<1>1. now \in 0..MaxTime /\ now < MaxTime /\ now' = now + 1 /\ MaxTime \in Nat
    BY TimesAssumption DEF IInv, Tick
<1>2. now' \in 0..MaxTime
    BY <1>1
<1>3. IInv'
    BY <1>2 DEF IInv, Tick
<1>4. KeySpace!Tick
    BY DEF Tick, KeySpace!Tick
<1> QED BY <1>3, <1>4

(* Every step is one of these. *)
LEMMA NextIs ==
    ASSUME IInv, DBNext
    PROVE  IInv' /\ KeySpace!Next
<1>1. CASE Tick
    BY <1>1, TickStep DEF KeySpace!Next
<1>2. ASSUME NEW k \in Keys, NEW v \in Values, DictAdd(k, v) \/ DictReplace(k, v)
      PROVE  IInv' /\ KeySpace!Next
    BY <1>2, DictAddStep, DictReplaceStep DEF KeySpace!Next
<1>3. ASSUME NEW k \in Keys, NEW when \in Times, SetExpire(k, when)
      PROVE  IInv' /\ KeySpace!Next
    BY <1>3, SetExpireStep DEF KeySpace!Next, Times
<1>4. ASSUME NEW k \in Keys, RemoveExpire(k) \/ GetExpire(k)
      PROVE  IInv' /\ KeySpace!Next
    BY <1>4, RemoveExpireStep, GetExpireStep DEF KeySpace!Next
<1>5. ASSUME NEW k \in Keys, ExpireIfNeeded(k) \/ LookUpKeyRead(k)
      PROVE  IInv' /\ KeySpace!Next
    BY <1>5, ExpireIfNeededStep, LookUpKeyReadStep DEF KeySpace!Next
<1>6. ASSUME NEW k \in Keys, DeleteWithExpiry(k) \/ DeleteKey(k)
      PROVE  IInv' /\ KeySpace!Next
    BY <1>6, DeleteWithExpiryStep, DeleteKeyStep DEF KeySpace!Next
<1> QED BY <1>1, <1>2, <1>3, <1>4, <1>5, <1>6 DEF DBNext

(* Where nothing changes the plain maps do not either. *)
LEMMA StutterIs ==
    ASSUME IInv, UNCHANGED dbVars
    PROVE  IInv' /\ UNCHANGED KeySpace!vars
BY DEF IInv, dbVars, KeySpace!vars

(* Both dicts are good and have kept up, always. *)
LEMMA Invariance == DBSpec => []IInv
<1>1. DBInit => IInv
    BY InitIs
<1>2. IInv /\ [DBNext]_dbVars => IInv'
    BY NextIs, StutterIs
<1> QED BY <1>1, <1>2, PTL DEF DBSpec

(* Both dicts keep every entry in the bucket of its hash, once and counted,
   whatever phase of a rehash a call comes in. *)
THEOREM TypeCorrect == DBSpec => []TypeOK
<1>1. IInv => TypeOK
    BY InvKeepsUp DEF IInv, TypeOK
<1> QED BY <1>1, Invariance, PTL

(* A bucket a call is fast enough: no table ever has more than one entry too
   many, however many keys are added during a rehash. *)
THEOREM RehashKeepsUpCorrect == DBSpec => []RehashKeepsUp
<1>1. IInv => RehashKeepsUp
    BY InvKeepsUp DEF IInv, RehashKeepsUp
<1> QED BY <1>1, Invariance, PTL

(* Every call answers and does what it does to plain maps: no rehash loses,
   doubles or revives a key, and no value is read after its time. *)
THEOREM KeySpaceCorrect == DBSpec => IsKeySpace
<1>1. DBInit => KeySpace!Init
    BY InitIs
<1>2. IInv /\ [DBNext]_dbVars => [KeySpace!Next]_(KeySpace!vars)
    BY NextIs, StutterIs
<1> QED BY <1>1, <1>2, Invariance, PTL DEF DBSpec, IsKeySpace, KeySpace!Spec
=============================================================================
