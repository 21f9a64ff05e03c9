--------------------------- MODULE Gossip_proofs ----------------------------
(***************************************************************************)
(* An update is delivered once and is never both active and expired, for   *)
(* any nodes, updates and configurations, whatever messages are lost,      *)
(* late or doubled and whoever is shut down.                               *)
(***************************************************************************)
EXTENDS Gossip, FiniteSetTheorems, SequenceTheorems, FunctionTheorems, TLAPS

Actives == [digest : Updates, left : 0..config.limit]

Distinct(a) == \A i, j \in DOMAIN a : a[i].digest = a[j].digest => i = j

(* ActiveOrExpired, without counting *)
ListsApart ==
    \A n \in Nodes :
        /\ Distinct(active[n])
        /\ IsInjective(removed[n])
        /\ Digests(active[n]) \cap Range(removed[n]) = {}

(* What came to a node by its application or from a peer is not new to it. *)
Remembered ==
    \A n \in Nodes : \A u \in Updates \ forgotten[n] :
        u \in submitted[n] \/ delivered[n][u] > 0 => ~IsNew(n, u)

IInv == TypeOK /\ ListsApart /\ Remembered /\ DeliveredOnce

-----------------------------------------------------------------------------
(* Sequences *)

(* SetToSeqs lists all of a finite set, each member once. *)
LEMMA ListsAll ==
    ASSUME NEW S, IsFiniteSet(S), NEW f \in SetToSeqs(S)
    PROVE  f \in Seq(S) /\ Range(f) = S /\ IsInjective(f)
<1> DEFINE n == Cardinality(S)
<1>1. n \in Nat
    BY FS_CardinalityType
<1>2. f \in [1..n -> S] /\ \A i, j \in 1..n : i # j => f[i] # f[j]
    BY DEF SetToSeqs
<1>3. IsInjective(f)
    BY <1>2 DEF IsInjective
<1>4. f \in Injection(1..n, S)
    BY <1>2, <1>3 DEF Injection
<1>5. Cardinality(1..n) = n
    BY <1>1, FS_Interval
<1>6. f \in Surjection(1..n, S)
    BY <1>4, <1>5, FS_Injection
<1>7. Range(f) = S
    BY <1>2, <1>6 DEF Surjection, Range
<1>8. f \in Seq(S)
    BY <1>1, <1>2
<1> QED BY <1>3, <1>7, <1>8

(* A list without one of its members is a list. *)
LEMMA RemovingOne ==
    ASSUME NEW S, NEW s \in Seq(S), NEW i \in DOMAIN s
    PROVE  RemoveAt(s, i) \in Seq(S)
<1>1. i \in 1..Len(s) /\ Len(s) \in Nat
    OBVIOUS
<1>2. SubSeq(s, 1, i - 1) \in Seq(S)
    BY <1>1, SubSeqProperties
<1>3. SubSeq(s, i + 1, Len(s)) \in Seq(S)
    BY <1>1, SubSeqProperties
<1> QED BY <1>2, <1>3 DEF RemoveAt

(* What is left of a list behind its first k members *)
LEMMA Behind ==
    ASSUME NEW S, NEW s \in Seq(S), NEW k \in 0..Len(s)
    PROVE  LET rest == SubSeq(s, k + 1, Len(s))
           IN /\ rest \in Seq(S) /\ Len(rest) = Len(s) - k
              /\ DOMAIN rest = 1..(Len(s) - k)
              /\ \A i \in 1..(Len(s) - k) : rest[i] = s[k + i] /\ k + i \in DOMAIN s
<1> DEFINE m == k + 1
           n == Len(s)
           rest == SubSeq(s, m, n)
<1>1. m \in Int /\ n \in Int /\ \A i \in m..n : s[i] \in S
    OBVIOUS
<1>2. n - m + 1 = n - k /\ (IF m <= n THEN n - m + 1 ELSE 0) = n - k
    OBVIOUS
<1> HIDE DEF m, n
<1>3. /\ rest \in Seq(S) /\ Len(rest) = (IF m <= n THEN n - m + 1 ELSE 0)
      /\ \A i \in 1..(n - m + 1) : rest[i] = s[m + i - 1]
    BY <1>1, SubSeqProperties
<1>4. rest \in Seq(S) /\ Len(rest) = n - k /\ \A i \in 1..(n - k) : rest[i] = s[m + i - 1]
    BY <1>2, <1>3
<1> USE DEF m, n
<1>5. \A i \in 1..(Len(s) - k) : m + i - 1 = k + i /\ k + i \in DOMAIN s
    OBVIOUS
<1>6. DOMAIN rest = 1..(Len(s) - k)
    BY <1>4
<1> QED BY <1>4, <1>5, <1>6

(* Dropping the first members of a list without repetitions *)
LEMMA Dropping ==
    ASSUME NEW S, NEW r \in Seq(S), IsInjective(r), NEW k \in 0..Len(r)
    PROVE  LET front == SubSeq(r, 1, k)
               rest == SubSeq(r, k + 1, Len(r))
           IN /\ rest \in Seq(S) /\ IsInjective(rest) /\ Len(rest) = Len(r) - k
              /\ Range(front) \cup Range(rest) = Range(r)
              /\ Range(front) \subseteq S
<1> DEFINE front == SubSeq(r, 1, k)
           rest == SubSeq(r, k + 1, Len(r))
<1>0. Len(r) \in Nat /\ k \in Nat /\ k <= Len(r) /\ DOMAIN r = 1..Len(r)
    OBVIOUS
<1>1. /\ front \in Seq(S) /\ Len(front) = k
      /\ \A i \in 1..k : front[i] = r[i]
    BY <1>0, SubSeqProperties
<1>2. /\ rest \in Seq(S) /\ Len(rest) = Len(r) - k
      /\ \A i \in 1..(Len(r) - k) : rest[i] = r[k + i] /\ k + i \in DOMAIN r
    BY Behind
<1>3. DOMAIN front = 1..k /\ DOMAIN rest = 1..(Len(r) - k)
    BY <1>1, <1>2
<1>4. IsInjective(rest)
    <2>1. SUFFICES ASSUME NEW i \in 1..(Len(r) - k), NEW j \in 1..(Len(r) - k), rest[i] = rest[j]
                   PROVE  i = j
        BY <1>3 DEF IsInjective
    <2>2. k + i \in DOMAIN r /\ k + j \in DOMAIN r /\ r[k + i] = r[k + j]
        BY <1>2, <2>1
    <2>3. k + i = k + j
        BY <2>2 DEF IsInjective
    <2> QED BY <1>0, <2>3
<1> HIDE DEF front, rest
<1>5. Range(front) \cup Range(rest) \subseteq Range(r)
    <2>1. ASSUME NEW i \in DOMAIN front PROVE front[i] \in Range(r)
        <3>1. i \in DOMAIN r /\ front[i] = r[i]
            BY <1>0, <1>1, <1>3
        <3> QED BY <3>1 DEF Range
    <2>2. ASSUME NEW i \in DOMAIN rest PROVE rest[i] \in Range(r)
        <3>1. k + i \in DOMAIN r /\ rest[i] = r[k + i]
            BY <1>2, <1>3
        <3> QED BY <3>1 DEF Range
    <2> QED BY <2>1, <2>2 DEF Range
<1>6. ASSUME NEW i \in DOMAIN r PROVE r[i] \in Range(front) \cup Range(rest)
    <2>1. CASE i <= k
        BY <1>0, <1>1, <1>3, <2>1 DEF Range
    <2>2. CASE i > k
        <3>1. i - k \in 1..(Len(r) - k) /\ k + (i - k) = i
            BY <1>0, <2>2
        <3>2. rest[i - k] = r[i]
            BY <1>2, <3>1
        <3> QED BY <1>3, <3>1, <3>2 DEF Range
    <2> QED BY <1>0, <2>1, <2>2
<1>7. Range(r) \subseteq Range(front) \cup Range(rest)
    BY <1>6 DEF Range
<1>8. Range(front) \subseteq S
    BY <1>1, RangeOfSeq
<1> QED BY <1>2, <1>4, <1>5, <1>7, <1>8 DEF front, rest

(* Two lists without repetitions that have no member in common *)
LEMMA JoiningApart ==
    ASSUME NEW S, NEW r \in Seq(S), NEW g \in Seq(S), IsInjective(r), IsInjective(g),
           Range(r) \cap Range(g) = {}
    PROVE  /\ r \o g \in Seq(S) /\ IsInjective(r \o g)
           /\ Range(r \o g) = Range(r) \cup Range(g)
<1>1. /\ r \o g \in Seq(S) /\ Len(r \o g) = Len(r) + Len(g)
      /\ \A i \in 1..(Len(r) + Len(g)) :
            (r \o g)[i] = IF i <= Len(r) THEN r[i] ELSE g[i - Len(r)]
    BY ConcatProperties
<1>2. Range(r \o g) = Range(r) \cup Range(g)
    BY RangeConcatenation
<1>3. ASSUME NEW i \in 1..(Len(r) + Len(g)), NEW j \in 1..(Len(r) + Len(g)),
             (r \o g)[i] = (r \o g)[j]
      PROVE  i = j
    <2>0. Len(r) \in Nat /\ Len(g) \in Nat /\ DOMAIN r = 1..Len(r) /\ DOMAIN g = 1..Len(g)
        OBVIOUS
    <2>1. \A k \in 1..Len(r), l \in 1..Len(g) : r[k] # g[l]
        BY <2>0 DEF Range
    <2>2. CASE i <= Len(r) /\ j <= Len(r)
        BY <1>1, <1>3, <2>0, <2>2 DEF IsInjective
    <2>3. CASE i <= Len(r) /\ j > Len(r)
        <3>1. j - Len(r) \in 1..Len(g) /\ i \in 1..Len(r)
            BY <2>0, <2>3
        <3> QED BY <1>1, <1>3, <2>0, <2>1, <2>3, <3>1
    <2>4. CASE i > Len(r) /\ j <= Len(r)
        <3>1. i - Len(r) \in 1..Len(g) /\ j \in 1..Len(r)
            BY <2>0, <2>4
        <3> QED BY <1>1, <1>3, <2>0, <2>1, <2>4, <3>1
    <2>5. CASE i > Len(r) /\ j > Len(r)
        <3>1. i - Len(r) \in 1..Len(g) /\ j - Len(r) \in 1..Len(g)
            BY <2>0, <2>5
        <3>2. g[i - Len(r)] = g[j - Len(r)]
            BY <1>1, <1>3, <2>0, <2>5
        <3>3. i - Len(r) = j - Len(r)
            BY <2>0, <3>1, <3>2 DEF IsInjective
        <3> QED BY <2>0, <3>3
    <2> QED BY <2>0, <2>2, <2>3, <2>4, <2>5
<1>4. IsInjective(r \o g)
    BY <1>1, <1>3 DEF IsInjective
<1> QED BY <1>1, <1>2, <1>4

(* A list without repetitions is no longer than what it lists. *)
LEMMA LengthBound ==
    ASSUME NEW S, IsFiniteSet(S), NEW r \in Seq(S), IsInjective(r)
    PROVE  Len(r) <= Cardinality(S) /\ Cardinality(Range(r)) = Len(r)
<1>1. Len(r) \in Nat /\ r \in [1..Len(r) -> S]
    OBVIOUS
<1>2. IsFiniteSet(1..Len(r)) /\ Cardinality(1..Len(r)) = Len(r)
    BY <1>1, FS_Interval
<1>3. r \in Injection(1..Len(r), S)
    BY <1>1 DEF Injection
<1>4. Len(r) <= Cardinality(S)
    BY <1>2, <1>3, FS_Injection
<1>5. r \in Surjection(1..Len(r), Range(r)) /\ r \in Injection(1..Len(r), Range(r))
    BY <1>1 DEF Surjection, Injection, Range
<1>6. Cardinality(Range(r)) = Len(r)
    BY <1>2, <1>5, FS_Surjection
<1> QED BY <1>4, <1>6

-----------------------------------------------------------------------------
(* Expiry *)

(* A way to divide the active updates `a` into those kept and those gone *)
Divides(e, a) ==
    /\ e.kept \in Seq(Actives) /\ Distinct(e.kept)
    /\ e.gone \in Seq(Updates) /\ IsInjective(e.gone)
    /\ Digests(e.kept) \cup Range(e.gone) = Digests(a)
    /\ Digests(e.kept) \cap Range(e.gone) = {}

(* Taking the k oldest *)
LEMMA PartedDivides ==
    ASSUME NEW a \in Seq(Actives), Distinct(a), NEW k \in 0..Len(a)
    PROVE  Divides(Parted(a, k), a)
<1> DEFINE kept == Parted(a, k).kept
           gone == Parted(a, k).gone
<1>0. Len(a) \in Nat /\ k \in Nat /\ k <= Len(a) /\ DOMAIN a = 1..Len(a)
    OBVIOUS
<1>a. \A i \in 1..Len(a) : a[i] \in Actives /\ a[i].digest \in Updates
    <2>1. \A x \in Actives : x.digest \in Updates
        BY DEF Actives
    <2> QED BY <2>1
<1>1. kept = SubSeq(a, k + 1, Len(a)) /\ gone = [i \in 1..k |-> a[i].digest]
    BY DEF Parted
<1>2. /\ kept \in Seq(Actives) /\ Len(kept) = Len(a) - k
      /\ \A i \in 1..(Len(a) - k) : kept[i] = a[k + i] /\ k + i \in DOMAIN a
    BY <1>1, Behind
<1> HIDE DEF kept, gone
<1>3. DOMAIN kept = 1..(Len(a) - k)
    BY <1>2
<1>4. gone \in Seq(Updates) /\ DOMAIN gone = 1..k
    BY <1>0, <1>a, <1>1
<1>5. IsInjective(gone)
    <2>1. SUFFICES ASSUME NEW i \in 1..k, NEW j \in 1..k, gone[i] = gone[j] PROVE i = j
        BY <1>4 DEF IsInjective
    <2>2. i \in DOMAIN a /\ j \in DOMAIN a /\ a[i].digest = a[j].digest
        BY <1>0, <1>1, <2>1
    <2> QED BY <2>2 DEF Distinct
<1>6. Distinct(kept)
    <2>1. SUFFICES ASSUME NEW i \in 1..(Len(a) - k), NEW j \in 1..(Len(a) - k),
                          kept[i].digest = kept[j].digest
                   PROVE  i = j
        BY <1>3 DEF Distinct
    <2>2. k + i \in DOMAIN a /\ k + j \in DOMAIN a /\ a[k + i].digest = a[k + j].digest
        BY <1>2, <2>1
    <2>3. k + i = k + j
        BY <2>2 DEF Distinct
    <2> QED BY <1>0, <2>3
<1>7. Digests(kept) \cup Range(gone) \subseteq Digests(a)
    <2>1. ASSUME NEW i \in 1..(Len(a) - k) PROVE kept[i].digest \in Digests(a)
        <3>1. k + i \in DOMAIN a /\ kept[i] = a[k + i]
            BY <1>2
        <3> QED BY <3>1 DEF Digests
    <2>2. ASSUME NEW i \in 1..k PROVE gone[i] \in Digests(a)
        <3>1. i \in DOMAIN a /\ gone[i] = a[i].digest
            BY <1>0, <1>1
        <3> QED BY <3>1 DEF Digests
    <2> QED BY <1>3, <1>4, <2>1, <2>2 DEF Digests, Range
<1>8. Digests(a) \subseteq Digests(kept) \cup Range(gone)
    <2>1. SUFFICES ASSUME NEW i \in 1..Len(a) PROVE a[i].digest \in Digests(kept) \cup Range(gone)
        BY <1>0 DEF Digests
    <2>2. CASE i <= k
        <3>1. i \in 1..k /\ gone[i] = a[i].digest
            BY <1>0, <1>1, <2>2
        <3> QED BY <1>4, <3>1 DEF Range
    <2>3. CASE i > k
        <3>1. i - k \in 1..(Len(a) - k) /\ k + (i - k) = i
            BY <1>0, <2>3
        <3>2. kept[i - k] = a[i]
            BY <1>2, <3>1
        <3> QED BY <1>3, <3>1, <3>2 DEF Digests
    <2> QED BY <1>0, <2>2, <2>3
<1>9. Digests(kept) \cap Range(gone) = {}
    <2>1. ASSUME NEW i \in 1..(Len(a) - k), NEW j \in 1..k PROVE kept[i].digest # gone[j]
        <3>1. k + i \in DOMAIN a /\ j \in DOMAIN a /\ k + i # j
            BY <1>0
        <3>2. a[k + i].digest # a[j].digest
            BY <3>1 DEF Distinct
        <3> QED BY <1>1, <1>2, <3>2
    <2> QED BY <1>3, <1>4, <2>1 DEF Digests, Range
<1> QED BY <1>2, <1>4, <1>5, <1>6, <1>7, <1>8, <1>9 DEF Divides, kept, gone

(* The k oldest in any order *)
LEMMA PartedAnyhowDivides ==
    ASSUME NEW a \in Seq(Actives), Distinct(a), NEW k \in 0..Len(a), NEW e \in PartedAnyhow(a, k)
    PROVE  Divides(e, a)
<1> DEFINE p == Parted(a, k)
<1>1. Divides(p, a)
    BY PartedDivides
<1>2. e.kept = p.kept /\ e.gone \in SetToSeqs(Range(p.gone))
    BY DEF PartedAnyhow
<1>3. Range(p.gone) \subseteq Updates
    BY <1>1, RangeOfSeq DEF Divides
<1>4. IsFiniteSet(Range(p.gone))
    BY <1>3, UpdatesAssumption, FS_Subset
<1>5. e.gone \in Seq(Range(p.gone)) /\ Range(e.gone) = Range(p.gone) /\ IsInjective(e.gone)
    BY <1>2, <1>4, ListsAll
<1>6. e.gone \in Seq(Updates)
    BY <1>3, <1>5, SeqMonotonic
<1> QED BY <1>1, <1>2, <1>5, <1>6 DEF Divides

(* Taking those that have no push left *)
LEMMA PartedByPushesDivides ==
    ASSUME config \in Configs,
           NEW a \in Seq(Actives), Distinct(a), NEW e \in PartedByPushes(a)
    PROVE  Divides(e, a)
<1> DEFINE stay == {x \in Range(a) : x.left > 0}
           go == {x.digest : x \in {y \in Range(a) : y.left = 0}}
           k == e.kept
           g == e.gone
<1>0. config.limit \in Nat
    BY ConfigsAssumption
<1>1. k \in SetToSeqs(stay) /\ g \in SetToSeqs(go)
    BY DEF PartedByPushes
<1> HIDE DEF k, g
<1>2. Range(a) \subseteq Actives
    BY RangeOfSeq
<1>3. stay \subseteq Range(a) /\ stay \subseteq Actives /\ go \subseteq Updates
    BY <1>2 DEF Actives
<1>4. IsFiniteSet(Range(a))
    <2>1. a \in Surjection(1..Len(a), Range(a)) /\ Len(a) \in Nat
        BY DEF Surjection, Range
    <2> QED BY <2>1, FS_Interval, FS_Surjection
<1>5. IsFiniteSet(stay) /\ IsFiniteSet(go)
    BY <1>3, <1>4, UpdatesAssumption, FS_Subset
<1>6. k \in Seq(stay) /\ Range(k) = stay /\ IsInjective(k)
    BY <1>1, <1>5, ListsAll
<1>7. g \in Seq(go) /\ Range(g) = go /\ IsInjective(g)
    BY <1>1, <1>5, ListsAll
<1>8. k \in Seq(Actives) /\ g \in Seq(Updates)
    BY <1>3, <1>6, <1>7, SeqMonotonic
<1>9. Digests(k) = {x.digest : x \in stay}
    <2>1. Digests(k) = {x.digest : x \in Range(k)}
        BY DEF Digests, Range
    <2> QED BY <1>6, <2>1
<1>10. Digests(a) = {x.digest : x \in Range(a)}
    BY DEF Digests, Range
<1>11. \A x, y \in Range(a) : x.digest = y.digest => x = y
    BY DEF Distinct, Range
<1>12. Distinct(k)
    <2>1. \A i \in DOMAIN k : k[i] \in Range(a)
        BY <1>3, <1>6 DEF Range
    <2> QED BY <1>6, <1>11, <2>1 DEF Distinct, IsInjective
<1>13. \A x \in Range(a) : x.left > 0 \/ x.left = 0
    BY <1>0, <1>2 DEF Actives
<1>14. \A x \in Range(a) : ~(x.left > 0 /\ x.left = 0)
    BY <1>0, <1>2 DEF Actives
<1>15. Digests(k) \cup go = Digests(a)
    BY <1>9, <1>10, <1>13
<1>16. Digests(k) \cap go = {}
    BY <1>9, <1>11, <1>14
<1> QED BY <1>7, <1>8, <1>12, <1>15, <1>16 DEF Divides, k, g

(* Under every mode an update that expires is moved. *)
LEMMA ExpiredDivides ==
    ASSUME config \in Configs,
           NEW a \in Seq(Actives), Distinct(a), NEW e \in Expired(a)
    PROVE  Divides(e, a)
<1>0. config.expiry \in Expiries /\ config.limit \in Nat /\ Len(a) \in Nat
    BY ConfigsAssumption
<1>1. CASE config.expiry = "none"
    <2>1. e = Parted(a, 0) /\ 0 \in 0..Len(a)
        BY <1>0, <1>1 DEF Expired
    <2> QED BY <2>1, PartedDivides
<1>2. CASE config.expiry = "recent"
    <2>1. e = Parted(a, Excess(a))
        BY <1>2 DEF Expired
    <2>2. Excess(a) \in 0..Len(a)
        BY <1>0 DEF Excess
    <2> QED BY <2>1, <2>2, PartedDivides
<1>3. CASE config.expiry = "pushes"
    BY <1>3, PartedByPushesDivides DEF Expired
<1>4. CASE config.expiry = "duration"
    <2>1. PICK k \in 0..Len(a) : e \in PartedAnyhow(a, k)
        BY <1>4 DEF Expired
    <2> QED BY <2>1, PartedAnyhowDivides
<1> QED BY <1>0, <1>1, <1>2, <1>3, <1>4 DEF Expiries

(* What clear_expired does to n when `a` is active: nothing is lost but what
   is forgotten. *)
Cleared(n, a) ==
    /\ active' \in [Nodes -> Seq(Actives)]
    /\ removed' \in [Nodes -> Seq(Updates)]
    /\ forgotten' \in [Nodes -> SUBSET Updates]
    /\ \A m \in Nodes \ {n} :
          active'[m] = active[m] /\ removed'[m] = removed[m] /\ forgotten'[m] = forgotten[m]
    /\ forgotten[n] \subseteq forgotten'[n]
    /\ Distinct(active'[n]) /\ IsInjective(removed'[n])
    /\ Digests(active'[n]) \cap Range(removed'[n]) = {}
    /\ Digests(a) \cup Range(removed[n])
          \subseteq Digests(active'[n]) \cup Range(removed'[n]) \cup forgotten'[n]
    /\ Len(removed'[n]) > MaxRemoved => Len(removed'[n]) + Forget <= Cardinality(Updates)

(* clear_expired loses nothing but what is forgotten, and is bounded. *)
LEMMA ClearExpiredClears ==
    ASSUME TypeOK, ListsApart,
           NEW n \in Nodes, NEW a \in Seq(Actives), Distinct(a),
           Digests(a) \cap Range(removed[n]) = {},
           ClearExpired(n, a)
    PROVE  Cleared(n, a)
<1>1. PICK e \in Expired(a) :
        LET r == removed[n] \o e.gone
            dropped == IF Len(r) > MaxRemoved THEN Forget ELSE 0
        IN /\ active' = [active EXCEPT ![n] = e.kept]
           /\ removed' = [removed EXCEPT ![n] = SubSeq(r, dropped + 1, Len(r))]
           /\ forgotten' = [forgotten EXCEPT ![n] = @ \cup Range(SubSeq(r, 1, dropped))]
    BY Zenon DEF ClearExpired
<1> DEFINE r == removed[n] \o e.gone
           k == IF Len(r) > MaxRemoved THEN Forget ELSE 0
           rest == SubSeq(r, k + 1, Len(r))
           front == SubSeq(r, 1, k)
<1>2. /\ active \in [Nodes -> Seq(Actives)]
      /\ removed \in [Nodes -> Seq(Updates)]
      /\ forgotten \in [Nodes -> SUBSET Updates]
      /\ config \in Configs
    BY DEF TypeOK, Actives
<1>3. Divides(e, a)
    BY <1>2, ExpiredDivides
<1>4. /\ e.kept \in Seq(Actives) /\ Distinct(e.kept)
      /\ e.gone \in Seq(Updates) /\ IsInjective(e.gone)
      /\ Digests(e.kept) \cup Range(e.gone) = Digests(a)
      /\ Digests(e.kept) \cap Range(e.gone) = {}
    BY <1>3 DEF Divides
<1>5. removed[n] \in Seq(Updates) /\ IsInjective(removed[n])
    BY <1>2 DEF ListsApart
<1>6. r \in Seq(Updates) /\ IsInjective(r) /\ Range(r) = Range(removed[n]) \cup Range(e.gone)
    BY <1>4, <1>5, JoiningApart
<1> HIDE DEF r
<1>7. k \in 0..Len(r)
    BY <1>6, RemovedAssumption
<1>8. Len(r) <= Cardinality(Updates) /\ Cardinality(Updates) \in Nat
    BY <1>6, UpdatesAssumption, LengthBound, FS_CardinalityType
<1>9. /\ rest \in Seq(Updates) /\ IsInjective(rest) /\ Len(rest) = Len(r) - k
      /\ Range(front) \cup Range(rest) = Range(r)
      /\ Range(front) \subseteq Updates
    BY <1>6, <1>7, Dropping
<1>10. Len(rest) > MaxRemoved => Len(rest) + Forget <= Cardinality(Updates)
    BY <1>6, <1>8, <1>9, RemovedAssumption
<1> HIDE DEF rest, front, k
<1>11. /\ active' = [active EXCEPT ![n] = e.kept]
       /\ removed' = [removed EXCEPT ![n] = rest]
       /\ forgotten' = [forgotten EXCEPT ![n] = @ \cup Range(front)]
    BY <1>1 DEF rest, front, k, r
<1>12. /\ active'[n] = e.kept /\ removed'[n] = rest
       /\ forgotten'[n] = forgotten[n] \cup Range(front)
    BY <1>2, <1>11
<1>13. /\ active' \in [Nodes -> Seq(Actives)]
       /\ removed' \in [Nodes -> Seq(Updates)]
       /\ forgotten' \in [Nodes -> SUBSET Updates]
    BY <1>2, <1>4, <1>9, <1>11
<1>14. \A m \in Nodes \ {n} :
          active'[m] = active[m] /\ removed'[m] = removed[m] /\ forgotten'[m] = forgotten[m]
    BY <1>2, <1>11
<1>15. Digests(e.kept) \cap Range(rest) = {}
    BY <1>4, <1>6, <1>9
<1>16. Digests(a) \cup Range(removed[n])
          \subseteq Digests(e.kept) \cup Range(rest) \cup (forgotten[n] \cup Range(front))
    BY <1>4, <1>6, <1>9
<1> QED BY <1>4, <1>9, <1>10, <1>12, <1>13, <1>14, <1>15, <1>16 DEF Cleared

(* Nothing happens to n. *)
LEMMA UnchangedClears ==
    ASSUME TypeOK, ListsApart, NEW n \in Nodes, UNCHANGED <<active, removed, forgotten>>
    PROVE  Cleared(n, active[n])
BY DEF Cleared, TypeOK, ListsApart, Actives

(* What a step may do with a node's updates: those that came are new, and
   go to the application or come from it. *)
LEMMA ServiceKeeps ==
    ASSUME IInv, NEW n \in Nodes, NEW a, Cleared(n, a), Digests(active[n]) \subseteq Digests(a),
           NEW came \in SUBSET Updates, came \subseteq Digests(a), \A u \in came : IsNew(n, u),
           \A m \in Nodes : \A u \in Updates :
               m # n \/ u \notin came =>
                   /\ u \in submitted'[m] <=> u \in submitted[m]
                   /\ delivered'[m][u] = delivered[m][u],
           \A u \in came :
               u \notin submitted[n] /\ delivered[n][u] = 0 =>
                   delivered'[n][u] + (IF u \in submitted'[n] THEN 1 ELSE 0) <= 1
    PROVE  ListsApart' /\ Remembered' /\ DeliveredOnce'
<1>1. ListsApart'
    <2>1. SUFFICES ASSUME NEW m \in Nodes
                   PROVE  /\ Distinct(active'[m]) /\ IsInjective(removed'[m])
                          /\ Digests(active'[m]) \cap Range(removed'[m]) = {}
        BY DEF ListsApart
    <2>2. CASE m = n
        BY <2>2 DEF Cleared
    <2>3. CASE m # n
        BY <2>3 DEF Cleared, IInv, ListsApart
    <2> QED BY <2>2, <2>3
<1>2. \A m \in Nodes : forgotten[m] \subseteq forgotten'[m]
    BY DEF Cleared
<1>3. Remembered'
    <2>1. SUFFICES ASSUME NEW m \in Nodes, NEW u \in Updates \ forgotten'[m],
                          u \in submitted'[m] \/ delivered'[m][u] > 0
                   PROVE  u \in Digests(active'[m]) \cup Range(removed'[m])
        BY DEF Remembered, IsNew, IsActive, IsExpired
    <2>2. CASE m # n
        <3>1. u \in submitted[m] \/ delivered[m][u] > 0
            BY <2>1, <2>2
        <3>2. u \in Digests(active[m]) \cup Range(removed[m])
            BY <1>2, <3>1 DEF IInv, Remembered, IsNew, IsActive, IsExpired
        <3> QED BY <2>2, <3>2 DEF Cleared
    <2>3. CASE m = n /\ u \in came
        BY <2>1, <2>3 DEF Cleared
    <2>4. CASE m = n /\ u \notin came
        <3>1. u \in submitted[n] \/ delivered[n][u] > 0
            BY <2>1, <2>4
        <3>2. u \in Digests(active[n]) \cup Range(removed[n])
            BY <1>2, <2>4, <3>1 DEF IInv, Remembered, IsNew, IsActive, IsExpired
        <3> QED BY <2>1, <2>4, <3>2 DEF Cleared
    <2> QED BY <2>2, <2>3, <2>4
<1>4. DeliveredOnce'
    <2>1. SUFFICES ASSUME NEW m \in Nodes, NEW u \in Updates \ forgotten'[m]
                   PROVE  delivered'[m][u] + (IF u \in submitted'[m] THEN 1 ELSE 0) <= 1
        BY DEF DeliveredOnce
    <2>2. CASE m # n \/ u \notin came
        <3>1. delivered[m][u] + (IF u \in submitted[m] THEN 1 ELSE 0) <= 1
            BY <1>2 DEF IInv, DeliveredOnce
        <3> QED BY <2>2, <3>1
    <2>3. CASE m = n /\ u \in came
        <3>1. u \notin submitted[n] /\ ~(delivered[n][u] > 0)
            BY <1>2, <2>3 DEF IInv, Remembered
        <3>2. delivered[n][u] \in 0..2
            BY DEF IInv, TypeOK
        <3>3. delivered[n][u] = 0
            BY <3>1, <3>2
        <3> QED BY <2>3, <3>1, <3>3
    <2> QED BY <2>2, <2>3
<1> QED BY <1>1, <1>3, <1>4

(* Nor do the steps that leave the updates alone. *)
LEMMA HistoryKeeps ==
    ASSUME IInv, UNCHANGED <<service, history>>
    PROVE  ListsApart' /\ Remembered' /\ DeliveredOnce'
BY DEF IInv, ListsApart, Remembered, DeliveredOnce, IsNew, IsActive, IsExpired, service, history

-----------------------------------------------------------------------------
(* Messages *)

Channels == [Nodes -> Seq(Messages)]

(* A message sent, to a node that reads it or not *)
LEMMA SendingTyped ==
    ASSUME NEW q \in Channels, NEW to \in Nodes, NEW m \in Messages
    PROVE  Sent(q, to, m) \in Channels
<1>1. Append(q[to], m) \in Seq(Messages)
    BY AppendProperties DEF Channels
<1> QED BY <1>1 DEF Sent, Channels

(* A message taken from a channel, or lost *)
LEMMA TakingTyped ==
    ASSUME NEW q \in Channels, NEW n \in Nodes, NEW i \in DOMAIN q[n]
    PROVE  /\ q[n][i] \in Messages
           /\ [q EXCEPT ![n] = RemoveAt(@, i)] \in Channels
<1>1. q[n] \in Seq(Messages)
    BY DEF Channels
<1>2. RemoveAt(q[n], i) \in Seq(Messages)
    BY <1>1, RemovingOne
<1> QED BY <1>1, <1>2 DEF Channels

(* A channel whose last messages are not read *)
LEMMA CuttingTyped ==
    ASSUME NEW q \in Channels, NEW n \in Nodes, NEW h \in Prefixes(q[n])
    PROVE  [q EXCEPT ![n] = h] \in Channels
<1>1. q[n] \in Seq(Messages)
    BY DEF Channels
<1>2. PICK l \in 0..Len(q[n]) : h = SubSeq(q[n], 1, l)
    BY DEF Prefixes
<1>3. h \in Seq(Messages)
    BY <1>1, <1>2, SubSeqProperties
<1> QED BY <1>3 DEF Channels

(* The digests of active updates are updates. *)
LEMMA DigestsTyped ==
    ASSUME NEW a \in Seq(Actives)
    PROVE  Digests(a) \in SUBSET Updates
<1>1. \A x \in Actives : x.digest \in Updates
    BY DEF Actives
<1> QED BY <1>1 DEF Digests

-----------------------------------------------------------------------------
(* The invariant *)

(* At the start nothing is known to any node. *)
LEMMA InitInvariant == Init => IInv
<1> SUFFICES ASSUME Init PROVE IInv
    OBVIOUS
<1>1. \A n \in Nodes :
        /\ active[n] = << >> /\ removed[n] = << >> /\ submitted[n] = {} /\ forgotten[n] = {}
        /\ \A u \in Updates : delivered[n][u] = 0
    BY DEF Init
<1>2. Digests(<< >>) = {} /\ Range(<< >>) = {} /\ Len(<< >>) = 0
    BY DEF Digests, Range
<1>3. TypeOK
    <2>1. \A n \in Nodes : Len(removed[n]) = 0
        BY <1>1, <1>2
    <2>2. \A n \in Nodes : ~(Len(removed[n]) > MaxRemoved)
        BY <2>1, RemovedAssumption
    <2>3. << >> \in Seq(Actives) /\ << >> \in Seq(Updates) /\ << >> \in Seq(Messages)
        OBVIOUS
    <2> QED BY <2>2, <2>3, LossesAssumption DEF Init, TypeOK, Actives
<1>4. ListsApart
    BY <1>1, <1>2 DEF ListsApart, Distinct, IsInjective
<1>5. Remembered
    BY <1>1 DEF Remembered
<1>6. DeliveredOnce
    BY <1>1 DEF DeliveredOnce
<1> QED BY <1>3, <1>4, <1>5, <1>6 DEF IInv

(* What the invariant says of one node *)
LEMMA Knowns ==
    ASSUME IInv, NEW n \in Nodes
    PROVE  /\ TypeOK /\ ListsApart /\ active \in [Nodes -> Seq(Actives)]
           /\ active[n] \in Seq(Actives) /\ Len(active[n]) \in Nat
           /\ Distinct(active[n]) /\ Digests(active[n]) \cap Range(removed[n]) = {}
<1>1. TypeOK /\ ListsApart
    BY DEF IInv
<1>2. active \in [Nodes -> Seq(Actives)]
    BY <1>1 DEF TypeOK, Actives
<1>3. active[n] \in Seq(Actives) /\ Len(active[n]) \in Nat
    BY <1>2
<1> QED BY <1>1, <1>2, <1>3 DEF ListsApart

(* An update that becomes active *)
LEMMA FreshTyped ==
    ASSUME config \in Configs, NEW u \in Updates
    PROVE  Fresh(u) \in Actives /\ Fresh(u).digest = u
<1>1. config.limit \in Nat
    BY ConfigsAssumption
<1> QED BY <1>1 DEF Fresh, Actives

(* submit: the update is new, so it was neither delivered nor submitted. *)
LEMMA SubmitKeeps ==
    ASSUME IInv, NEW n \in Nodes, NEW u \in Updates, Submit(n, u)
    PROVE  IInv'
<1> DEFINE f == Fresh(u)
           b == Append(active[n], f)
<1>0. /\ TypeOK /\ ListsApart /\ active \in [Nodes -> Seq(Actives)]
      /\ active[n] \in Seq(Actives) /\ Len(active[n]) \in Nat
    BY Knowns
<1>1. f \in Actives /\ f.digest = u
    BY <1>0, FreshTyped DEF TypeOK
<1>2. /\ b \in Seq(Actives) /\ Len(b) = Len(active[n]) + 1
      /\ \A i \in 1..Len(active[n]) : b[i] = active[n][i]
      /\ b[Len(active[n]) + 1] = f
    BY <1>0, <1>1, AppendProperties
<1> HIDE DEF b, f
<1>3. DOMAIN b = 1..(Len(active[n]) + 1) /\ DOMAIN active[n] = 1..Len(active[n])
    BY <1>0, <1>2
<1>4. Digests(b) = Digests(active[n]) \cup {u}
    <2>1. Digests(b) \subseteq Digests(active[n]) \cup {u}
        <3>1. ASSUME NEW i \in DOMAIN b PROVE b[i].digest \in Digests(active[n]) \cup {u}
            <4>1. CASE i = Len(active[n]) + 1
                BY <1>1, <1>2, <4>1
            <4>2. CASE i \in 1..Len(active[n])
                BY <1>2, <1>3, <4>2 DEF Digests
            <4> QED BY <1>0, <1>3, <4>1, <4>2
        <3> QED BY <3>1 DEF Digests
    <2>2. u \in Digests(b)
        <3>1. Len(active[n]) + 1 \in DOMAIN b
            BY <1>0, <1>3
        <3> QED BY <1>1, <1>2, <3>1 DEF Digests
    <2>3. Digests(active[n]) \subseteq Digests(b)
        <3>1. ASSUME NEW i \in DOMAIN active[n] PROVE active[n][i].digest \in Digests(b)
            <4>1. i \in DOMAIN b /\ b[i] = active[n][i]
                BY <1>0, <1>2, <1>3
            <4> QED BY <4>1 DEF Digests
        <3> QED BY <3>1 DEF Digests
    <2> QED BY <2>1, <2>2, <2>3
<1>5. u \notin Digests(active[n]) /\ u \notin Range(removed[n])
    BY DEF Submit, IsNew, IsActive, IsExpired
<1>6. Distinct(b)
    <2>1. SUFFICES ASSUME NEW i \in DOMAIN b, NEW j \in DOMAIN b, b[i].digest = b[j].digest
                   PROVE  i = j
        BY DEF Distinct
    <2>2. \A l \in 1..Len(active[n]) : b[l].digest # u
        BY <1>2, <1>3, <1>5 DEF Digests
    <2>3. CASE i \in 1..Len(active[n]) /\ j \in 1..Len(active[n])
        <3>1. active[n][i].digest = active[n][j].digest
            BY <1>2, <2>1, <2>3
        <3> QED BY <1>0, <1>3, <2>3, <3>1 DEF ListsApart, Distinct
    <2>4. CASE i = Len(active[n]) + 1 \/ j = Len(active[n]) + 1
        BY <1>0, <1>1, <1>2, <1>3, <2>1, <2>2, <2>4
    <2> QED BY <1>0, <1>3, <2>3, <2>4
<1>7. active' = [active EXCEPT ![n] = b] /\ UNCHANGED <<removed, forgotten>>
    BY DEF Submit, b, f
<1>8. Cleared(n, b)
    <2>1. active'[n] = b /\ removed'[n] = removed[n] /\ active' \in [Nodes -> Seq(Actives)]
        BY <1>0, <1>2, <1>7
    <2>2. Digests(b) \cap Range(removed[n]) = {}
        BY <1>0, <1>4, <1>5 DEF ListsApart
    <2> QED BY <1>0, <1>6, <1>7, <2>1, <2>2 DEF Cleared, TypeOK, ListsApart
<1>9. /\ submitted' = [submitted EXCEPT ![n] = @ \cup {u}] /\ UNCHANGED delivered
      /\ submitted \in [Nodes -> SUBSET Updates]
    BY <1>0 DEF Submit, TypeOK
<1>10. /\ {u} \in SUBSET Updates /\ {u} \subseteq Digests(b) /\ \A v \in {u} : IsNew(n, v)
       /\ \A m \in Nodes : \A v \in Updates :
             m # n \/ v \notin {u} =>
                /\ v \in submitted'[m] <=> v \in submitted[m]
                /\ delivered'[m][v] = delivered[m][v]
       /\ \A v \in {u} :
             v \notin submitted[n] /\ delivered[n][v] = 0 =>
                delivered'[n][v] + (IF v \in submitted'[n] THEN 1 ELSE 0) <= 1
    BY <1>4, <1>9 DEF Submit
<1>11. Digests(active[n]) \subseteq Digests(b)
    BY <1>4
<1>12. ListsApart' /\ Remembered' /\ DeliveredOnce'
    <2> DEFINE came == {u}
    <2>1. came \in SUBSET Updates /\ came \subseteq Digests(b) /\ \A v \in came : IsNew(n, v)
        BY <1>10
    <2>2. \A m \in Nodes : \A v \in Updates :
              m # n \/ v \notin came =>
                 /\ v \in submitted'[m] <=> v \in submitted[m]
                 /\ delivered'[m][v] = delivered[m][v]
        BY <1>10
    <2>3. \A v \in came :
              v \notin submitted[n] /\ delivered[n][v] = 0 =>
                 delivered'[n][v] + (IF v \in submitted'[n] THEN 1 ELSE 0) <= 1
        BY <1>10
    <2> HIDE DEF came
    <2> QED BY <1>8, <1>11, <2>1, <2>2, <2>3, ServiceKeeps
<1>13. TypeOK'
    <2>1. removed' = removed /\ UNCHANGED <<config, headers, contents, phase, gossiping, losses>>
        BY DEF Submit, channels
    <2>2. submitted' \in [Nodes -> SUBSET Updates]
        BY <1>9
    <2>3. active' \in [Nodes -> Seq(Actives)]
        BY <1>8 DEF Cleared
    <2> QED BY <1>0, <1>7, <1>9, <2>1, <2>2, <2>3 DEF TypeOK, Actives
<1> QED BY <1>12, <1>13 DEF IInv

(* The parts of TypeOK *)
ServiceTyped ==
    /\ active \in [Nodes -> Seq([digest : Updates, left : 0..config.limit])]
    /\ removed \in [Nodes -> Seq(Updates)]
    /\ \A n \in Nodes : Len(removed[n]) > MaxRemoved => Len(removed[n]) + Forget <= Cardinality(Updates)
    /\ forgotten \in [Nodes -> SUBSET Updates]

(* What clear_expired leaves has its types. *)
LEMMA ClearedTyped ==
    ASSUME TypeOK, NEW n \in Nodes, NEW a, Cleared(n, a), UNCHANGED config
    PROVE  ServiceTyped'
<1>1. active' \in [Nodes -> Seq([digest : Updates, left : 0..config'.limit])]
    BY DEF Cleared, Actives
<1>2. ASSUME NEW m \in Nodes, Len(removed'[m]) > MaxRemoved
      PROVE  Len(removed'[m]) + Forget <= Cardinality(Updates)
    <2>1. CASE m = n
        BY <1>2, <2>1 DEF Cleared
    <2>2. CASE m # n
        BY <1>2, <2>2 DEF Cleared, TypeOK
    <2> QED BY <2>1, <2>2
<1> QED BY <1>1, <1>2 DEF Cleared, ServiceTyped

(* A push is counted for each active update; they stay what they are. *)
LEMMA CountPushTyped ==
    ASSUME config \in Configs, NEW a \in Seq(Actives), Distinct(a)
    PROVE  /\ CountPush(a) \in Seq(Actives) /\ Distinct(CountPush(a))
           /\ Digests(CountPush(a)) = Digests(a)
           /\ DOMAIN CountPush(a) = DOMAIN a
           /\ \A i \in DOMAIN a : CountPush(a)[i].digest = a[i].digest
<1> DEFINE c == CountPush(a)
<1>0. config.limit \in Nat /\ Len(a) \in Nat /\ DOMAIN a = 1..Len(a)
    BY ConfigsAssumption
<1>1. DOMAIN c = DOMAIN a
    BY DEF CountPush
<1>2. ASSUME NEW i \in DOMAIN a PROVE c[i] \in Actives /\ c[i].digest = a[i].digest
    <2>1. a[i] \in Actives
        OBVIOUS
    <2>2. c[i] = [a[i] EXCEPT !.left = IF @ > 0 THEN @ - 1 ELSE 0]
        BY DEF CountPush
    <2> QED BY <1>0, <2>1, <2>2 DEF Actives
<1>3. c \in Seq(Actives)
    <2>1. c \in [1..Len(a) -> Actives]
        BY <1>0, <1>2 DEF CountPush
    <2> QED BY <1>0, <2>1
<1> HIDE DEF c
<1>4. Distinct(c)
    BY <1>1, <1>2 DEF Distinct
<1>5. Digests(c) = Digests(a)
    BY <1>1, <1>2 DEF Digests
<1> QED BY <1>1, <1>2, <1>3, <1>4, <1>5 DEF c

(* A round: pushes are counted, updates expire, a message leaves. *)
LEMMA RoundKeeps ==
    ASSUME IInv, NEW n \in Nodes, NEW p \in Nodes, Round(n, p)
    PROVE  IInv'
<1> DEFINE pushes == config.push /\ active[n] # << >>
           told == IF pushes THEN Digests(active[n]) ELSE {}
<1>0. /\ TypeOK /\ ListsApart /\ active \in [Nodes -> Seq(Actives)]
      /\ active[n] \in Seq(Actives)
      /\ Distinct(active[n]) /\ Digests(active[n]) \cap Range(removed[n]) = {}
    BY Knowns
<1>1. config \in Configs /\ headers \in Channels
    BY <1>0 DEF TypeOK, Channels
<1>2. /\ IF pushes THEN ClearExpired(n, CountPush(active[n])) ELSE UNCHANGED <<service, forgotten>>
      /\ headers' = Sent(headers, p, Message(n, "request", told))
      /\ gossiping' = [gossiping EXCEPT ![n] = phase[n] = "running"]
      /\ UNCHANGED <<config, contents, phase, losses, submitted, delivered>>
    BY DEF Round
<1> HIDE DEF pushes
<1>3. PICK a : Cleared(n, a) /\ Digests(a) = Digests(active[n])
    <2>1. CASE pushes
        <3>1. /\ CountPush(active[n]) \in Seq(Actives) /\ Distinct(CountPush(active[n]))
              /\ Digests(CountPush(active[n])) = Digests(active[n])
            BY <1>0, <1>1, CountPushTyped
        <3>2. Cleared(n, CountPush(active[n]))
            BY <1>0, <1>2, <2>1, <3>1, ClearExpiredClears
        <3> QED BY <3>1, <3>2
    <2>2. CASE ~pushes
        <3>1. UNCHANGED <<active, removed, forgotten>>
            BY <1>2, <2>2 DEF service
        <3> QED BY <1>0, <3>1, UnchangedClears
    <2> QED BY <2>1, <2>2
<1>4. ListsApart' /\ Remembered' /\ DeliveredOnce'
    <2> DEFINE came == {}
    <2>1. came \in SUBSET Updates /\ came \subseteq Digests(a) /\ \A v \in came : IsNew(n, v)
        OBVIOUS
    <2>2. \A m \in Nodes : \A v \in Updates :
              m # n \/ v \notin came =>
                 /\ v \in submitted'[m] <=> v \in submitted[m]
                 /\ delivered'[m][v] = delivered[m][v]
        BY <1>2
    <2>3. \A v \in came :
              v \notin submitted[n] /\ delivered[n][v] = 0 =>
                 delivered'[n][v] + (IF v \in submitted'[n] THEN 1 ELSE 0) <= 1
        OBVIOUS
    <2> HIDE DEF came
    <2> QED BY <1>3, <2>1, <2>2, <2>3, ServiceKeeps
<1>5. ServiceTyped'
    BY <1>0, <1>2, <1>3, ClearedTyped
<1>6. headers' \in Channels
    <2>1. told \in SUBSET Updates
        BY <1>0, DigestsTyped
    <2>2. Message(n, "request", told) \in Messages
        BY <2>1 DEF Message, Messages
    <2> QED BY <1>1, <1>2, <2>2, SendingTyped
<1>7. gossiping' \in [Nodes -> BOOLEAN]
    BY <1>0, <1>2 DEF TypeOK
<1>8. TypeOK'
    BY <1>0, <1>2, <1>5, <1>6, <1>7 DEF TypeOK, ServiceTyped, Channels
<1> QED BY <1>4, <1>8 DEF IInv

(* Headers change messages only ... *)
LEMMA HandleHeaderKeeps ==
    ASSUME IInv, NEW n \in Nodes, HandleHeader(n)
    PROVE  IInv'
<1>0. TypeOK /\ active[n] \in Seq(Actives) /\ headers \in Channels /\ contents \in Channels
    BY Knowns DEF TypeOK, Channels
<1>1. PICK i \in DOMAIN headers[n] :
        LET m == headers[n][i]
            wanted == Wanted(n, m)
            rest == [headers EXCEPT ![n] = RemoveAt(@, i)]
        IN
        /\ headers' = IF AnswersHeaders(n, m)
                      THEN Sent(rest, m.from, Message(n, "response", Digests(active[n])))
                      ELSE rest
        /\ contents' = IF wanted # {}
                       THEN Sent(contents, m.from, Message(n, "request", wanted))
                       ELSE contents
        /\ UNCHANGED <<config, service, phase, gossiping, losses, history>>
    BY Zenon DEF HandleHeader
<1> DEFINE m == headers[n][i]
           wanted == Wanted(n, m)
           rest == [headers EXCEPT ![n] = RemoveAt(@, i)]
<1>2. m \in Messages /\ rest \in Channels
    BY <1>0, TakingTyped
<1> HIDE DEF m, rest
<1>3. m.from \in Nodes /\ wanted \in SUBSET Updates
    BY <1>2 DEF Messages, Wanted
<1> HIDE DEF wanted
<1>4. Message(n, "response", Digests(active[n])) \in Messages /\ Message(n, "request", wanted) \in Messages
    BY <1>0, <1>3, DigestsTyped DEF Message, Messages
<1>5. /\ headers' = IF AnswersHeaders(n, m)
                    THEN Sent(rest, m.from, Message(n, "response", Digests(active[n])))
                    ELSE rest
      /\ contents' = IF wanted # {}
                     THEN Sent(contents, m.from, Message(n, "request", wanted))
                     ELSE contents
    BY <1>1 DEF m, wanted, rest
<1>6. headers' \in Channels /\ contents' \in Channels
    BY <1>0, <1>2, <1>3, <1>4, <1>5, SendingTyped
<1>7. UNCHANGED <<config, service, phase, gossiping, losses, history>>
    BY <1>1
<1>8. TypeOK'
    BY <1>0, <1>6, <1>7 DEF TypeOK, Channels, service, history
<1> QED BY <1>7, <1>8, HistoryKeeps DEF IInv

(* ... and so do requests for contents. *)
LEMMA ServeContentKeeps ==
    ASSUME IInv, NEW n \in Nodes, ServeContent(n)
    PROVE  IInv'
<1>0. TypeOK /\ headers \in Channels /\ contents \in Channels
    BY Knowns DEF TypeOK, Channels
<1>1. PICK i \in DOMAIN contents[n] :
        LET m == contents[n][i]
            held == {u \in m.digests : IsActive(n, u)}
            rest == [contents EXCEPT ![n] = RemoveAt(@, i)]
        IN
        /\ m.type = "request"
        /\ contents' = IF held # {} THEN Sent(rest, m.from, Message(n, "response", held)) ELSE rest
        /\ UNCHANGED <<config, service, headers, phase, gossiping, losses, history>>
    BY Zenon DEF ServeContent
<1> DEFINE m == contents[n][i]
           held == {u \in m.digests : IsActive(n, u)}
           rest == [contents EXCEPT ![n] = RemoveAt(@, i)]
<1>2. m \in Messages /\ rest \in Channels
    BY <1>0, TakingTyped
<1> HIDE DEF m, rest
<1>3. m.from \in Nodes /\ held \in SUBSET Updates
    BY <1>2 DEF Messages
<1> HIDE DEF held
<1>4. Message(n, "response", held) \in Messages
    BY <1>3 DEF Message, Messages
<1>5. contents' = IF held # {} THEN Sent(rest, m.from, Message(n, "response", held)) ELSE rest
    BY <1>1 DEF m, held, rest
<1>6. contents' \in Channels
    BY <1>2, <1>3, <1>4, <1>5, SendingTyped
<1>7. UNCHANGED <<config, service, headers, phase, gossiping, losses, history>>
    BY <1>1
<1>8. TypeOK'
    BY <1>0, <1>6, <1>7 DEF TypeOK, Channels, service, history
<1> QED BY <1>7, <1>8, HistoryKeeps DEF IInv

(* New updates are put behind the active ones. *)
LEMMA JoinedTyped ==
    ASSUME config \in Configs, NEW a \in Seq(Actives), Distinct(a),
           NEW s \in Seq(Updates), IsInjective(s), Digests(a) \cap Range(s) = {}
    PROVE  LET fresh == [k \in DOMAIN s |-> Fresh(s[k])]
           IN /\ a \o fresh \in Seq(Actives) /\ Distinct(a \o fresh)
              /\ Digests(a \o fresh) = Digests(a) \cup Range(s)
<1> DEFINE fresh == [k \in DOMAIN s |-> Fresh(s[k])]
           b == a \o fresh
<1>1. Len(a) \in Nat /\ Len(s) \in Nat /\ DOMAIN a = 1..Len(a) /\ DOMAIN s = 1..Len(s)
    OBVIOUS
<1>2. \A k \in DOMAIN s : fresh[k] \in Actives /\ fresh[k].digest = s[k]
    <2>1. \A k \in DOMAIN s : s[k] \in Updates /\ fresh[k] = Fresh(s[k])
        OBVIOUS
    <2> QED BY <2>1, FreshTyped
<1>3. fresh \in Seq(Actives) /\ Len(fresh) = Len(s)
    <2>1. fresh \in [1..Len(s) -> Actives]
        BY <1>1, <1>2
    <2> QED BY <1>1, <2>1
<1> HIDE DEF fresh
<1>4. /\ b \in Seq(Actives) /\ Len(b) = Len(a) + Len(s)
      /\ \A i \in 1..(Len(a) + Len(s)) : b[i] = IF i <= Len(a) THEN a[i] ELSE fresh[i - Len(a)]
    <2>1. a \in Seq(Actives) /\ fresh \in Seq(Actives)
        BY <1>3
    <2>2. /\ b \in Seq(Actives) /\ Len(b) = Len(a) + Len(fresh)
          /\ \A i \in 1..(Len(a) + Len(fresh)) : b[i] = IF i <= Len(a) THEN a[i] ELSE fresh[i - Len(a)]
        BY ONLY <2>1, ConcatProperties
    <2> QED BY <1>3, <2>2
<1> HIDE DEF b
<1>5. DOMAIN b = 1..(Len(a) + Len(s))
    BY <1>4
<1>6. \A i \in 1..Len(a) : i \in DOMAIN b /\ b[i] = a[i]
    BY <1>1, <1>4, <1>5
<1>7. \A k \in 1..Len(s) : Len(a) + k \in DOMAIN b /\ b[Len(a) + k].digest = s[k]
    <2>1. SUFFICES ASSUME NEW k \in 1..Len(s)
                   PROVE  Len(a) + k \in DOMAIN b /\ b[Len(a) + k].digest = s[k]
        OBVIOUS
    <2>2. Len(a) + k \in 1..(Len(a) + Len(s)) /\ ~(Len(a) + k <= Len(a)) /\ (Len(a) + k) - Len(a) = k
        BY <1>1
    <2>3. b[Len(a) + k] = fresh[k]
        BY <1>4, <2>2
    <2> QED BY <1>1, <1>2, <1>5, <2>2, <2>3
<1>8. \A i \in DOMAIN b : i \in 1..Len(a) \/ \E k \in 1..Len(s) : i = Len(a) + k
    <2>1. SUFFICES ASSUME NEW i \in DOMAIN b, i \notin 1..Len(a)
                   PROVE  \E k \in 1..Len(s) : i = Len(a) + k
        OBVIOUS
    <2>2. i - Len(a) \in 1..Len(s) /\ i = Len(a) + (i - Len(a))
        BY <1>1, <1>5, <2>1
    <2> QED BY <2>2
<1>9. \A i \in 1..Len(a), k \in 1..Len(s) : a[i].digest # s[k]
    BY <1>1 DEF Digests, Range
<1>10. Distinct(b)
    <2>1. SUFFICES ASSUME NEW i \in DOMAIN b, NEW j \in DOMAIN b, b[i].digest = b[j].digest
                   PROVE  i = j
        BY DEF Distinct
    <2>2. CASE i \in 1..Len(a) /\ j \in 1..Len(a)
        BY <1>1, <1>6, <2>1, <2>2 DEF Distinct
    <2>3. CASE i \in 1..Len(a) /\ j \notin 1..Len(a)
        BY <1>6, <1>7, <1>8, <1>9, <2>1, <2>3
    <2>4. CASE i \notin 1..Len(a) /\ j \in 1..Len(a)
        BY <1>6, <1>7, <1>8, <1>9, <2>1, <2>4
    <2>5. CASE i \notin 1..Len(a) /\ j \notin 1..Len(a)
        <3>1. PICK k \in 1..Len(s), l \in 1..Len(s) : i = Len(a) + k /\ j = Len(a) + l
            BY <1>8, <2>5
        <3>2. s[k] = s[l]
            BY <1>7, <2>1, <3>1
        <3> QED BY <1>1, <3>1, <3>2 DEF IsInjective
    <2> QED BY <2>2, <2>3, <2>4, <2>5
<1>11. Digests(b) = Digests(a) \cup Range(s)
    <2>1. ASSUME NEW i \in DOMAIN b PROVE b[i].digest \in Digests(a) \cup Range(s)
        <3>1. CASE i \in 1..Len(a)
            BY <1>1, <1>6, <3>1 DEF Digests
        <3>2. CASE \E k \in 1..Len(s) : i = Len(a) + k
            BY <1>1, <1>7, <3>2 DEF Range
        <3> QED BY <1>8, <3>1, <3>2
    <2>2. Digests(a) \subseteq Digests(b)
        <3>1. ASSUME NEW i \in 1..Len(a) PROVE a[i].digest \in Digests(b)
            BY <1>6 DEF Digests
        <3> QED BY <1>1, <3>1 DEF Digests
    <2>3. Range(s) \subseteq Digests(b)
        <3>1. ASSUME NEW k \in 1..Len(s) PROVE s[k] \in Digests(b)
            BY <1>7 DEF Digests
        <3> QED BY <1>1, <3>1 DEF Range
    <2> QED BY <2>1, <2>2, <2>3 DEF Digests
<1> QED BY <1>4, <1>10, <1>11 DEF b, fresh

(* Contents: those that are new become active and are delivered. *)
LEMMA TakeContentKeeps ==
    ASSUME IInv, NEW n \in Nodes, TakeContent(n)
    PROVE  IInv'
<1>0. /\ TypeOK /\ ListsApart /\ active[n] \in Seq(Actives) /\ contents \in Channels
      /\ config \in Configs /\ Distinct(active[n]) /\ Digests(active[n]) \cap Range(removed[n]) = {}
    BY Knowns DEF TypeOK, Channels
<1>1. PICK i \in DOMAIN contents[n] :
        LET m == contents[n][i]
            new == {u \in m.digests : IsNew(n, u)}
        IN
        /\ m.type = "response"
        /\ contents' = [contents EXCEPT ![n] = RemoveAt(@, i)]
        /\ \E s \in SetToSeqs(new) :
              ClearExpired(n, active[n] \o [k \in DOMAIN s |-> Fresh(s[k])])
        /\ delivered' = IF phase[n] = "running"
                        THEN [delivered EXCEPT ![n] =
                                 [u \in Updates |-> IF u \in new /\ @[u] < 2 THEN @[u] + 1 ELSE @[u]]]
                        ELSE delivered
        /\ UNCHANGED <<config, headers, phase, gossiping, losses, submitted>>
    BY Zenon DEF TakeContent
<1> DEFINE new == {u \in contents[n][i].digests : IsNew(n, u)}
<1>2. contents[n][i] \in Messages /\ contents' \in Channels
    BY <1>0, <1>1, TakingTyped
<1>3. new \in SUBSET Updates /\ \A u \in new : IsNew(n, u)
    BY <1>2 DEF Messages
<1>4. /\ delivered' = IF phase[n] = "running"
                      THEN [delivered EXCEPT ![n] =
                               [u \in Updates |-> IF u \in new /\ @[u] < 2 THEN @[u] + 1 ELSE @[u]]]
                      ELSE delivered
      /\ UNCHANGED <<config, headers, phase, gossiping, losses, submitted>>
    BY <1>1
<1>5. PICK s \in SetToSeqs(new) : ClearExpired(n, active[n] \o [k \in DOMAIN s |-> Fresh(s[k])])
    BY <1>1
<1> HIDE DEF new
<1>6. IsFiniteSet(new)
    BY <1>3, UpdatesAssumption, FS_Subset
<1>7. s \in Seq(Updates) /\ Range(s) = new /\ IsInjective(s)
    <2>1. s \in Seq(new) /\ Range(s) = new /\ IsInjective(s)
        BY <1>6, ListsAll
    <2> QED BY <1>3, <2>1, SeqMonotonic
<1>8. Digests(active[n]) \cap Range(s) = {} /\ Range(removed[n]) \cap Range(s) = {}
    BY <1>3, <1>7 DEF IsNew, IsActive, IsExpired
<1> DEFINE a == active[n] \o [k \in DOMAIN s |-> Fresh(s[k])]
<1>9. a \in Seq(Actives) /\ Distinct(a) /\ Digests(a) = Digests(active[n]) \cup new
    BY <1>0, <1>7, <1>8, JoinedTyped
<1>10. ClearExpired(n, a)
    BY <1>5
<1> HIDE DEF a
<1>11. Digests(a) \cap Range(removed[n]) = {}
    BY <1>0, <1>7, <1>8, <1>9
<1>12. Cleared(n, a)
    BY <1>0, <1>9, <1>10, <1>11, ClearExpiredClears
<1>13. delivered \in [Nodes -> [Updates -> 0..2]]
    BY <1>0 DEF TypeOK
<1>14. delivered' \in [Nodes -> [Updates -> 0..2]]
    <2>1. \A u \in Updates : delivered[n][u] \in 0..2
        BY <1>13
    <2>2. [u \in Updates |-> IF u \in new /\ delivered[n][u] < 2 THEN delivered[n][u] + 1
                             ELSE delivered[n][u]] \in [Updates -> 0..2]
        BY <2>1
    <2> QED BY <1>4, <1>13, <2>2
<1>15. \A m \in Nodes : \A u \in Updates :
          m # n \/ u \notin new =>
             /\ u \in submitted'[m] <=> u \in submitted[m]
             /\ delivered'[m][u] = delivered[m][u]
    BY <1>4, <1>13
<1>16. \A u \in new :
          u \notin submitted[n] /\ delivered[n][u] = 0 =>
             delivered'[n][u] + (IF u \in submitted'[n] THEN 1 ELSE 0) <= 1
    <2>1. SUFFICES ASSUME NEW u \in new, u \notin submitted[n], delivered[n][u] = 0
                   PROVE  delivered'[n][u] <= 1
        <3>1. \A u \in new : delivered'[n][u] \in 0..2
            BY <1>3, <1>14
        <3> QED BY <1>4, <3>1
    <2>2. delivered'[n][u] = 1 \/ delivered'[n][u] = 0
        BY <1>3, <1>4, <1>13, <2>1
    <2> QED BY <2>2
<1>17. new \subseteq Digests(a) /\ Digests(active[n]) \subseteq Digests(a)
    BY <1>9
<1>18. ListsApart' /\ Remembered' /\ DeliveredOnce'
    BY <1>3, <1>12, <1>15, <1>16, <1>17, ServiceKeeps
<1>19. ServiceTyped'
    BY <1>0, <1>4, <1>12, ClearedTyped
<1>20. TypeOK'
    BY <1>0, <1>2, <1>4, <1>14, <1>19 DEF TypeOK, ServiceTyped, Channels
<1> QED BY <1>18, <1>20 DEF IInv

(* A lost message changes nothing else. *)
LEMMA LoseKeeps ==
    ASSUME IInv, NEW n \in Nodes, Lose(n)
    PROVE  IInv'
<1>0. TypeOK /\ headers \in Channels /\ contents \in Channels
    BY Knowns DEF TypeOK, Channels
<1>1. losses < MaxLosses /\ losses' = losses + 1 /\ UNCHANGED <<config, service, phase, gossiping, history>>
    BY DEF Lose
<1>2. headers' \in Channels /\ contents' \in Channels
    <2>1. CASE (\E i \in DOMAIN headers[n] : headers' = [headers EXCEPT ![n] = RemoveAt(@, i)])
                  /\ UNCHANGED contents
        BY <1>0, <2>1, TakingTyped
    <2>2. CASE (\E i \in DOMAIN contents[n] : contents' = [contents EXCEPT ![n] = RemoveAt(@, i)])
                  /\ UNCHANGED headers
        BY <1>0, <2>2, TakingTyped
    <2> QED BY <2>1, <2>2 DEF Lose
<1>3. losses' \in 0..MaxLosses
    BY <1>0, <1>1, LossesAssumption DEF TypeOK
<1>4. TypeOK'
    BY <1>0, <1>1, <1>2, <1>3 DEF TypeOK, Channels, service, history
<1> QED BY <1>1, <1>4, HistoryKeeps DEF IInv

(* Nor does a shutdown: the updates stay as they are. *)
LEMMA StopKeeps ==
    ASSUME IInv, NEW n \in Nodes, Shutdown(n) \/ Stop(n)
    PROVE  IInv'
<1>0. TypeOK /\ headers \in Channels /\ contents \in Channels
    BY Knowns DEF TypeOK, Channels
<1>1. UNCHANGED <<config, service, losses, history>>
    BY DEF Shutdown, Stop, CloseListener, LeaveGossip, JoinThreads
<1>2. headers' \in Channels /\ contents' \in Channels
    <2>1. CASE CloseListener(n)
        <3>1. PICK h \in Prefixes(headers[n]), c \in Prefixes(contents[n]) :
                  /\ headers' = [headers EXCEPT ![n] = h]
                  /\ contents' = [contents EXCEPT ![n] = c]
            BY <2>1 DEF CloseListener
        <3> QED BY <1>0, <3>1, CuttingTyped
    <2>2. CASE ~CloseListener(n)
        BY <1>0, <2>2 DEF Shutdown, Stop, LeaveGossip, JoinThreads, channels
    <2> QED BY <2>1, <2>2
<1>3. phase' \in [Nodes -> {"running", "stopping", "closed", "stopped"}] /\ gossiping' \in [Nodes -> BOOLEAN]
    BY <1>0 DEF TypeOK, Shutdown, Stop, CloseListener, LeaveGossip, JoinThreads
<1>4. TypeOK'
    BY <1>0, <1>1, <1>2, <1>3 DEF TypeOK, Channels, service, history
<1> QED BY <1>1, <1>4, HistoryKeeps DEF IInv

(* Each step keeps the invariant ... *)
LEMMA StepInvariant == IInv /\ [Next]_vars => IInv'
<1> SUFFICES ASSUME IInv, [Next]_vars PROVE IInv'
    OBVIOUS
<1>1. ASSUME NEW n \in Nodes, NEW u \in Updates, Submit(n, u) PROVE IInv'
    BY <1>1, SubmitKeeps
<1>2. ASSUME NEW n \in Nodes, NEW p \in Nodes, Round(n, p) PROVE IInv'
    BY <1>2, RoundKeeps
<1>3. ASSUME NEW n \in Nodes, Handle(n) PROVE IInv'
    BY <1>3, HandleHeaderKeeps, ServeContentKeeps, TakeContentKeeps DEF Handle
<1>4. ASSUME NEW n \in Nodes, Lose(n) PROVE IInv'
    BY <1>4, LoseKeeps
<1>5. ASSUME NEW n \in Nodes, Shutdown(n) \/ Stop(n) PROVE IInv'
    BY <1>5, StopKeeps
<1>6. CASE UNCHANGED vars
    <2>1. TypeOK'
        BY <1>6 DEF IInv, TypeOK, vars, service, channels, history
    <2> QED BY <1>6, <2>1, HistoryKeeps DEF IInv, vars
<1> QED BY <1>1, <1>2, <1>3, <1>4, <1>5, <1>6 DEF Next

(* ... so it holds at all times. *)
LEMMA InvariantHolds == Spec => []IInv
BY InitInvariant, StepInvariant, PTL DEF Spec

-----------------------------------------------------------------------------
(* The theorems *)

(* What the nodes hold and send stays what it is meant to be. Of what a node
   remembers it says that the bound is exceeded only with Forget updates left out,
   which bounds it where there are at most MaxRemoved + Forget updates and
   not beyond. *)
THEOREM TypeCorrect == Spec => []TypeOK
<1>1. IInv => TypeOK
    BY DEF IInv
<1> QED BY <1>1, InvariantHolds, PTL

(* on_update is called once for an update, whatever is pushed, asked for,
   answered late or answered twice. *)
THEOREM DeliveredOnceCorrect == Spec => []DeliveredOnce
<1>1. IInv => DeliveredOnce
    BY DEF IInv
<1> QED BY <1>1, InvariantHolds, PTL

(* Expiring moves an update from one list to the other. *)
THEOREM ActiveOrExpiredCorrect == Spec => []ActiveOrExpired
<1>1. ASSUME IInv PROVE ActiveOrExpired
    <2>1. SUFFICES ASSUME NEW n \in Nodes
                   PROVE  /\ Digests(active[n]) \cap Range(removed[n]) = {}
                          /\ Cardinality(Digests(active[n])) = Len(active[n])
                          /\ Cardinality(Range(removed[n])) = Len(removed[n])
        BY DEF ActiveOrExpired
    <2>2. active[n] \in Seq(Actives) /\ Distinct(active[n]) /\ Digests(active[n]) \cap Range(removed[n]) = {}
        BY <1>1, Knowns
    <2>3. removed[n] \in Seq(Updates) /\ IsInjective(removed[n])
        BY <1>1 DEF IInv, TypeOK, ListsApart
    <2> DEFINE d == [i \in 1..Len(active[n]) |-> active[n][i].digest]
    <2>4. DOMAIN active[n] = 1..Len(active[n]) /\ Len(active[n]) \in Nat
        BY <2>2
    <2>5. \A i \in 1..Len(active[n]) : active[n][i].digest \in Updates
        <3>1. \A x \in Actives : x.digest \in Updates
            BY DEF Actives
        <3> QED BY <2>2, <3>1
    <2>6. d \in Seq(Updates) /\ Len(d) = Len(active[n])
        BY <2>4, <2>5
    <2>7. IsInjective(d)
        BY <2>2, <2>4 DEF IsInjective, Distinct
    <2>8. Range(d) = Digests(active[n])
        BY <2>4 DEF Range, Digests
    <2> HIDE DEF d
    <2>9. Cardinality(Range(d)) = Len(d)
        BY <2>6, <2>7, UpdatesAssumption, LengthBound
    <2>10. Cardinality(Range(removed[n])) = Len(removed[n])
        BY <2>3, UpdatesAssumption, LengthBound
    <2> QED BY <2>2, <2>6, <2>8, <2>9, <2>10
<1> QED BY <1>1, InvariantHolds, PTL

-----------------------------------------------------------------------------
(* MostRecent *)

(* What NewestStay says of the active updates b before and c after *)
OldestWent(b, c) ==
    Digests(b) \ Digests(c) # {} =>
        /\ Len(c) = config.limit
        /\ \A i \in DOMAIN b : \A j \in 1..(i - 1) :
              b[j].digest \in Digests(c) => b[i].digest \in Digests(c)

(* a begins with the updates of b. *)
Continues(a, b) ==
    Len(b) <= Len(a) /\ \A i \in DOMAIN b : a[i].digest = b[i].digest

(* What goes is as much as is too much, from the front. *)
LEMMA RecentKeepsNewest ==
    ASSUME config \in Configs, config.expiry = "recent",
           NEW b \in Seq(Actives), NEW a \in Seq(Actives), Distinct(a), Continues(a, b),
           NEW e \in Expired(a)
    PROVE  OldestWent(b, e.kept)
<1> DEFINE x == Excess(a)
           c == SubSeq(a, x + 1, Len(a))
<1>0. /\ config.limit \in Nat /\ Len(a) \in Nat /\ Len(b) \in Nat
      /\ DOMAIN a = 1..Len(a) /\ DOMAIN b = 1..Len(b)
    BY ConfigsAssumption
<1>1. e.kept = c
    BY DEF Expired, Parted
<1>2. x \in 0..Len(a) /\ (x = 0 \/ Len(a) - x = config.limit)
    BY <1>0 DEF Excess
<1>3. /\ Len(c) = Len(a) - x /\ DOMAIN c = 1..(Len(a) - x)
      /\ \A i \in 1..(Len(a) - x) : c[i] = a[x + i] /\ x + i \in DOMAIN a
    BY <1>2, Behind
<1> HIDE DEF c, x
<1>4. \A i \in DOMAIN b : i \in DOMAIN a /\ a[i].digest = b[i].digest
    BY <1>0 DEF Continues
<1>5. ASSUME NEW i \in DOMAIN a, i > x PROVE a[i].digest \in Digests(c)
    <2>1. i - x \in 1..(Len(a) - x) /\ x + (i - x) = i
        BY <1>0, <1>2, <1>5
    <2>2. c[i - x] = a[i]
        BY <1>3, <2>1
    <2> QED BY <1>3, <2>1, <2>2 DEF Digests
<1>6. ASSUME NEW i \in DOMAIN a, a[i].digest \in Digests(c) PROVE i > x
    <2>1. PICK l \in DOMAIN c : c[l].digest = a[i].digest
        BY <1>6 DEF Digests
    <2>2. x + l \in DOMAIN a /\ a[x + l].digest = a[i].digest
        BY <1>3, <2>1
    <2>3. i = x + l
        BY <2>2 DEF Distinct
    <2> QED BY <1>0, <1>2, <1>3, <2>3
<1>7. SUFFICES ASSUME Digests(b) \ Digests(c) # {}
               PROVE  /\ Len(c) = config.limit
                      /\ \A i \in DOMAIN b : \A j \in 1..(i - 1) :
                            b[j].digest \in Digests(c) => b[i].digest \in Digests(c)
    BY <1>1 DEF OldestWent
<1>8. Len(c) = config.limit
    <2>1. PICK i \in DOMAIN b : b[i].digest \notin Digests(c)
        BY <1>7 DEF Digests
    <2>2. ~(i > x)
        BY <1>4, <1>5, <2>1
    <2>3. x # 0
        BY <1>0, <2>2
    <2> QED BY <1>2, <1>3, <2>3
<1>9. ASSUME NEW i \in DOMAIN b, NEW j \in 1..(i - 1), b[j].digest \in Digests(c)
      PROVE  b[i].digest \in Digests(c)
    <2>1. j \in DOMAIN b /\ j < i
        BY <1>0
    <2>2. j > x
        BY <1>4, <1>6, <1>9, <2>1
    <2>3. i > x
        BY <1>0, <1>2, <2>1, <2>2
    <2> QED BY <1>4, <1>5, <2>3
<1> QED BY <1>8, <1>9

(* clear_expired changes the updates of one node. *)
LEMMA ClearExpiredKeepsNewest ==
    ASSUME IInv, config.expiry = "recent", NEW n \in Nodes,
           NEW a \in Seq(Actives), Distinct(a), Continues(a, active[n]), ClearExpired(n, a),
           NEW m \in Nodes
    PROVE  OldestWent(active[m], active'[m])
<1>1. /\ config \in Configs /\ active \in [Nodes -> Seq(Actives)] /\ active[n] \in Seq(Actives)
    BY Knowns DEF TypeOK
<1>2. PICK e \in Expired(a) : active' = [active EXCEPT ![n] = e.kept]
    BY DEF ClearExpired
<1>3. CASE m = n
    BY <1>1, <1>2, <1>3, RecentKeepsNewest
<1>4. CASE m # n
    BY <1>1, <1>2, <1>4 DEF OldestWent
<1> QED BY <1>3, <1>4

(* With MostRecent an update is dropped only for newer ones. *)
THEOREM NewestStayCorrect == Spec => NewestStay
<1>1. ASSUME IInv, [Next]_vars, config.expiry = "recent", NEW m \in Nodes
      PROVE  OldestWent(active[m], active'[m])
    <2>0. \A n \in Nodes : /\ active[n] \in Seq(Actives) /\ Len(active[n]) \in Nat
                          /\ Distinct(active[n]) /\ config \in Configs
        BY <1>1, Knowns DEF TypeOK
    <2>1. CASE UNCHANGED active
        BY <2>1 DEF OldestWent
    <2>2. ASSUME NEW n \in Nodes, NEW u \in Updates, Submit(n, u)
          PROVE  OldestWent(active[m], active'[m])
        <3>1. active' = [active EXCEPT ![n] = Append(@, Fresh(u))] /\ active \in [Nodes -> Seq(Actives)]
            BY <1>1, <2>2, Knowns DEF Submit
        <3>2. CASE m = n
            <4>1. Fresh(u) \in Actives
                BY <2>0, FreshTyped
            <4>2. active'[m] = Append(active[m], Fresh(u))
                BY <3>1, <3>2
            <4>3. /\ Len(active'[m]) = Len(active[m]) + 1 /\ active'[m] \in Seq(Actives)
                  /\ \A i \in 1..Len(active[m]) : active'[m][i] = active[m][i]
                BY <2>0, <4>1, <4>2, AppendProperties
            <4>4. \A i \in DOMAIN active[m] : i \in DOMAIN active'[m] /\ active'[m][i] = active[m][i]
                BY <2>0, <4>3
            <4>5. Digests(active[m]) \subseteq Digests(active'[m])
                BY <4>4 DEF Digests
            <4> QED BY <4>5 DEF OldestWent
        <3>3. CASE m # n
            BY <3>1, <3>3 DEF OldestWent
        <3> QED BY <3>2, <3>3
    <2>3. ASSUME NEW n \in Nodes, NEW p \in Nodes, Round(n, p)
          PROVE  OldestWent(active[m], active'[m])
        <3>1. CASE UNCHANGED active
            BY <2>1, <3>1
        <3>2. CASE ClearExpired(n, CountPush(active[n]))
            <4>1. CountPush(active[n]) \in Seq(Actives) /\ Distinct(CountPush(active[n]))
                BY <2>0, CountPushTyped
            <4>2. Continues(CountPush(active[n]), active[n])
                <5>1. /\ DOMAIN CountPush(active[n]) = DOMAIN active[n]
                      /\ \A i \in DOMAIN active[n] : CountPush(active[n])[i].digest = active[n][i].digest
                    BY <2>0, CountPushTyped
                <5>2. Len(CountPush(active[n])) = Len(active[n])
                    BY <2>0, <4>1, <5>1
                <5> QED BY <2>0, <5>1, <5>2 DEF Continues
            <4> QED BY <1>1, <3>2, <4>1, <4>2, ClearExpiredKeepsNewest
        <3> QED BY <2>3, <3>1, <3>2 DEF Round, service
    <2>4. ASSUME NEW n \in Nodes, TakeContent(n)
          PROVE  OldestWent(active[m], active'[m])
        <3>1. PICK i \in DOMAIN contents[n] :
                \E s \in SetToSeqs({u \in contents[n][i].digests : IsNew(n, u)}) :
                    ClearExpired(n, active[n] \o [k \in DOMAIN s |-> Fresh(s[k])])
            BY <2>4 DEF TakeContent
        <3> DEFINE new == {u \in contents[n][i].digests : IsNew(n, u)}
        <3>2. new \in SUBSET Updates /\ \A u \in new : IsNew(n, u)
            <4>1. contents \in Channels
                BY <1>1 DEF IInv, TypeOK, Channels
            <4>2. contents[n][i] \in Messages
                BY <4>1, TakingTyped
            <4> QED BY <4>2 DEF Messages
        <3>3. PICK s \in SetToSeqs(new) : ClearExpired(n, active[n] \o [k \in DOMAIN s |-> Fresh(s[k])])
            BY <3>1
        <3> HIDE DEF new
        <3>4. IsFiniteSet(new)
            BY <3>2, UpdatesAssumption, FS_Subset
        <3>5. s \in Seq(new) /\ Range(s) = new /\ IsInjective(s)
            BY <3>4, ListsAll
        <3>6. s \in Seq(Updates) /\ Digests(active[n]) \cap Range(s) = {}
            BY <3>2, <3>5, SeqMonotonic DEF IsNew, IsActive
        <3> DEFINE fresh == [k \in DOMAIN s |-> Fresh(s[k])]
                   a == active[n] \o fresh
        <3>7. a \in Seq(Actives) /\ Distinct(a)
            BY <2>0, <3>5, <3>6, JoinedTyped
        <3>8. fresh \in Seq(Actives)
            <4>1. \A k \in 1..Len(s) : Fresh(s[k]) \in Actives
                BY <2>0, <3>6, FreshTyped
            <4>2. DOMAIN s = 1..Len(s) /\ Len(s) \in Nat
                BY <3>6
            <4> QED BY <4>1, <4>2
        <3> HIDE DEF fresh
        <3>9. Continues(a, active[n])
            <4>1. /\ Len(a) = Len(active[n]) + Len(fresh) /\ Len(fresh) \in Nat
                  /\ \A j \in 1..(Len(active[n]) + Len(fresh)) :
                        a[j] = IF j <= Len(active[n]) THEN active[n][j] ELSE fresh[j - Len(active[n])]
                BY <2>0, <3>8, ConcatProperties
            <4>2. \A j \in DOMAIN active[n] : j \in 1..(Len(active[n]) + Len(fresh)) /\ j <= Len(active[n])
                BY <2>0, <4>1
            <4>3. \A j \in DOMAIN active[n] : a[j] = active[n][j]
                BY <4>1, <4>2
            <4> QED BY <2>0, <4>1, <4>3 DEF Continues
        <3>10. ClearExpired(n, a)
            BY <3>3 DEF fresh
        <3> QED BY <1>1, <3>7, <3>9, <3>10, ClearExpiredKeepsNewest
    <2>5. ASSUME NEW n \in Nodes,
                 HandleHeader(n) \/ ServeContent(n) \/ Lose(n) \/ Shutdown(n) \/ Stop(n)
          PROVE  UNCHANGED active
        BY <2>5 DEF HandleHeader, ServeContent, Lose, Shutdown, Stop, CloseListener, LeaveGossip,
                    JoinThreads, service
    <2>6. CASE UNCHANGED vars
        BY <2>1, <2>6 DEF vars, service
    <2> QED BY <1>1, <2>1, <2>2, <2>3, <2>4, <2>5, <2>6 DEF Next, Handle
<1>2. IInv /\ [Next]_vars
        => [config.expiry = "recent"
              => \A n \in Nodes : Digests(active[n]) \ Digests(active'[n]) # {}
                    => /\ Len(active'[n]) = config.limit
                       /\ \A i \in DOMAIN active[n] : \A j \in 1..(i - 1) :
                             active[n][j].digest \in Digests(active'[n])
                                => active[n][i].digest \in Digests(active'[n])]_vars
    BY <1>1 DEF OldestWent
<1> QED BY <1>2, InvariantHolds, PTL DEF Spec, NewestStay
=============================================================================
