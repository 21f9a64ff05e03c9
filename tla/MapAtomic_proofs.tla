-------------------------- MODULE MapAtomic_proofs --------------------------
(***************************************************************************)
(* CHashMap implements AtomicMap (Linearizable), for any threads, keys,    *)
(* hashes, tables and number of calls, until a thread joins a resize with  *)
(* a stamp that is not its table's (lateJoin): what each action does to    *)
(* the map, what calls have seen of it, and the refinement.  Then the      *)
(* counter: what it differs from the keys by while calls are under way,    *)
(* and that it differs by nothing when none is (CountAtRest).              *)
(***************************************************************************)
EXTENDS CHashMap_proofs

USE CapsAssumption, HashAssumption
USE DEF Null, Keyed, Retains, Walkers, heap, opLocals, shared, loop, locals, resizeVars

-----------------------------------------------------------------------------
(* A step that gives a key another value and changes nothing else *)

(* A search that is under way, wherever it stands, finds what it would have, or
   what the key holds now. *)
ReadsStay ==
    /\ \A x \in 0..Len(node) : \A k \in Keys :
          /\ ValuesAt(node', x, k) \subseteq ValuesAt(node, x, k) \cup {Contents'[k]}
          /\ ValuesAt(node', x, k) = {} => ValuesAt(node, x, k) = {} \/ Contents'[k] = None
    /\ \A p \in 1..Len(node) :
          /\ node'[p].key = node[p].key
          /\ node'[p].val = node[p].val \/ node'[p].val = Contents'[node[p].key]

LEMMA ReadsSame ==
    ASSUME UNCHANGED node
    PROVE  ReadsStay
  BY DEF ReadsStay

LEMMA OnlyOne ==
    ASSUME NEW a \in Values \cup {None}, NEW b \in Values \cup {None}, Only(a) = Only(b)
    PROVE  a = b
  BY DEF Only

(* A key whose bin, before and after, has the same of it *)
LEMMA ContentsKept ==
    ASSUME MapInv, MapInv', table # Null, table' # Null, NEW k \in Keys,
           ValuesAt(node', HomeHead(k)', k) = ValuesAt(node, HomeHead(k), k)
    PROVE  Contents'[k] = Contents[k]
<1>1. HomesFit /\ HomesFit'
  BY HomeKnown, HomeKnownNext
<1>2. ValuesAt(node, HomeHead(k), k) = Only(Contents[k]) /\ Contents[k] \in Values \cup {None}
  BY <1>1 DEF HomesFit, HomeFits
<1>3. ValuesAt(node', HomeHead(k)', k) = Only(Contents'[k]) /\ Contents'[k] \in Values \cup {None}
  BY <1>1 DEF HomesFit, HomeFits
<1> QED
  BY <1>2, <1>3, OnlyOne

Rewrites(k, v, n, i) ==
    /\ UNCHANGED <<resizeVars, locked, plan>>
    /\ n \in Caps /\ i \in 0..(n - 1) /\ Live(n, i) /\ i \notin moved[n] /\ Bini(k, n) = i
    /\ bins[n][i] \notin locked
    /\ Alters(node, node', k, v)
    /\ BinsOver(n, i, bins'[n][i])
    /\ \A j \in Keys : ValuesAt(node', bins'[n][i], j) =
          IF j = k THEN Only(v) ELSE ValuesAt(node, bins[n][i], j)

LEMMA RewriteHome ==
    ASSUME MapInv, NEW k \in Keys, NEW v, NEW n, NEW i, Rewrites(k, v, n, i)
    PROVE  /\ table # Null /\ table' # Null /\ HomeHead(k) \notin locked
           /\ ValuesAt(node', HomeHead(k)', k) = Only(v)
           /\ \A j \in Keys : /\ HomeTable(j)' = HomeTable(j) /\ HomeBin(j)' = HomeBin(j)
                              /\ j # k => ValuesAt(node', HomeHead(j)', j) = ValuesAt(node, HomeHead(j), j)
<1>1. MapTyped /\ IInv /\ CInv /\ Lists /\ Marks
  BY InvParts
<1>2. /\ n \in Caps /\ i \in 0..(n - 1) /\ Live(n, i) /\ i \notin moved[n] /\ Bini(k, n) = i
      /\ UNCHANGED <<table, moved>> /\ bins[n][i] \notin locked
  BY DEF Rewrites
<1>3. table # Null
  <2>1. \E j : RootOf(n, i, j)
    BY <1>1, <1>2, LiveRoot
  <2> QED
    BY <2>1 DEF RootOf
<1>4. n = HomeTable(k) /\ i = HomeBin(k) /\ HomeHead(k) = bins[n][i]
  <2>1. n = HomeTable(k)
    BY <1>1, <1>2, LiveHome
  <2> QED
    BY <1>2, <2>1 DEF HomeBin, HomeHead
<1>5. ASSUME NEW j \in Keys PROVE HomeTable(j)' = HomeTable(j) /\ HomeBin(j)' = HomeBin(j)
  BY <1>2 DEF HomeTable, HomeBin, Bini
<1>6. ValuesAt(node', HomeHead(k)', k) = Only(v)
  <2>1. HomeHead(k)' = bins'[n][i]
    BY <1>4, <1>5 DEF HomeHead
  <2> QED
    BY <2>1 DEF Rewrites
<1>7. ASSUME NEW j \in Keys, j # k PROVE ValuesAt(node', HomeHead(j)', j) = ValuesAt(node, HomeHead(j), j)
  <2>1. /\ HomeTable(j) \in Caps /\ HomeBin(j) \in 0..(HomeTable(j) - 1)
        /\ HomeHead(j) \in 0..Len(node)
    BY <1>1, <1>3, HomeLive
  <2>2. HomeHead(j)' = bins'[HomeTable(j)][HomeBin(j)]
    BY <1>5 DEF HomeHead
  <2>3. CASE HomeTable(j) = n /\ HomeBin(j) = i
    <3>1. HomeHead(j)' = bins'[n][i] /\ HomeHead(j) = bins[n][i]
      BY <2>2, <2>3 DEF HomeHead
    <3> QED
      BY <1>7, <3>1 DEF Rewrites
  <2>4. CASE ~(HomeTable(j) = n /\ HomeBin(j) = i)
    <3>1. bins'[HomeTable(j)][HomeBin(j)] = bins[HomeTable(j)][HomeBin(j)]
      BY <2>1, <2>4 DEF Rewrites, BinsOver
    <3>2. HomeHead(j)' = HomeHead(j)
      BY <2>2, <3>1 DEF HomeHead
    <3>3. ValuesAt(node', HomeHead(j), j) = ValuesAt(node, HomeHead(j), j)
      BY <1>7, <2>1 DEF Rewrites, Alters
    <3> QED
      BY <3>2, <3>3
  <2> QED
    BY <2>3, <2>4
<1> QED
  BY <1>2, <1>3, <1>4, <1>5, <1>6, <1>7

LEMMA RewriteContents ==
    ASSUME MapInv, MapInv', NEW k \in Keys, NEW v \in Values \cup {None}, NEW n, NEW i,
           Rewrites(k, v, n, i)
    PROVE  Contents' = [Contents EXCEPT ![k] = v] /\ k \notin Doomed /\ ReadsStay
<1>1. /\ table # Null /\ table' # Null /\ HomeHead(k) \notin locked
      /\ ValuesAt(node', HomeHead(k)', k) = Only(v)
      /\ \A j \in Keys : j # k => ValuesAt(node', HomeHead(j)', j) = ValuesAt(node, HomeHead(j), j)
  BY RewriteHome
<1>2. HomesFit /\ HomesFit'
  BY HomeKnown, HomeKnownNext
<1>3. Contents'[k] = v
  <2>1. ValuesAt(node', HomeHead(k)', k) = Only(Contents'[k]) /\ Contents'[k] \in Values \cup {None}
    BY <1>1, <1>2 DEF HomesFit, HomeFits
  <2> QED
    BY <1>1, <2>1, OnlyOne
<1>4. \A j \in Keys : j # k => Contents'[j] = Contents[j]
  BY <1>1, ContentsKept
<1>5. Contents \in [Keys -> Values \cup {None}] /\ Contents' \in [Keys -> Values \cup {None}]
  BY <1>2 DEF HomesFit
<1>6. Contents' = [Contents EXCEPT ![k] = v]
  BY <1>3, <1>4, <1>5
<1>7. ReadsStay
  <2>1. Alters(node, node', k, v)
    BY DEF Rewrites
  <2>2. ASSUME NEW x \in 0..Len(node), NEW j \in Keys
        PROVE  /\ ValuesAt(node', x, j) \subseteq ValuesAt(node, x, j) \cup {Contents'[j]}
               /\ ValuesAt(node', x, j) = {} => ValuesAt(node, x, j) = {} \/ Contents'[j] = None
    <3>1. CASE j = k
      BY <1>3, <2>1, <3>1 DEF Alters
    <3>2. CASE j # k
      BY <2>1, <3>2 DEF Alters
    <3> QED
      BY <3>1, <3>2
  <2>3. \A p \in 1..Len(node) :
           /\ node'[p].key = node[p].key
           /\ node'[p].val = node[p].val \/ node'[p].val = Contents'[node[p].key]
    BY <1>3, <2>1 DEF Alters
  <2> QED
    BY <2>2, <2>3 DEF ReadsStay
<1> QED
  BY <1>1, <1>6, <1>7, KeyFree

LEMMA RewritePlans ==
    ASSUME MapInv, MapInv', NEW k \in Keys, NEW v, NEW n, NEW i, Rewrites(k, v, n, i), PInv
    PROVE  Doomed' = Doomed /\ PInv'
<1>1. /\ UNCHANGED <<table, moved, plan, idx>> /\ Alters(node, node', k, v)
      /\ n \in Caps /\ i \in 0..(n - 1) /\ BinsOver(n, i, bins'[n][i])
      /\ \A j \in Keys : j # k => ValuesAt(node', bins'[n][i], j) = ValuesAt(node, bins[n][i], j)
  BY DEF Rewrites
<1>2. HomeHead(k) \notin locked
  BY RewriteHome
<1>3. \A u \in Threads : /\ Planning(u) => PlanHome(u)
                         /\ Planning(u)' => PlanHome(u)'
  BY PlansKnown, PlansKnownNext DEF PlansHome
<1>4. \A u \in Threads : Planning(u)' <=> Planning(u)
  BY <1>1 DEF Planning
<1>5. \A u \in Threads : Planning(u) => Bini(k, table) # idx[u]
  BY <1>2, KeyFree
<1>6. \A x \in 0..Len(node) : \A j \in Keys : j # k => ValuesAt(node', x, j) = ValuesAt(node, x, j)
  BY <1>1 DEF Alters
<1>7. \A n2 \in Caps : \A i2 \in 0..(n2 - 1) : bins[n2][i2] \in 0..Len(node)
  BY InvParts
<1>8. ASSUME NEW u \in Threads, NEW j \in Keys, Planning(u)
      PROVE  Spoiled(u, j)' <=> Spoiled(u, j)
  <2>1. CASE j = k
    <3>1. ~Spoiled(u, k)
      BY <1>3, <1>5, <1>8 DEF Spoiled, PlanHome
    <3>2. ~Spoiled(u, k)'
      <4> SUFFICES ASSUME Spoiled(u, k)' PROVE FALSE
        OBVIOUS
      <4>1. ValuesAt(node', plan'[u].head, k) # {}
        BY DEF Spoiled
      <4>2. Bini(k, table') = idx'[u]
        BY <1>3, <1>4, <1>8, <4>1 DEF PlanHome, Bini
      <4> QED
        BY <1>1, <1>5, <1>8, <4>2
    <3> QED
      BY <2>1, <3>1, <3>2
  <2>2. CASE j # k
    <3>1. plan[u].head \in 0..Len(node) /\ 2 * table \in Caps
      BY <1>3, <1>8 DEF PlanHome
    <3>2. ValuesAt(node', plan'[u].head, j) = ValuesAt(node, plan[u].head, j)
      BY <1>1, <1>6, <2>2, <3>1
    <3> DEFINE n2 == 2 * table
               i2 == Bini(j, 2 * table)
    <3>3. n2 \in Caps /\ i2 \in 0..(n2 - 1)
      BY <3>1, BiniTyped
    <3> HIDE DEF n2, i2
    <3>4. ValuesAt(node', bins'[n2][i2], j) = ValuesAt(node, bins[n2][i2], j)
      <4>1. CASE n2 = n /\ i2 = i
        BY <1>1, <2>2, <4>1
      <4>2. CASE ~(n2 = n /\ i2 = i)
        <5>1. bins'[n2][i2] = bins[n2][i2]
          BY <1>1, <3>3, <4>2 DEF BinsOver
        <5> QED
          BY <1>6, <1>7, <2>2, <3>3, <5>1
      <4> QED
        BY <4>1, <4>2
    <3>5. bins'[2 * table'][Bini(j, 2 * table)'] = bins'[n2][i2]
      BY <1>1 DEF n2, i2, Bini
    <3>6. bins[2 * table][Bini(j, 2 * table)] = bins[n2][i2]
      BY DEF n2, i2
    <3> QED
      BY <1>1, <1>4, <3>2, <3>4, <3>5, <3>6 DEF Spoiled, Bini
  <2> QED
    BY <2>1, <2>2
<1>9. Doomed' = Doomed
  <2>1. \A u \in Threads, j \in Keys : Spoiled(u, j)' <=> Spoiled(u, j)
    BY <1>4, <1>8 DEF Spoiled
  <2> QED
    BY <2>1, DoomedKnown, DoomedKnownNext DEF DoomedIs
<1>10. ASSUME NEW u \in Threads PROVE PlanWhole(u)'
  <2> SUFFICES ASSUME Planning(u), NEW j \in Keys, Bini(j, table) = idx[u]
               PROVE  ValuesAt(node', plan[u].head, j) = ValuesAt(node', NewHead(u, j), j)
    BY <1>1, <1>4 DEF PlanWhole, NewHead, Bini
  <2>1. j # k
    BY <1>5
  <2>2. PlanHome(u)
    BY <1>3
  <2>3. plan[u].head \in 0..Len(node) /\ NewHead(u, j) \in 0..Len(node)
    BY <2>2 DEF PlanHome, NewHead
  <2>4. ValuesAt(node, plan[u].head, j) = ValuesAt(node, NewHead(u, j), j)
    BY DEF PInv, PlanWhole
  <2> QED
    BY <1>6, <2>1, <2>3, <2>4
<1> QED
  BY <1>9, <1>10 DEF PInv

-----------------------------------------------------------------------------
(* What the updates do to the map *)

(* The bin that a call has come to is the one with the entries of its key. *)
LEMMA AimedAt ==
    ASSUME MapInv, NEW t \in Threads, opc[t] \in {"Bin", "Cas", "Lock"}, pc[t] = "idle",
           tab[t] # Null, ~ThisBinMoved(t)
    PROVE  /\ tab[t] \in Caps /\ Key(t) \in Keys /\ Bini(Key(t), tab[t]) \in 0..(tab[t] - 1)
           /\ Live(tab[t], Bini(Key(t), tab[t])) /\ Bini(Key(t), tab[t]) \notin moved[tab[t]]
           /\ ThisBin(t) \in 0..Len(node) /\ IsList(node, ThisBin(t), tab[t], Bini(Key(t), tab[t]))
           /\ ValuesAt(node, ThisBin(t), Key(t)) = Only(Contents[Key(t)])
           /\ Contents[Key(t)] \in Values \cup {None}
           /\ ThisBin(t) \notin locked => Key(t) \notin Doomed
<1> DEFINE n == tab[t]
           k == Key(t)
<1>1. /\ MapTyped /\ IInv /\ CInv /\ Lists /\ Marks
      /\ \A m \in Caps : \A i \in 0..(m - 1) : bins[m][i] \in 0..Len(node)
  BY InvParts
<1>2. Op(t) \in Keyed
  BY <1>1, PlaceTyped DEF Control
<1>3. n \in Caps /\ k \in Keys /\ Bini(k, n) \in 0..(n - 1)
  BY <1>1, <1>2, BinTyped, KeyTyped
<1>4. Live(n, Bini(k, n)) /\ Bini(k, n) \notin moved[n]
  BY DEF MapInv, KInv, Aims, ThisBinMoved
<1>5. ThisBin(t) = bins[n][Bini(k, n)]
  BY DEF ThisBin
<1> HIDE DEF n, k
<1>6. table # Null
  <2>1. \E j : RootOf(n, Bini(k, n), j)
    BY <1>1, <1>3, <1>4, LiveRoot
  <2> QED
    BY <2>1 DEF RootOf
<1>7. n = HomeTable(k)
  BY <1>1, <1>3, <1>4, LiveHome
<1>8. HomeHead(k) = ThisBin(t)
  BY <1>5, <1>7 DEF HomeHead, HomeBin
<1>9. HomesFit
  BY HomeKnown
<1>10. /\ ThisBin(t) \in 0..Len(node) /\ ValuesAt(node, ThisBin(t), k) = Only(Contents[k])
       /\ Contents[k] \in Values \cup {None}
       /\ IsList(node, ThisBin(t), n, Bini(k, n))
  BY <1>3, <1>6, <1>7, <1>8, <1>9 DEF HomesFit, HomeFits, HomeBin
<1>11. ThisBin(t) \notin locked => k \notin Doomed
  BY <1>3, <1>8, KeyFree
<1> QED
  BY <1>3, <1>4, <1>10, <1>11 DEF n, k

(* put finds its bin empty. *)
LEMMA PutCasWrites ==
    ASSUME MapInv, NEW t \in Threads, PutCas(t), ThisBin(t) = 0, ~ThisBinMoved(t)
    PROVE  /\ Rewrites(Key(t), call[t].val, tab[t], Bini(Key(t), tab[t]))
           /\ OneNew(Len(node) + 1, Key(t)) /\ Contents[Key(t)] = None
           /\ Key(t) \in Keys /\ call[t].val \in Values
<1> DEFINE k == Key(t)
           n == tab[t]
           i == Bini(Key(t), tab[t])
           v == call[t].val
           a == NewAddress(Key(t))
           id == Len(node) + 1
<1>1. MapTyped /\ IInv /\ Linked(node) /\ Ranked(node) /\ HeapTyped /\ Len(node) \in Nat
  BY InvParts
<1>2. /\ Op(t) \in {"insert", "try_insert"} /\ opc[t] = "Cas" /\ pc[t] = "idle" /\ n # Null
      /\ UNCHANGED <<resizeVars, locked, plan>>
  <2>1. opc[t] = "Cas" /\ pc[t] = "idle"
    BY DEF PutCas, At
  <2> QED
    BY <1>1, <2>1, PutCasDoes, PlaceTyped DEF Control
<1>3. /\ n \in Caps /\ k \in Keys /\ i \in 0..(n - 1) /\ Live(n, i) /\ i \notin moved[n]
      /\ ValuesAt(node, 0, k) = Only(Contents[k]) /\ Contents[k] \in Values \cup {None}
  BY <1>2, AimedAt
<1>4. v \in Values
  BY <1>1, <1>2, PutValue
<1>5. bins[n][i] = 0 /\ 0 \notin locked
  BY <1>1 DEF ThisBin, HeapTyped
<1>6. \A j \in Keys : ValuesAt(node, 0, j) = {}
  BY ReachNothing DEF ValuesAt
<1>7. Contents[k] = None
  BY <1>3, <1>6 DEF Only
<1>8. StoresNode(node, k, v, a, node')
  BY DEF PutCas, StoresNode
<1>9. BinSet(n, i, id)
  BY DEF PutCas, BinSet
<1>10. Bini(k, n) = i
  OBVIOUS
<1> HIDE DEF k, n, i, v, a, id
<1>11. /\ Len(node') = Len(node) + 1 /\ Alters(node, node', k, v)
       /\ ValuesAt(node', Len(node) + 1, k) = {v}
       /\ \A j \in Keys \ {k} : ValuesAt(node', Len(node) + 1, j) = {}
  BY <1>1, <1>3, <1>4, <1>8, ApartAlters
<1>12. BinsOver(n, i, id) /\ bins'[n][i] = id
  <2>1. BinsOver(n, i, id)
    BY <1>1, <1>9, BinSetOver
  <2>2. DOMAIN bins = Caps /\ i \in DOMAIN bins[n]
    BY <1>1, <1>3 DEF HeapTyped
  <2> QED
    BY <1>3, <1>9, <2>1, <2>2 DEF BinSet
<1>13. \A j \in Keys : ValuesAt(node', id, j) = IF j = k THEN Only(v) ELSE ValuesAt(node, bins[n][i], j)
  BY <1>4, <1>5, <1>6, <1>11, NoneAssumption DEF id, Only
<1>14. Rewrites(k, v, n, i)
  BY <1>2, <1>3, <1>5, <1>10, <1>11, <1>12, <1>13 DEF Rewrites
<1>15. OneNew(id, k)
  <2>1. /\ node'[Len(node) + 1].key = k /\ node'[Len(node) + 1].address = a
        /\ \A j \in 1..Len(node) : node'[j] = node[j]
    BY <1>1, <1>3, <1>4, <1>8, NodeStored
  <2>2. ASSUME NEW q \in 1..Len(node') PROVE Kept(q) \/ (q = id /\ node'[q].key = k /\ node'[q].address = a)
    <3>1. CASE q \in 1..Len(node)
      BY <2>1, <3>1 DEF Kept
    <3>2. CASE q \notin 1..Len(node)
      <4>1. q = id
        BY <1>1, <1>11, <3>2 DEF id
      <4> QED
        BY <2>1, <4>1 DEF id
    <3> QED
      BY <3>1, <3>2
  <2> QED
    BY <2>2 DEF OneNew, a, k
<1> QED
  BY <1>3, <1>4, <1>7, <1>14, <1>15 DEF k, n, i, v, id

(* What a critical section finds *)
LEMMA LockedAt ==
    ASSUME MapInv, NEW t \in Threads, CanLock(t), ~HeadChanged(t), NEW p,
           p = ChainHolding(Key(t), cur[t])
    PROVE  /\ tab[t] \in Caps /\ Key(t) \in Keys /\ Bini(Key(t), tab[t]) \in 0..(tab[t] - 1)
           /\ Live(tab[t], Bini(Key(t), tab[t])) /\ Bini(Key(t), tab[t]) \notin moved[tab[t]]
           /\ cur[t] \in 1..Len(node) /\ cur[t] \notin locked
           /\ bins[tab[t]][Bini(Key(t), tab[t])] = cur[t] /\ Key(t) \notin Doomed
           /\ ValuesAt(node, cur[t], Key(t)) = Only(Contents[Key(t)])
           /\ \A a, b \in Reach(node, cur[t]) : node[a].key = node[b].key => a = b
           /\ p \in Reach(node, cur[t]) \cup {0}
           /\ p = 0 => Contents[Key(t)] = None /\ ValuesAt(node, cur[t], Key(t)) = {}
           /\ p # 0 => /\ p \in 1..Len(node) /\ node[p].key = Key(t)
                       /\ node[p].val = Contents[Key(t)] /\ node[p].val \in Values
<1> DEFINE k == Key(t)
           h == cur[t]
<1>1. MapTyped /\ IInv /\ Linked(node) /\ Ranked(node)
  BY InvParts
<1>2. /\ h \in 1..Len(node) /\ ThisBin(t) = h /\ ~ThisBinMoved(t) /\ h \notin locked
      /\ opc[t] = "Lock" /\ pc[t] = "idle" /\ tab[t] # Null
      /\ p \in Reach(node, h) \cup {0} /\ Reach(node, h) \subseteq 1..Len(node)
      /\ p = 0 => \A m \in Reach(node, h) : node[m].key # k
  BY <1>1, LockedKnows DEF CanLock, At
<1>3. /\ tab[t] \in Caps /\ Key(t) \in Keys /\ Bini(Key(t), tab[t]) \in 0..(tab[t] - 1)
      /\ Live(tab[t], Bini(Key(t), tab[t])) /\ Bini(Key(t), tab[t]) \notin moved[tab[t]]
      /\ IsList(node, h, tab[t], Bini(Key(t), tab[t]))
      /\ ValuesAt(node, h, k) = Only(Contents[k]) /\ Contents[k] \in Values \cup {None}
      /\ k \notin Doomed
  BY <1>2, AimedAt
<1>4. bins[tab[t]][Bini(Key(t), tab[t])] = h
  BY <1>2 DEF ThisBin
<1>5. \A a, b \in Reach(node, h) : node[a].key = node[b].key => a = b
  BY <1>3 DEF IsList
<1>6. h \in 0..Len(node)
  BY <1>2
<1>7. p # 0 => node[p].key = k
  BY <1>1, <1>6, HoldingFinds
<1> HIDE DEF k, h
<1>8. CASE p = 0
  <2>1. ValuesAt(node, h, k) = {}
    BY <1>1, <1>2, <1>6, <1>8, HeldNone
  <2>2. Contents[k] = None
    BY <1>3, <2>1 DEF Only
  <2> QED
    BY <1>2, <1>3, <1>4, <1>5, <1>8, <2>1, <2>2 DEF k, h
<1>9. CASE p # 0
  <2>1. p \in Reach(node, h) /\ p \in 1..Len(node) /\ node[p].key = k
    BY <1>2, <1>7, <1>9
  <2>2. node[p].val \in ValuesAt(node, h, k) /\ node[p].val \in Values
    <3>1. node[p].val \in ValuesAt(node, h, node[p].key)
      BY <1>1, <1>6, <2>1, HeldSome
    <3> QED
      BY <2>1, <3>1 DEF ValuesAt
  <2>3. node[p].val = Contents[k]
    BY <1>3, <2>2 DEF Only
  <2> QED
    BY <1>2, <1>3, <1>4, <1>5, <1>9, <2>1, <2>2, <2>3 DEF k, h
<1> QED
  BY <1>8, <1>9

LEMMA SameOver ==
    ASSUME UNCHANGED bins, DOMAIN bins = Caps, NEW n, NEW i
    PROVE  BinsOver(n, i, bins'[n][i])
  BY DEF BinsOver

LEMMA StoreWrites ==
    ASSUME MapInv, NEW t \in Threads, CanLock(t), ~HeadChanged(t), NEW p,
           p = ChainHolding(Key(t), cur[t]), p # 0, NEW v \in Values,
           StoresValue(node, p, v, NewAddress(Key(t)), node'),
           UNCHANGED <<resizeVars, bins, locked, plan>>
    PROVE  Rewrites(Key(t), v, tab[t], Bini(Key(t), tab[t])) /\ OneNew(p, Key(t))
<1> DEFINE k == Key(t)
           n == tab[t]
           i == Bini(Key(t), tab[t])
           h == cur[t]
           a == NewAddress(Key(t))
<1>1. Linked(node) /\ Ranked(node) /\ HeapTyped /\ Len(node) \in Nat
  BY InvParts
<1>2. /\ n \in Caps /\ k \in Keys /\ i \in 0..(n - 1) /\ Live(n, i) /\ i \notin moved[n]
      /\ h \in 1..Len(node) /\ h \notin locked /\ bins[n][i] = h
      /\ \A x, y \in Reach(node, h) : node[x].key = node[y].key => x = y
      /\ p \in Reach(node, h) /\ p \in 1..Len(node) /\ node[p].key = k
  BY LockedAt
<1>3. StoresValue(node, p, v, a, node')
  OBVIOUS
<1>4. Bini(k, n) = i
  OBVIOUS
<1> HIDE DEF k, n, i, h, a
<1>5. /\ Alters(node, node', k, v)
      /\ \A x \in 0..Len(node) :
            p \in Reach(node, x) /\ (\A q \in Reach(node, x) : node[q].key = node[p].key => q = p)
               => ValuesAt(node', x, node[p].key) = {v}
  <2>0. Linked(node) /\ p \in 1..Len(node) /\ v \in Values
    BY <1>1, <1>2
  <2>1. /\ Alters(node, node', node[p].key, v)
        /\ \A x \in 0..Len(node) : Reach(node', x) = Reach(node, x)
        /\ \A x \in 0..Len(node) :
              p \in Reach(node, x) /\ (\A q \in Reach(node, x) : node[q].key = node[p].key => q = p)
                 => ValuesAt(node', x, node[p].key) = {v}
    BY <1>3, <2>0, ValueAlters
  <2> QED
    BY <1>2, <2>1
<1>6. h \in 0..Len(node)
  BY <1>2
<1>7. ValuesAt(node', h, k) = {v}
  BY <1>2, <1>5, <1>6
<1>8. \A j \in Keys : j # k => ValuesAt(node', h, j) = ValuesAt(node, h, j)
  BY <1>5, <1>6 DEF Alters
<1>9. \A j \in Keys : ValuesAt(node', h, j) = IF j = k THEN Only(v) ELSE ValuesAt(node, h, j)
  BY <1>7, <1>8, NoneAssumption DEF Only
<1>10. BinsOver(n, i, bins'[n][i])
  BY <1>1, SameOver DEF HeapTyped
<1>11. Rewrites(k, v, n, i)
  BY <1>2, <1>4, <1>5, <1>9, <1>10 DEF Rewrites
<1>12. OneNew(p, k)
  <2>1. /\ Len(node') = Len(node)
        /\ \A j \in 1..Len(node) :
              /\ node'[j].key = node[j].key
              /\ node'[j].val = IF j = p THEN v ELSE node[j].val
              /\ node'[j].address = IF j = p THEN a ELSE node[j].address
    BY <1>1, <1>2, <1>3, ValueStored
  <2>2. ASSUME NEW q \in 1..Len(node') PROVE Kept(q) \/ (q = p /\ node'[q].key = k /\ node'[q].address = a)
    <3>1. q \in 1..Len(node)
      BY <2>1
    <3>2. CASE q = p
      BY <1>2, <2>1, <3>1, <3>2
    <3>3. CASE q # p
      BY <2>1, <3>1, <3>3 DEF Kept
    <3> QED
      BY <3>2, <3>3
  <2> QED
    BY <2>2 DEF OneNew, a, k
<1> QED
  BY <1>11, <1>12 DEF k, n, i

LEMMA BehindWrites ==
    ASSUME MapInv, NEW t \in Threads, CanLock(t), ~HeadChanged(t),
           ChainHolding(Key(t), cur[t]) = 0, NEW v \in Values,
           StoresBehind(node, Last(Chain(cur[t])), Key(t), v, NewAddress(Key(t)), node'),
           UNCHANGED <<resizeVars, bins, locked, plan>>
    PROVE  Rewrites(Key(t), v, tab[t], Bini(Key(t), tab[t])) /\ OneNew(Len(node) + 1, Key(t))
<1> DEFINE k == Key(t)
           n == tab[t]
           i == Bini(Key(t), tab[t])
           h == cur[t]
           a == NewAddress(Key(t))
           s == Chain(h)
           q == Last(s)
<1>1. Linked(node) /\ Ranked(node) /\ HeapTyped /\ Len(node) \in Nat
  BY InvParts
<1>2. /\ n \in Caps /\ k \in Keys /\ i \in 0..(n - 1) /\ Live(n, i) /\ i \notin moved[n]
      /\ h \in 1..Len(node) /\ h \notin locked /\ bins[n][i] = h /\ ValuesAt(node, h, k) = {}
  BY LockedAt
<1>3. StoresBehind(node, q, k, v, a, node') /\ Bini(k, n) = i
  OBVIOUS
<1>4. h \in 0..Len(node) /\ h # 0
  BY <1>2
<1>5. Walks(node, h, s)
  BY <1>1, <1>4, ChainWalks
<1> HIDE DEF k, n, i, h, a, s
<1>6. q = s[Len(s)]
  BY <1>4, <1>5 DEF Walks, Last
<1> HIDE DEF q
<1>7. /\ q \in 1..Len(node) /\ node[q].next = 0 /\ q \in Reach(node, h)
  <2>1. s \in Seq(1..Len(node)) /\ Len(s) > 0
    BY <1>4, <1>5 DEF Walks
  <2>2. Len(s) \in 1..Len(s) /\ q \in 1..Len(node)
    BY <1>6, <2>1
  <2> QED
    BY <1>4, <1>5, <1>6, <2>2 DEF Walks
<1>8. v # None
  BY NoneAssumption
<1>9. /\ Len(node') = Len(node) + 1 /\ Alters(node, node', k, v)
      /\ \A x \in 0..Len(node) : q \in Reach(node, x) /\ ValuesAt(node, x, k) = {} => ValuesAt(node', x, k) = {v}
  BY <1>1, <1>2, <1>3, <1>7, <1>8, BehindAlters
<1>10. ValuesAt(node', h, k) = {v}
  BY <1>2, <1>4, <1>7, <1>9
<1>11. \A j \in Keys : j # k => ValuesAt(node', h, j) = ValuesAt(node, h, j)
  BY <1>4, <1>9 DEF Alters
<1>12. \A j \in Keys : ValuesAt(node', h, j) = IF j = k THEN Only(v) ELSE ValuesAt(node, h, j)
  BY <1>8, <1>10, <1>11 DEF Only
<1>13. BinsOver(n, i, bins'[n][i])
  BY <1>1, SameOver DEF HeapTyped
<1>14. Rewrites(k, v, n, i)
  BY <1>2, <1>3, <1>9, <1>12, <1>13 DEF Rewrites
<1>15. OneNew(Len(node) + 1, k)
  <2>1. /\ node'[Len(node) + 1].key = k /\ node'[Len(node) + 1].address = a
        /\ \A j \in 1..Len(node) : /\ node'[j].key = node[j].key /\ node'[j].val = node[j].val
                                   /\ node'[j].address = node[j].address
    BY <1>1, <1>2, <1>3, <1>7, NodeLinked
  <2>2. ASSUME NEW x \in 1..Len(node')
        PROVE  Kept(x) \/ (x = Len(node) + 1 /\ node'[x].key = k /\ node'[x].address = a)
    <3>1. CASE x \in 1..Len(node)
      BY <2>1, <3>1 DEF Kept
    <3>2. CASE x \notin 1..Len(node)
      <4>1. x = Len(node) + 1
        BY <1>1, <1>9, <3>2
      <4> QED
        BY <2>1, <4>1
    <3> QED
      BY <3>1, <3>2
  <2> QED
    BY <2>2 DEF OneNew, a, k
<1> QED
  BY <1>14, <1>15 DEF k, n, i

LEMMA UnlinkWrites ==
    ASSUME MapInv, NEW t \in Threads, CanLock(t), ~HeadChanged(t), NEW p,
           p = ChainHolding(Key(t), cur[t]), p # 0, Unlink(t, p),
           UNCHANGED <<resizeVars, locked, plan>>
    PROVE  Rewrites(Key(t), None, tab[t], Bini(Key(t), tab[t])) /\ \A x \in 1..Len(node') : Kept(x)
<1> DEFINE k == Key(t)
           n == tab[t]
           i == Bini(Key(t), tab[t])
           h == cur[t]
<1>1. Linked(node) /\ Ranked(node) /\ HeapTyped /\ Len(node) \in Nat
  BY InvParts
<1>2. /\ n \in Caps /\ k \in Keys /\ i \in 0..(n - 1) /\ Live(n, i) /\ i \notin moved[n]
      /\ h \in 1..Len(node) /\ h \notin locked /\ bins[n][i] = h
      /\ \A x, y \in Reach(node, h) : node[x].key = node[y].key => x = y
      /\ p \in Reach(node, h) /\ p \in 1..Len(node) /\ node[p].key = k
  BY LockedAt
<1>3. Bini(k, n) = i
  OBVIOUS
<1>4. h \in 0..Len(node)
  BY <1>2
<1>5. /\ p = h => BinSet(n, i, node[p].next) /\ UNCHANGED node
      /\ p # h => /\ node' = [node EXCEPT ![CHOOSE q \in Range(Chain(h)) : node[q].next = p].next = node[p].next]
                  /\ UNCHANGED bins
  BY DEF Unlink, BinSet
<1> HIDE DEF k, n, i, h
<1>6. CASE p = h
  <2>1. BinSet(n, i, node[p].next) /\ UNCHANGED node
    BY <1>5, <1>6
  <2>2. /\ node[p].next \in 0..Len(node)
        /\ ValuesAt(node, node[p].next, node[p].key) = {}
        /\ \A j \in Keys \ {node[p].key} : ValuesAt(node, node[p].next, j) = ValuesAt(node, p, j)
    <3>1. \A m \in Reach(node, p) : node[m].key = node[p].key => m = p
      BY <1>2, <1>6
    <3> QED
      BY <1>1, <1>2, <3>1, FirstAlters
  <2>3. BinsOver(n, i, node[p].next) /\ bins'[n][i] = node[p].next
    <3>1. BinsOver(n, i, node[p].next)
      BY <1>1, <2>1, BinSetOver
    <3>2. DOMAIN bins = Caps /\ i \in DOMAIN bins[n]
      BY <1>1, <1>2 DEF HeapTyped
    <3> QED
      BY <1>2, <2>1, <3>1, <3>2 DEF BinSet
  <2>4. \A j \in Keys : ValuesAt(node', bins'[n][i], j) = IF j = k THEN Only(None) ELSE ValuesAt(node, bins[n][i], j)
    BY <1>2, <1>6, <2>1, <2>2, <2>3 DEF Only
  <2>5. Alters(node, node', k, None)
    BY <2>1 DEF Alters
  <2>6. Rewrites(k, None, n, i)
    BY <1>2, <1>3, <2>3, <2>4, <2>5 DEF Rewrites
  <2>7. \A x \in 1..Len(node') : Kept(x)
    BY <2>1 DEF Kept
  <2> QED
    BY <2>6, <2>7 DEF k, n, i
<1>7. CASE p # h
  <2> DEFINE q == CHOOSE q \in Range(Chain(h)) : node[q].next = p
             s == Chain(h)
  <2>1. node' = [node EXCEPT ![q].next = node[p].next] /\ UNCHANGED bins
    BY <1>5, <1>7
  <2>2. \E x \in Range(s) : x \in 1..Len(node) /\ node[x].next = p
    BY <1>1, <1>2, <1>7, Predecessor
  <2>3. q \in Range(s) /\ node[q].next = p
    BY <2>2
  <2>4. Walks(node, h, s)
    BY <1>1, <1>4, ChainWalks
  <2> HIDE DEF q, s
  <2>5. q \in 1..Len(node) /\ q \in Reach(node, h)
    <3>1. s \in Seq(1..Len(node)) /\ \A m \in 1..Len(node) : m \in Reach(node, h) <=> \E j \in 1..Len(s) : s[j] = m
      BY <2>4 DEF Walks
    <3>2. PICK j \in 1..Len(s) : s[j] = q
      BY <2>3, <3>1 DEF Range
    <3>3. s[j] \in 1..Len(node)
      BY <3>1
    <3> QED
      BY <3>1, <3>2, <3>3
  <2>6. node[p].next \in 0..Len(node)
    BY <1>1, <1>2 DEF Linked
  <2>7. StoresNext(node, q, node[p].next, node')
    BY <2>1 DEF StoresNext
  <2>8. \A m \in Reach(node, h) : node[m].key = node[p].key => m = p
    BY <1>2
  <2>9. Alters(node, node', k, None) /\ ValuesAt(node', h, k) = {} /\ Len(node') = Len(node)
    <3>0. /\ Linked(node) /\ Ranked(node) /\ h \in 1..Len(node) /\ q \in Reach(node, h)
          /\ p \in 1..Len(node) /\ node[q].next = p /\ p # h
      BY <1>1, <1>2, <1>7, <2>3, <2>5
    <3> DEFINE nd2 == node'
    <3>1. StoresNext(node, q, node[p].next, nd2)
      BY <2>7
    <3> HIDE DEF nd2
    <3>2. /\ Len(nd2) = Len(node)
          /\ Alters(node, nd2, node[p].key, None) /\ ValuesAt(nd2, h, node[p].key) = {}
      BY SMTT(60), <2>4, <2>8, <3>0, <3>1, UnlinkAlters
    <3> QED
      BY <1>2, <3>2 DEF nd2
  <2>10. \A j \in Keys : ValuesAt(node', h, j) = IF j = k THEN Only(None) ELSE ValuesAt(node, h, j)
    BY <1>4, <2>9 DEF Alters, Only
  <2>11. BinsOver(n, i, bins'[n][i])
    BY <1>1, <2>1, SameOver DEF HeapTyped
  <2>12. Rewrites(k, None, n, i)
    BY <1>2, <1>3, <2>1, <2>9, <2>10, <2>11 DEF Rewrites
  <2>13. \A x \in 1..Len(node') : Kept(x)
    <3>1. \A j \in 1..Len(node) : /\ node'[j].key = node[j].key /\ node'[j].val = node[j].val
                                  /\ node'[j].address = node[j].address
      BY <1>1, <2>5, <2>6, <2>7, NextStored
    <3> QED
      BY <2>9, <3>1 DEF Kept
  <2> QED
    BY <2>12, <2>13 DEF k, n, i
<1> QED
  BY <1>6, <1>7

-----------------------------------------------------------------------------
(* What a step means to the callers *)

Effective == {"Treeify", "Count", "Done"}

(* The searches, the two lists of each plan and the addresses, after a step *)
HeapKeeps ==
    /\ ReadsStay /\ PInv' /\ SameAddress'
    /\ \A u \in Threads : SightFits(u) /\ walk'[u].sight = walk[u].sight /\ call'[u] = call[u]
                             => SightFits(u)'

(* It is the moment at which an update takes effect, *)
Updates(t) ==
    /\ ~Removing(t) /\ opc[t] \notin Effective \cup {"idle"} /\ call[t].op \in Keyed \ {"get"}
    /\ call[t].key \notin Doomed /\ Doomed' = Doomed
    /\ Contents' = [Contents EXCEPT ![call[t].key] =
                       Abstract!After(call[t], Contents[call[t].key])]
    /\ result' = Set(result, t, Abstract!Answer(call[t], Contents[call[t].key]))
    /\ opc'[t] \in Effective /\ UNCHANGED <<call, walk>>

(* or a retain takes out an entry, *)
Removes(t) ==
    /\ Removing(t) /\ call[t].op \in Retains
    /\ walk[t].sight.key \in Keys \ Doomed /\ Doomed' = Doomed
    /\ call[t].op = "retain" => Contents[walk[t].sight.key] = call[t].val
    /\ Contents' = [Contents EXCEPT ![walk[t].sight.key] = None]
    /\ UNCHANGED <<call, walk>>

(* or nothing happens to the map. *)
Steady == Contents' = Contents /\ Doomed' = Doomed

LEMMA RewriteMeans ==
    ASSUME MapInv, MapInv', PInv, SameAddress, NEW k \in Keys, NEW v \in Values \cup {None},
           NEW n, NEW i, Rewrites(k, v, n, i), NEW f, OneNew(f, k)
    PROVE  /\ HeapKeeps /\ k \notin Doomed /\ Doomed' = Doomed
           /\ Contents' = [Contents EXCEPT ![k] = v]
<1>1. HeapTyped
  BY InvParts
<1>2. /\ SameAddress'
      /\ \A u \in Threads : SightFits(u) /\ walk'[u].sight = walk[u].sight /\ call'[u] = call[u]
                               => SightFits(u)'
  BY <1>1, AddressesStay
<1>3. Doomed' = Doomed /\ PInv'
  BY RewritePlans
<1>4. Contents' = [Contents EXCEPT ![k] = v] /\ k \notin Doomed /\ ReadsStay
  BY RewriteContents
<1> QED
  BY <1>2, <1>3, <1>4 DEF HeapKeeps

(* The map as its domain *)
LEMMA ContentsTyped ==
    ASSUME MapInv
    PROVE  /\ Contents \in [Keys -> Values \cup {None}]
           /\ \A k \in Keys : [Contents EXCEPT ![k] = Contents[k]] = Contents
  BY HomeKnown DEF HomesFit

LEMMA NothingMeans ==
    ASSUME PInv, SameAddress, UNCHANGED <<table, moved, fwd, nt, idx, bins, node, plan>>
    PROVE  Steady /\ HeapKeeps
<1>1. Contents' = Contents /\ Doomed' = Doomed
  BY DEF Contents, HomeList, Home, ChainHolding, Bini, Doomed
<1>2. PInv'
  BY DEF PInv, PlanWhole, NewHead, Planning, Bini
<1>3. SameAddress'
  BY DEF SameAddress
<1>4. \A u \in Threads : SightFits(u) /\ walk'[u].sight = walk[u].sight /\ call'[u] = call[u]
                           => SightFits(u)'
  BY DEF SightFits, Removing
<1> QED
  BY <1>1, <1>2, <1>3, <1>4, ReadsSame DEF HeapKeeps, Steady

LEMMA PutCasMeans ==
    ASSUME MapInv, MapInv', PInv, SameAddress, NEW t \in Threads, PutCas(t),
           ThisBin(t) = 0, ~ThisBinMoved(t)
    PROVE  HeapKeeps /\ Updates(t)
<1>1. /\ MapTyped /\ IInv
  BY InvParts
<1>2. /\ Rewrites(Key(t), call[t].val, tab[t], Bini(Key(t), tab[t]))
      /\ OneNew(Len(node) + 1, Key(t)) /\ Contents[Key(t)] = None
      /\ Key(t) \in Keys /\ call[t].val \in Values
  BY PutCasWrites
<1>3. /\ HeapKeeps /\ Key(t) \notin Doomed /\ Doomed' = Doomed
      /\ Contents' = [Contents EXCEPT ![Key(t)] = call[t].val]
  BY <1>2, RewriteMeans
<1>4. Op(t) \in {"insert", "try_insert"} /\ Op(t) = call[t].op /\ ~Removing(t)
  BY <1>1, PutCasDoes, PutValue
<1>5. Key(t) = call[t].key
  BY <1>4 DEF Key
<1>6. opc[t] = "Cas" /\ To(t, "Count", 0) /\ result' = Set(result, t, None) /\ UNCHANGED <<call, walk>>
  BY DEF PutCas, At
<1>7. opc'[t] = "Count"
  BY <1>1, <1>6, ToIs
<1>8. /\ Abstract!After(call[t], None) = call[t].val
      /\ Abstract!Answer(call[t], None) = None
  BY <1>4 DEF Abstract!After, Abstract!Answer
<1> QED
  BY <1>2, <1>3, <1>4, <1>5, <1>6, <1>7, <1>8 DEF Updates, Effective

LEMMA PutLockedMeans ==
    ASSUME MapInv, MapInv', PInv, SameAddress, NEW t \in Threads, PutLocked(t)
    PROVE  HeapKeeps /\ Updates(t)
<1> DEFINE p == ChainHolding(Key(t), cur[t])
           old == Contents[Key(t)]
<1>1. MapTyped /\ IInv
  BY InvParts
<1>2. /\ CanLock(t) /\ ~HeadChanged(t) /\ opc[t] = "Lock"
      /\ UNCHANGED <<resizeVars, bins, locked, plan, walk, call>>
  BY DEF PutLocked, CanLock, At
<1>3. Op(t) \in {"insert", "try_insert"} /\ Op(t) = call[t].op /\ ~Removing(t) /\ call[t].val \in Values
  BY <1>1, PutLockedDoes, PutValue
<1>4. Key(t) = call[t].key
  BY <1>3 DEF Key
<1>5. /\ Key(t) \in Keys /\ Key(t) \notin Doomed
      /\ p = 0 => old = None
      /\ p # 0 => node[p].val = old /\ old \in Values
  BY <1>2, LockedAt
<1>6. old # None <=> p # 0
  BY <1>5, NoneAssumption
<1>7. /\ p # 0 /\ call[t].op = "try_insert" => Finish(t, node[p].val) /\ UNCHANGED node
      /\ p # 0 /\ call[t].op # "try_insert" =>
            /\ StoresValue(node, p, call[t].val, NewAddress(Key(t)), node')
            /\ result' = Set(result, t, node[p].val) /\ To(t, "Treeify", 0)
      /\ p = 0 =>
            /\ StoresBehind(node, Last(Chain(cur[t])), Key(t), call[t].val, NewAddress(Key(t)), node')
            /\ result' = Set(result, t, None) /\ To(t, "Treeify", 0)
  BY DEF PutLocked, StoresValue, StoresBehind
<1> HIDE DEF p, old
<1>8. CASE p # 0 /\ call[t].op = "try_insert"
  <2>1. UNCHANGED node /\ result' = Set(result, t, old) /\ opc'[t] = "Done"
    BY <1>1, <1>5, <1>7, <1>8, ToIs DEF Finish
  <2>2. Steady /\ HeapKeeps
    BY <1>2, <2>1, NothingMeans
  <2>3. Abstract!After(call[t], old) = old /\ Abstract!Answer(call[t], old) = old
    BY <1>6, <1>8 DEF Abstract!After, Abstract!Answer
  <2>4. Contents = [Contents EXCEPT ![Key(t)] = old]
    BY <1>5, ContentsTyped DEF old
  <2> QED
    BY <1>2, <1>3, <1>4, <1>5, <2>1, <2>2, <2>3, <2>4 DEF Updates, Steady, Effective, old
<1>9. CASE p # 0 /\ call[t].op # "try_insert"
  <2>1. Rewrites(Key(t), call[t].val, tab[t], Bini(Key(t), tab[t])) /\ OneNew(p, Key(t))
    BY <1>2, <1>3, <1>7, <1>9, StoreWrites DEF p
  <2>2. /\ HeapKeeps /\ Doomed' = Doomed /\ Contents' = [Contents EXCEPT ![Key(t)] = call[t].val]
    BY <1>3, <1>5, <2>1, RewriteMeans
  <2>3. Abstract!After(call[t], old) = call[t].val /\ Abstract!Answer(call[t], old) = old
    BY <1>3, <1>9 DEF Abstract!After, Abstract!Answer
  <2>4. opc'[t] = "Treeify" /\ result' = Set(result, t, old)
    BY <1>1, <1>5, <1>7, <1>9, ToIs
  <2> QED
    BY <1>2, <1>3, <1>4, <1>5, <2>2, <2>3, <2>4 DEF Updates, Effective, old
<1>10. CASE p = 0
  <2>1. Rewrites(Key(t), call[t].val, tab[t], Bini(Key(t), tab[t])) /\ OneNew(Len(node) + 1, Key(t))
    BY <1>2, <1>3, <1>7, <1>10, BehindWrites DEF p
  <2>2. /\ HeapKeeps /\ Doomed' = Doomed /\ Contents' = [Contents EXCEPT ![Key(t)] = call[t].val]
    BY <1>3, <1>5, <2>1, RewriteMeans
  <2>3. Abstract!After(call[t], old) = call[t].val /\ Abstract!Answer(call[t], old) = None
    BY <1>3, <1>6, <1>10 DEF Abstract!After, Abstract!Answer
  <2>4. opc'[t] = "Treeify" /\ result' = Set(result, t, None)
    BY <1>1, <1>7, <1>10, ToIs
  <2> QED
    BY <1>2, <1>3, <1>4, <1>5, <2>2, <2>3, <2>4 DEF Updates, Effective, old
<1> QED
  BY <1>8, <1>9, <1>10

LEMMA RemoveLockedMeans ==
    ASSUME MapInv, MapInv', PInv, SameAddress, NEW t \in Threads, RemoveLocked(t), SightFits(t)
    PROVE  /\ HeapKeeps
           /\ ~Removing(t) => Updates(t)
           /\ Removing(t) => Removes(t) \/ Steady
<1> DEFINE p == ChainHolding(Key(t), cur[t])
           old == Contents[Key(t)]
<1>1. MapTyped /\ IInv
  BY InvParts
<1>2. /\ CanLock(t) /\ ~HeadChanged(t) /\ opc[t] = "Lock" /\ Op(t) = "remove"
      /\ UNCHANGED <<resizeVars, locked, plan, walk, call>>
  BY DEF RemoveLocked, CanLock, At
<1>3. /\ Key(t) \in Keys /\ Key(t) \notin Doomed
      /\ p = 0 => old = None
      /\ p # 0 => node[p].key = Key(t) /\ node[p].val = old /\ old \in Values /\ p \in 1..Len(node)
  BY <1>2, LockedAt
<1>4. /\ p = 0 \/ ~AsSeen(t, p) => Finish(t, None) /\ UNCHANGED <<bins, node>>
      /\ ~(p = 0 \/ ~AsSeen(t, p)) =>
            Unlink(t, p) /\ result' = Set(result, t, node[p].val) /\ To(t, "Count", 0)
  BY DEF RemoveLocked
<1>5. p # 0 /\ Unlink(t, p) =>
         HeapKeeps /\ Doomed' = Doomed /\ Contents' = [Contents EXCEPT ![Key(t)] = None]
  <2> SUFFICES ASSUME p # 0, Unlink(t, p)
               PROVE  HeapKeeps /\ Doomed' = Doomed /\ Contents' = [Contents EXCEPT ![Key(t)] = None]
    OBVIOUS
  <2>1. /\ Rewrites(Key(t), None, tab[t], Bini(Key(t), tab[t]))
        /\ \A x \in 1..Len(node') : Kept(x)
    BY <1>2, UnlinkWrites
  <2>2. OneNew(0, Key(t))
    BY <2>1 DEF OneNew
  <2> QED
    BY <1>3, <2>1, <2>2, RewriteMeans
<1> HIDE DEF p, old
<1>6. UNCHANGED <<bins, node>> => Steady /\ HeapKeeps
  BY <1>2, NothingMeans
<1>7. CASE ~Removing(t)
  <2>1. call[t].op = "remove" /\ Key(t) = call[t].key
    BY <1>2, <1>7 DEF Op, Key
  <2>2. AsSeen(t, p)
    BY <2>1 DEF AsSeen
  <2>3. Abstract!After(call[t], old) = None /\ Abstract!Answer(call[t], old) = old
    BY <2>1 DEF Abstract!After, Abstract!Answer
  <2>4. CASE p = 0
    <3>1. Steady /\ HeapKeeps /\ opc'[t] = "Done" /\ result' = Set(result, t, None)
      BY <1>1, <1>4, <1>6, <2>4, ToIs DEF Finish
    <3>2. Contents = [Contents EXCEPT ![Key(t)] = old]
      BY <1>3, ContentsTyped DEF old
    <3> QED
      BY <1>2, <1>3, <1>7, <2>1, <2>3, <2>4, <3>1, <3>2 DEF Updates, Steady, Effective, old
  <2>5. CASE p # 0
    <3>1. /\ HeapKeeps /\ Doomed' = Doomed /\ Contents' = [Contents EXCEPT ![Key(t)] = None]
          /\ opc'[t] = "Count" /\ result' = Set(result, t, old)
      BY <1>1, <1>3, <1>4, <1>5, <2>2, <2>5, ToIs
    <3> QED
      BY <1>2, <1>3, <1>7, <2>1, <2>3, <3>1 DEF Updates, Effective, old
  <2> QED
    BY <1>7, <2>4, <2>5 DEF Updates
<1>8. CASE Removing(t)
  <2>1. Key(t) = walk[t].sight.key /\ call[t].op \in Retains
    BY <1>1, <1>8, PlaceTyped DEF Control, Key
  <2>2. CASE p = 0 \/ ~AsSeen(t, p)
    BY <1>4, <1>6, <1>8, <2>2
  <2>3. CASE ~(p = 0 \/ ~AsSeen(t, p))
    <3>1. HeapKeeps /\ Doomed' = Doomed /\ Contents' = [Contents EXCEPT ![Key(t)] = None]
      BY <1>4, <1>5, <2>3
    <3>2. call[t].op = "retain" => old = call[t].val
      BY <1>3, <1>8, <2>1, <2>3 DEF AsSeen, SightFits
    <3> QED
      BY <1>2, <1>3, <1>8, <2>1, <3>1, <3>2 DEF Removes, old
  <2> QED
    BY <1>8, <2>2, <2>3
<1> QED
  BY <1>7, <1>8

LEMMA ComputeLockedMeans ==
    ASSUME MapInv, MapInv', PInv, SameAddress, NEW t \in Threads, ComputeLocked(t)
    PROVE  HeapKeeps /\ Updates(t)
<1> DEFINE p == ChainHolding(Key(t), cur[t])
           old == Contents[Key(t)]
           v == call[t].val
<1>1. MapTyped /\ IInv
  BY InvParts
<1>2. /\ CanLock(t) /\ ~HeadChanged(t) /\ opc[t] = "Lock" /\ call[t].op = "compute_if_present"
      /\ UNCHANGED <<resizeVars, locked, plan, walk, call>>
  BY DEF ComputeLocked, CanLock, At
<1>3. /\ Key(t) \in Keys /\ Key(t) \notin Doomed
      /\ p = 0 => old = None
      /\ p # 0 => node[p].val = old /\ old \in Values
  BY <1>2, LockedAt
<1>4. ~Removing(t) /\ v \in Values \cup {None}
  BY <1>1, <1>2, PlaceTyped DEF Control, CallTyped
<1>5. Key(t) = call[t].key
  BY <1>4 DEF Key
<1>6. /\ p = 0 => Finish(t, None) /\ UNCHANGED <<bins, node>>
      /\ p # 0 /\ v # None => /\ StoresValue(node, p, v, NewAddress(Key(t)), node')
                              /\ UNCHANGED bins /\ Finish(t, v)
      /\ p # 0 /\ v = None => Unlink(t, p) /\ result' = Set(result, t, None) /\ To(t, "Count", 0)
  BY DEF ComputeLocked, StoresValue
<1>7. old # None <=> p # 0
  BY <1>3, NoneAssumption
<1> HIDE DEF p, old
<1>8. /\ Abstract!After(call[t], old) = IF p = 0 THEN None ELSE v
      /\ Abstract!Answer(call[t], old) = IF p = 0 THEN None ELSE v
  BY <1>2, <1>7 DEF Abstract!After, Abstract!Answer
<1>9. CASE p = 0
  <2>1. Steady /\ HeapKeeps /\ opc'[t] = "Done" /\ result' = Set(result, t, None)
    BY <1>1, <1>2, <1>6, <1>9, ToIs, NothingMeans DEF Finish
  <2>2. Contents = [Contents EXCEPT ![Key(t)] = old]
    BY <1>3, ContentsTyped DEF old
  <2>3. old = None
    BY <1>3, <1>9
  <2> QED
    BY <1>2, <1>3, <1>4, <1>5, <1>8, <1>9, <2>1, <2>2, <2>3 DEF Updates, Steady, Effective, old
<1>10. CASE p # 0 /\ v # None
  <2>1. Rewrites(Key(t), v, tab[t], Bini(Key(t), tab[t])) /\ OneNew(p, Key(t))
    BY <1>2, <1>4, <1>6, <1>10, StoreWrites DEF p
  <2>2. /\ HeapKeeps /\ Doomed' = Doomed /\ Contents' = [Contents EXCEPT ![Key(t)] = v]
    BY <1>3, <1>4, <2>1, RewriteMeans
  <2>3. opc'[t] = "Done" /\ result' = Set(result, t, v)
    BY <1>1, <1>6, <1>10, ToIs DEF Finish
  <2> QED
    BY <1>2, <1>3, <1>4, <1>5, <1>8, <1>10, <2>2, <2>3 DEF Updates, Effective, old
<1>11. CASE p # 0 /\ v = None
  <2>1. /\ Rewrites(Key(t), None, tab[t], Bini(Key(t), tab[t]))
        /\ \A x \in 1..Len(node') : Kept(x)
    BY <1>2, <1>6, <1>11, UnlinkWrites DEF p
  <2>2. OneNew(0, Key(t))
    BY <2>1 DEF OneNew
  <2>3. /\ HeapKeeps /\ Doomed' = Doomed /\ Contents' = [Contents EXCEPT ![Key(t)] = None]
    BY <1>3, <2>1, <2>2, RewriteMeans
  <2>4. opc'[t] = "Count" /\ result' = Set(result, t, None)
    BY <1>1, <1>6, <1>11, ToIs
  <2> QED
    BY <1>2, <1>3, <1>4, <1>5, <1>8, <1>11, <2>3, <2>4 DEF Updates, Effective, old
<1> QED
  BY <1>9, <1>10, <1>11

-----------------------------------------------------------------------------
(* The steps that change no list: the keys stay, in whichever table they are. *)

(* A bin that has not got the entries it is to get is empty, unless a thread is
   making them. *)
LEMMA NotGiven ==
    ASSUME MapInv, NEW n \in Caps, NEW i \in 0..(n - 1), ~Live(n, i),
           \A u \in Threads : ~Draft(u, n, i, bins[n][i])
    PROVE  bins[n][i] = 0
<1>1. Lists
  BY InvParts
<1> QED
  BY <1>1 DEF Lists, OtherBins, Drafts

LEMMA HeldNothing ==
    ASSUME NEW nd, NEW k
    PROVE  ValuesAt(nd, 0, k) = {}
  BY ReachNothing DEF ValuesAt

LEMMA FirstMeans ==
    ASSUME MapInv, MapInv', UNCHANGED <<heap, plan>>, FirstStored
    PROVE  Contents' = Contents /\ \A u \in Threads : ~Planning(u)
<1>1. Marks /\ IInv /\ SharedTypes
  BY InvParts DEF IInv, TypeOK
<1>2. HomesFit /\ HomesFit' /\ PlansHome
  BY HomeKnown, HomeKnownNext, PlansKnown
<1>3. \A u \in Threads : ~Planning(u)
  BY <1>2 DEF PlansHome, PlanHome, FirstStored
<1>4. \A n \in Caps : n \in Nat /\ n > 0
  OBVIOUS
<1>5. \A n \in Caps : moved[n] = {}
  <2>1. ASSUME NEW n \in Caps, moved[n] # {} PROVE FALSE
    <3>1. n <= table
      BY <1>1, <2>1 DEF Marks, MovedBelow
    <3> QED
      BY <1>4, <3>1 DEF FirstStored
  <2> QED
    BY <2>1
<1>6. ASSUME NEW k \in Keys PROVE Contents'[k] = Contents[k]
  <2>1. table' \in Caps /\ table = 0 /\ Bini(k, table') \in 0..(table' - 1)
    BY BiniTyped DEF FirstStored
  <2>2. ~Live(table', Bini(k, table'))
    BY <1>4, <1>5, <2>1 DEF Live
  <2>3. bins[table'][Bini(k, table')] = 0
    BY <1>3, <2>1, <2>2, NotGiven DEF Draft
  <2>4. HomeHead(k)' = 0
    <3>1. moved'[table'] = {}
      BY <1>5, <2>1 DEF FirstStored
    <3>2. HomeTable(k)' = table'
      BY <3>1 DEF HomeTable
    <3> QED
      BY <2>3, <3>2 DEF HomeHead, HomeBin, Bini
  <2>5. ValuesAt(node', HomeHead(k)', k) = {}
    BY <2>4, HeldNothing
  <2>6. Contents'[k] = None
    BY <1>2, <1>4, <2>1, <2>5 DEF HomesFit, HomeFits, Only
  <2>7. Contents[k] = None
    BY <1>2, <2>1 DEF HomesFit
  <2> QED
    BY <2>6, <2>7
<1> QED
  BY <1>2, <1>3, <1>6 DEF HomesFit

(* All of the table's bins have moved, and it is replaced by the next. *)
LEMMA SwapMeans ==
    ASSUME MapInv, MapInv', UNCHANGED <<heap, plan>>, Swapped
    PROVE  Contents' = Contents
<1>1. Marks /\ IInv
  BY InvParts
<1>2. HomesFit /\ HomesFit'
  BY HomeKnown, HomeKnownNext
<1>3. /\ table \in Caps /\ table \in Nat /\ table > 0 /\ table' = 2 * table /\ moved' = moved
      /\ moved[table] = 0..(table - 1)
  BY DEF Swapped
<1>4. ASSUME NEW k \in Keys PROVE Contents'[k] = Contents[k]
  <2>1. HomeTable(k) = 2 * table
    BY <1>3, BiniTyped DEF HomeTable
  <2>2. 2 * table \in Caps
    <3>1. table # Null
      BY <1>3
    <3> QED
      BY <1>2, <2>1, <3>1 DEF HomesFit, HomeFits
  <2>3. moved[2 * table] = {}
    BY <1>1, <1>3, <2>2 DEF Marks, MovedBelow
  <2>4. HomeTable(k)' = 2 * table
    BY <1>3, <2>3 DEF HomeTable
  <2>5. HomeHead(k)' = HomeHead(k)
    BY <2>1, <2>4 DEF HomeHead, HomeBin, Bini
  <2> QED
    BY <1>3, <2>5, ContentsKept
<1> QED
  BY <1>2, <1>4 DEF HomesFit

(* An empty bin is marked. *)
LEMMA MarkEmptyMeans ==
    ASSUME MapInv, MapInv', UNCHANGED <<heap, plan>>, NEW t \in Threads, Marked(t), BinAt(t) = 0
    PROVE  Contents' = Contents
<1>1. MapTyped /\ IInv /\ CInv /\ Lists /\ Marks /\ SharedTypes
  BY InvParts DEF IInv, TypeOK
<1>2. HomesFit /\ HomesFit'
  BY HomeKnown, HomeKnownNext
<1>3. /\ table \in Caps /\ table \in Nat /\ table > 0 /\ 2 * table \in Caps /\ table' = table
      /\ idx[t] \in 0..(table - 1) /\ idx[t] \notin moved[table] /\ bins[table][idx[t]] = 0
  <2>1. /\ table \in Caps /\ 2 * table \in Caps /\ table' = table
        /\ idx[t] \in (0..(table - 1)) \ moved[table] /\ tab[t] = table
    BY DEF Marked
  <2>2. bins[table][idx[t]] = 0
    BY <2>1 DEF BinAt
  <2>3. table \in Nat /\ table > 0
    BY <2>1, NoneBetween
  <2> QED
    BY <2>1, <2>2, <2>3
<1>4. moved'[table] = moved[table] \cup {idx[t]}
  BY <1>1, <1>3 DEF Marked, SharedTypes
<1>5. ASSUME NEW i \in {idx[t], idx[t] + table} PROVE bins[2 * table][i] = 0
  <2>1. ~Live(2 * table, i)
    BY <1>1, <1>3, NotYetLive
  <2>2. ASSUME NEW u \in Threads, Draft(u, 2 * table, i, bins[2 * table][i]) PROVE FALSE
    <3>1. RootOf(2 * table, i, idx[u]) /\ Planning(u)
      BY <1>1, <2>2, DraftKnows DEF Draft
    <3>2. RootOf(2 * table, i, idx[t])
      BY <1>3 DEF RootOf
    <3>3. idx[u] = idx[t]
      BY <3>1, <3>2, RootUnique
    <3> QED
      BY <1>3, <3>1, <3>3, PlansKnown DEF PlansHome, PlanHome
  <2>3. i \in 0..(2 * table - 1)
    BY <1>3
  <2> QED
    BY <1>3, <2>1, <2>2, <2>3, NotGiven
<1>6. ASSUME NEW k \in Keys PROVE Contents'[k] = Contents[k]
  <2>1. CASE Bini(k, table) = idx[t]
    <3>1. HomeTable(k) = table /\ HomeHead(k) = 0
      BY <1>3, <2>1 DEF HomeTable, HomeHead, HomeBin
    <3>2. HomeTable(k)' = 2 * table
      BY <1>3, <1>4, <2>1 DEF HomeTable, Bini
    <3>3. Bini(k, 2 * table) \in {idx[t], idx[t] + table}
      BY <1>3, <2>1, BiniHalves
    <3>4. HomeHead(k)' = 0
      BY <1>5, <3>2, <3>3 DEF HomeHead, HomeBin, Bini
    <3>5. HomeHead(k)' = HomeHead(k) /\ node' = node /\ table # Null /\ table' # Null
      BY <1>3, <3>1, <3>4
    <3> QED
      BY <3>5, ContentsKept
  <2>2. CASE Bini(k, table) # idx[t]
    <3>1. HomeTable(k)' = HomeTable(k)
      BY <1>3, <1>4, <2>2 DEF HomeTable, Bini
    <3>2. HomeHead(k)' = HomeHead(k) /\ node' = node /\ table # Null /\ table' # Null
      BY <1>3, <3>1 DEF HomeHead, HomeBin, Bini
    <3> QED
      BY <3>2, ContentsKept
  <2> QED
    BY <2>1, <2>2
<1> QED
  BY <1>2, <1>6 DEF HomesFit

(* What becomes of the plans when nothing is stored *)
LEMMA PlansLeft ==
    ASSUME MapInv, MapInv', PInv, UNCHANGED <<bins, node, plan>>,
           \A u \in Threads : Planning(u) => idx'[u] = idx[u] /\ table' = table
    PROVE  Doomed' = Doomed /\ PInv'
<1>1. ASSUME NEW u \in Threads, NEW k \in Keys PROVE Spoiled(u, k)' <=> Spoiled(u, k)
  BY DEF Spoiled, Planning, Bini
<1>2. Doomed' = Doomed
  BY <1>1, DoomedKnown, DoomedKnownNext DEF DoomedIs
<1>3. ASSUME NEW u \in Threads PROVE PlanWhole(u)'
  BY DEF PInv, PlanWhole, NewHead, Planning, Bini
<1> QED
  BY <1>2, <1>3 DEF PInv

LEMMA QuietMeans ==
    ASSUME MapInv, MapInv', PInv, SameAddress, NEW t \in Threads, UNCHANGED <<heap, plan>>,
           \A u \in Threads : Planning(u) => idx'[u] = idx[u],
           UNCHANGED <<table, moved>> \/ FirstStored \/ Swapped \/ (Marked(t) /\ BinAt(t) = 0)
    PROVE  Steady /\ HeapKeeps
<1>1. Contents' = Contents
  <2>1. CASE UNCHANGED <<table, moved>>
    <3>1. HomesFit /\ HomesFit'
      BY HomeKnown, HomeKnownNext
    <3>2. CASE table = Null
      BY <2>1, <3>1, <3>2 DEF HomesFit
    <3>3. CASE table # Null
      <4>1. ASSUME NEW k \in Keys PROVE Contents'[k] = Contents[k]
        <5>1. HomeHead(k)' = HomeHead(k) /\ node' = node /\ table' # Null
          BY <2>1, <3>3 DEF HomeHead, HomeBin, HomeTable, Bini
        <5> QED
          BY <3>3, <5>1, ContentsKept
      <4> QED
        BY <3>1, <4>1 DEF HomesFit
    <3> QED
      BY <3>2, <3>3
  <2> QED
    BY <2>1, FirstMeans, SwapMeans, MarkEmptyMeans
<1>2. ASSUME NEW u \in Threads, Planning(u) PROVE table' = table
  <2>1. pc[u] = "TransferBin"
    BY <1>2, InvParts, PlannerKnows
  <2>2. ~FirstStored
    BY <1>2, FirstMeans
  <2> QED
    BY <2>1, <2>2 DEF Swapped, Marked
<1>3. Doomed' = Doomed /\ PInv'
  BY <1>2, PlansLeft
<1>4. SameAddress'
  BY DEF SameAddress
<1>5. \A u \in Threads : SightFits(u) /\ walk'[u].sight = walk[u].sight /\ call'[u] = call[u]
                           => SightFits(u)'
  BY DEF SightFits, Removing
<1> QED
  BY <1>1, <1>3, <1>4, <1>5, ReadsSame DEF HeapKeeps, Steady

LEMMA LeftMeans ==
    ASSUME MapInv, MapInv', PInv, SameAddress, NEW t \in Threads, AnyStep(t), UNCHANGED <<heap, plan>>,
           Planning(t) => idx'[t] = idx[t], moved' # moved => BinAt(t) = 0
    PROVE  Steady /\ HeapKeeps
<1>1. MapTyped /\ IInv /\ CInv /\ IInv' /\ SharedTypes
  BY InvParts DEF MapInv, IInv, TypeOK
<1>2. \A u \in Threads : Planning(u) => idx'[u] = idx[u]
  BY <1>1, OthersHere DEF Same
<1>3. UNCHANGED <<table, moved>> \/ FirstStored \/ Swapped \/ Marked(t)
  BY <1>1, MapTableSteps
<1>4. Marked(t) => moved' # moved
  BY <1>1 DEF Marked, SharedTypes
<1> QED
  BY <1>2, <1>3, <1>4, QuietMeans

LEMMA OpMeans ==
    ASSUME MapInv, MapInv', PInv, SameAddress, NEW t \in Threads, AnyStep(t), UNCHANGED <<heap, plan>>,
           pc[t] # "TransferBin"
    PROVE  Steady /\ HeapKeeps
<1>1. MapTyped /\ IInv /\ Lists
  BY InvParts
<1>2. ~Planning(t)
  BY <1>1 DEF Lists, PlanFits
<1>3. moved' = moved
  <2>1. CASE UNCHANGED resizeVars
    BY <2>1
  <2>2. CASE Step(t) \/ AnyCall(t)
    BY <2>2, MovedOnly DEF TransferMoveBin
  <2> QED
    BY <1>1, <2>1, <2>2, MapResizes
<1> QED
  BY <1>2, <1>3, LeftMeans

LEMMA RoutineMeans ==
    ASSUME MapInv, MapInv', PInv, SameAddress, NEW t \in Threads, AnyStep(t),
           Routine(t) \/ TransferBinMoved(t) \/ TransferBinForward(t) \/ TransferEmptyBin(t)
    PROVE  Steady /\ HeapKeeps
<1>0. Lists
  BY InvParts
<1>1. CASE Routine(t)
  <2>1. pc[t] # "TransferBin" /\ UNCHANGED <<heap, plan>>
    BY <1>1, RoutineLeaves
  <2> QED
    BY <2>1, OpMeans
<1>2. CASE TransferBinMoved(t)
  <2>1. idx[t] \in moved[tab[t]] /\ moved' = moved /\ UNCHANGED <<heap, plan>>
    BY <1>2 DEF TransferBinMoved, TransferSkipMoved
  <2>2. ~Planning(t)
    BY <1>0, <2>1 DEF Lists, PlanFits
  <2> QED
    BY <2>1, <2>2, LeftMeans
<1>3. CASE TransferBinForward(t)
  <2>1. UNCHANGED <<heap, plan, moved, pc, tab, idx>>
    BY <1>3 DEF TransferBinForward, TransferForward
  <2> QED
    BY <2>1, LeftMeans
<1>4. CASE TransferEmptyBin(t)
  <2>1. BinAt(t) = 0 /\ UNCHANGED <<heap, plan>>
    BY <1>4 DEF TransferEmptyBin
  <2>2. ~Planning(t)
    BY <1>0, <2>1 DEF Lists, PlanFits
  <2> QED
    BY <2>1, <2>2, LeftMeans
<1> QED
  BY <1>1, <1>2, <1>3, <1>4

-----------------------------------------------------------------------------
(* The steps of the transfer of a list *)

LEMMA HeldSame ==
    ASSUME NEW nd, Linked(nd), NEW nd2, Linked(nd2), Len(nd) <= Len(nd2),
           \A j \in 1..Len(nd) : nd2[j] = nd[j]
    PROVE  \A x \in 0..Len(nd) : \A k : ValuesAt(nd2, x, k) = ValuesAt(nd, x, k)
<1> SUFFICES ASSUME NEW x \in 0..Len(nd), NEW k PROVE ValuesAt(nd2, x, k) = ValuesAt(nd, x, k)
  OBVIOUS
<1>1. Reach(nd, x) \subseteq 1..Len(nd)
  BY DEF Reach
<1>2. Reach(nd2, x) = Reach(nd, x)
  <2>1. \A j \in Reach(nd, x) : nd2[j].next = nd[j].next
    BY <1>1
  <2> QED
    BY <2>1, ReachSame
<1> QED
  BY <1>1, <1>2 DEF ValuesAt

LEMMA SplitMeans ==
    ASSUME MapInv, MapInv', PInv, SameAddress, NEW t \in Threads, TransferSplit(t)
    PROVE  Steady /\ HeapKeeps
<1> DEFINE h == BinAt(t)
           s == Chain(h)
           half == [id \in 1..Len(node) |-> High(id, tab[t])]
<1>0. MapTyped /\ IInv /\ CInv /\ Lists /\ HeapTyped /\ Linked(node) /\ Ranked(node) /\ Len(node) \in Nat
  BY InvParts
<1>1. /\ pc[t] = "TransferBin" /\ plan[t] = NoPlan /\ h # 0
      /\ UNCHANGED <<resizeVars, bins>>
  BY SplitLeaves
<1>2. /\ tab[t] = table /\ table \in Caps /\ 2 * table \in Caps /\ idx[t] \in 0..(table - 1)
  BY <1>0, <1>1, BinOfTable
<1>3. /\ h \in 1..Len(node)
      /\ \E run, link, first :
            /\ IsSplit(node, s, half, run, link, node', first)
            /\ plan' = Set(plan, t, [head |-> h, low |-> first[0], high |-> first[1],
                                     stage |-> "low"])
  BY <1>0, SplitIs
<1>4. \A m \in 1..Len(node) : half[m] = High(m, table)
  BY <1>2
<1>5. t \in DOMAIN plan
  BY <1>0 DEF HeapTyped
<1>6. IsList(node, h, table, idx[t])
  BY <1>0, <1>2 DEF BinAt, Lists, LiveBins, Live
<1> HIDE DEF half, h
<1>7. Walks(node, h, s)
  <2>1. h \in 0..Len(node)
    BY <1>0, <1>3
  <2> QED
    BY <1>0, <2>1, ChainWalks
<1> HIDE DEF s
<1>8. PICK run : \E link, first :
            /\ IsSplit(node, s, half, run, link, node', first)
            /\ plan' = Set(plan, t, [head |-> h, low |-> first[0], high |-> first[1],
                                     stage |-> "low"])
  BY <1>3
<1>9. PICK link, first :
            /\ IsSplit(node, s, half, run, link, node', first)
            /\ plan' = Set(plan, t, [head |-> h, low |-> first[0], high |-> first[1],
                                     stage |-> "low"])
  BY <1>8
<1>10. /\ Linked(node') /\ run - 1 \in Nat /\ Len(node') = Len(node) + (run - 1)
       /\ \A j \in 1..Len(node) : node'[j] = node[j]
       /\ \A j \in 1..(run - 1) : /\ s[j] \in 1..Len(node)
                                  /\ node'[Len(node) + j].key = node[s[j]].key
                                  /\ node'[Len(node) + j].val = node[s[j]].val
                                  /\ node'[Len(node) + j].address = node[s[j]].address
  BY <1>0, <1>3, <1>7, <1>9, SplitNodes
<1>11. \A x \in 0..Len(node) : \A k : ValuesAt(node', x, k) = ValuesAt(node, x, k)
  <2>1. Len(node) <= Len(node')
    BY <1>0, <1>10
  <2> QED
    BY <1>0, <1>10, <2>1, HeldSame
<1>12. ASSUME NEW k \in Keys, Bini(k, table) = idx[t], NEW b \in {0, 1},
              (Hash[k] \div table) % 2 = b
       PROVE  ValuesAt(node', h, k) = ValuesAt(node', first[b], k)
  <2>1. ASSUME NEW v \in ValuesAt(node', h, k) PROVE v \in ValuesAt(node', first[b], k)
    <3>1. h \in 0..Len(node) /\ v \in ValuesAt(node, h, k)
      BY <1>0, <1>3, <1>11, <2>1
    <3>2. PICK p \in Reach(node, h) : node[p].key = k /\ node[p].val = v
      BY <3>1 DEF ValuesAt
    <3>3. p \in 1..Len(node)
      BY DEF Reach
    <3>4. half[p] = b
      BY <1>4, <1>12, <3>2, <3>3 DEF High
    <3>5. \E a \in Reach(node', first[b]) : node'[a].key = node[p].key /\ node'[a].val = node[p].val
      BY <1>0, <1>3, <1>7, <1>9, <3>4, SplitWhole
    <3> QED
      BY <3>1, <3>2, <3>5 DEF ValuesAt
  <2>2. ASSUME NEW v \in ValuesAt(node', first[b], k) PROVE v \in ValuesAt(node', h, k)
    <3>1. \A a, d \in Reach(node, h) : node[a].key = node[d].key => a = d
      BY <1>6 DEF IsList
    <3>2. /\ \A d \in {0, 1} : first[d] \in 0..Len(node')
          /\ \A d \in {0, 1} : \A a \in Reach(node', first[d]) :
                /\ a \in Reach(node, h) \/ (a \in Nat /\ a > Len(node))
                /\ \E m \in Reach(node, h) :
                      /\ node'[a].key = node[m].key /\ node'[a].val = node[m].val /\ half[m] = d
          /\ \A d, c \in {0, 1} : \A a \in Reach(node', first[d]), e \in Reach(node', first[c]) :
                node'[a].key = node'[e].key => a = e /\ d = c
      BY <1>0, <1>3, <1>7, <1>9, <3>1, SplitLists, Zenon
    <3>3. PICK a \in Reach(node', first[b]) : node'[a].key = k /\ node'[a].val = v
      BY <2>2 DEF ValuesAt
    <3>4. PICK m \in Reach(node, h) : node'[a].key = node[m].key /\ node'[a].val = node[m].val
      BY <3>2
    <3>5. v \in ValuesAt(node, h, k)
      BY <2>2, <3>3, <3>4 DEF ValuesAt
    <3> QED
      BY <1>0, <1>3, <1>11, <3>5
  <2> QED
    BY <2>1, <2>2 DEF ValuesAt
<1>13. /\ plan'[t].head = h /\ plan'[t].low = first[0] /\ plan'[t].high = first[1]
       /\ plan'[t].stage = "low"
       /\ \A u \in Threads : u # t => plan'[u] = plan[u]
  BY <1>5, <1>9 DEF Set
<1>14. UNCHANGED <<table, moved, tab, idx, pc, bins>>
  BY <1>1
<1>15. ~Planning(t)
  BY <1>1 DEF Planning, NoPlan
<1>16. PlansHome /\ HomesFit /\ HomesFit'
  BY PlansKnown, HomeKnown, HomeKnownNext
<1>17. Contents' = Contents
  <2>1. table # Null /\ table' # Null
    BY <1>2, <1>14, NoneBetween
  <2>2. ASSUME NEW k \in Keys PROVE Contents'[k] = Contents[k]
    <3>1. HomeHead(k)' = HomeHead(k) /\ HomeHead(k) \in 0..Len(node)
      BY <1>14, <1>16, <2>1 DEF HomesFit, HomeFits, HomeHead, HomeBin, HomeTable, Bini
    <3>2. ValuesAt(node', HomeHead(k)', k) = ValuesAt(node, HomeHead(k), k)
      BY <1>11, <3>1
    <3> QED
      BY <2>1, <3>2, ContentsKept
  <2> QED
    BY <1>16, <2>2 DEF HomesFit
<1>18. Doomed' = Doomed
  <2>1. ASSUME NEW u \in Threads, NEW k \in Keys PROVE Spoiled(u, k)' <=> Spoiled(u, k)
    <3>1. CASE u = t
      BY <1>13, <1>15, <3>1 DEF Spoiled
    <3>2. CASE u # t /\ Planning(u)
      <4>1. plan[u].head \in 0..Len(node) /\ 2 * table \in Caps
        BY <1>16, <3>2 DEF PlansHome, PlanHome
      <4> DEFINE y == bins[2 * table][Bini(k, 2 * table)]
      <4>2. y \in 0..Len(node)
        BY <4>1, BiniTyped, InvParts
      <4> HIDE DEF y
      <4>3. ValuesAt(node', plan[u].head, k) = ValuesAt(node, plan[u].head, k) /\ ValuesAt(node', y, k) = ValuesAt(node, y, k)
        BY <1>11, <4>1, <4>2
      <4>4. bins'[2 * table'][Bini(k, 2 * table)'] = y /\ Bini(k, 2 * table)' = Bini(k, 2 * table)
        BY <1>14 DEF y, Bini
      <4> QED
        BY <1>13, <1>14, <3>2, <4>3, <4>4 DEF Spoiled, Planning, y
    <3>3. CASE u # t /\ ~Planning(u)
      BY <1>13, <3>3 DEF Spoiled, Planning
    <3> QED
      BY <3>1, <3>2, <3>3
  <2> QED
    BY <2>1, DoomedKnown, DoomedKnownNext DEF DoomedIs
<1>19. ASSUME NEW u \in Threads PROVE PlanWhole(u)'
  <2> SUFFICES ASSUME Planning(u)', NEW k \in Keys, Bini(k, table) = idx[u]
               PROVE  ValuesAt(node', plan'[u].head, k) = ValuesAt(node', NewHead(u, k)', k)
    BY <1>14 DEF PlanWhole, Bini
  <2>1. CASE u = t
    <3>1. (Hash[k] \div table) % 2 \in {0, 1}
          /\ Bini(k, 2 * table) = IF (Hash[k] \div table) % 2 = 0 THEN idx[t] ELSE idx[t] + table
      BY <1>2, <2>1, BiniHalves
    <3>2. idx[t] # idx[t] + table
      BY <1>2, NoneBetween
    <3>3. NewHead(u, k)' = first[(Hash[k] \div table) % 2]
      BY <1>13, <1>14, <2>1, <3>1, <3>2 DEF NewHead, Bini
    <3> QED
      BY <1>12, <1>13, <2>1, <3>1, <3>3
  <2>2. CASE u # t
    <3>1. Planning(u) /\ plan'[u] = plan[u]
      BY <1>13, <2>2 DEF Planning
    <3>2. ValuesAt(node, plan[u].head, k) = ValuesAt(node, NewHead(u, k), k)
      BY <3>1 DEF PInv, PlanWhole
    <3>3. plan[u].head \in 0..Len(node) /\ NewHead(u, k) \in 0..Len(node)
      BY <1>16, <3>1 DEF PlansHome, PlanHome, NewHead
    <3>4. NewHead(u, k)' = NewHead(u, k)
      BY <1>14, <3>1 DEF NewHead, Bini
    <3> QED
      BY <1>11, <3>1, <3>2, <3>3, <3>4
  <2> QED
    BY <2>1, <2>2
<1>20. \A q \in 1..Len(node') : Kept(q)
  <2> SUFFICES ASSUME NEW q \in 1..Len(node') PROVE Kept(q)
    OBVIOUS
  <2>1. CASE q \in 1..Len(node)
    BY <1>10, <2>1 DEF Kept
  <2>2. CASE q \notin 1..Len(node)
    <3> DEFINE j == q - Len(node)
    <3>1. j \in 1..(run - 1) /\ q = Len(node) + j
      BY <1>0, <1>10, <2>2
    <3> HIDE DEF j
    <3> QED
      BY <1>10, <3>1 DEF Kept
  <2> QED
    BY <2>1, <2>2
<1>21. /\ SameAddress'
       /\ \A u \in Threads : SightFits(u) /\ walk'[u].sight = walk[u].sight /\ call'[u] = call[u]
                                => SightFits(u)'
  <2>1. OneNew(0, 0)
    BY <1>20, NoneNew
  <2> QED
    BY <1>0, <2>1, AddressesStay
<1>22. ReadsStay
  <2>1. \A x \in 0..Len(node) : \A k \in Keys :
          /\ ValuesAt(node', x, k) \subseteq ValuesAt(node, x, k) \cup {Contents'[k]}
          /\ ValuesAt(node', x, k) = {} => ValuesAt(node, x, k) = {} \/ Contents'[k] = None
    BY <1>11
  <2> QED
    BY <1>10, <2>1 DEF ReadsStay
<1> QED
  BY <1>17, <1>18, <1>19, <1>21, <1>22 DEF Steady, HeapKeeps, PInv

(* Of the bins of the table, one planner has one. *)
LEMMA PlannersApart ==
    ASSUME MapInv, NEW t \in Threads, NEW u \in Threads, Planning(t), Planning(u), idx[t] = idx[u]
    PROVE  t = u
  BY InvParts DEF Lists, PlansApart

(* One of the two lists is stored. *)
LEMMA StageMeans ==
    ASSUME MapInv, MapInv', PInv, SameAddress, NEW t \in Threads, Planning(t),
           UNCHANGED <<resizeVars, node, locked>>,
           NEW s \in {"low", "high", "moved"}, plan' = [plan EXCEPT ![t].stage = s],
           NEW i, NEW x, Draft(t, 2 * table, i, x), BinSet(2 * table, i, x),
           \A k \in Keys : Spoiled(t, k)' <=> Spoiled(t, k)
    PROVE  Steady /\ HeapKeeps
<1>0. MapTyped /\ IInv /\ CInv /\ Lists /\ Marks /\ HeapTyped
  BY InvParts
<1>1. /\ tab[t] = table /\ table \in Caps /\ 2 * table \in Caps /\ idx[t] \in 0..(table - 1)
      /\ idx[t] \notin moved[table] /\ i \in {idx[t], idx[t] + table} /\ table \in Nat
  BY <1>0, PlannerKnows DEF Draft
<1>2. ~Live(2 * table, i)
  BY <1>0, <1>1, NotYetLive
<1>3. plan \in [Threads -> Plans] /\ BinsOver(2 * table, i, x)
  BY <1>0, BinSetOver DEF HeapTyped
<1>4. /\ \A u \in Threads : /\ plan'[u].head = plan[u].head /\ plan'[u].low = plan[u].low
                            /\ plan'[u].high = plan[u].high
                            /\ u # t => plan'[u] = plan[u]
                            /\ Planning(u)' <=> Planning(u)
  BY <1>3, StageStored DEF Planning
<1>5. UNCHANGED <<table, moved, tab, idx, pc, locked, node>>
  OBVIOUS
<1>6. HomesFit /\ HomesFit' /\ PlansHome /\ table # Null
  BY <1>1, HomeKnown, HomeKnownNext, PlansKnown, NoneBetween
<1>7. Contents' = Contents
  <2>1. ASSUME NEW k \in Keys PROVE Contents'[k] = Contents[k]
    <3>1. /\ HomeTable(k) \in Caps /\ HomeBin(k) \in 0..(HomeTable(k) - 1)
          /\ Live(HomeTable(k), HomeBin(k))
      BY <1>6 DEF HomesFit, HomeFits
    <3>2. bins'[HomeTable(k)][HomeBin(k)] = bins[HomeTable(k)][HomeBin(k)]
      BY <1>2, <1>3, <3>1 DEF BinsOver
    <3>3. HomeTable(k)' = HomeTable(k) /\ HomeBin(k)' = HomeBin(k)
      BY <1>5 DEF HomeTable, HomeBin, Bini
    <3>4. HomeHead(k)' = HomeHead(k)
      BY <3>2, <3>3 DEF HomeHead
    <3> QED
      BY <1>5, <1>6, <3>4, ContentsKept
  <2> QED
    BY <1>6, <2>1 DEF HomesFit
<1>8. ASSUME NEW u \in Threads, NEW k \in Keys, u # t PROVE Spoiled(u, k)' <=> Spoiled(u, k)
  <2>1. CASE Planning(u) /\ ValuesAt(node, plan[u].head, k) # {}
    <3>1. Bini(k, table) = idx[u] /\ idx[u] # idx[t]
      BY <1>6, <1>8, <2>1, PlannersApart DEF PlansHome, PlanHome
    <3>2. Bini(k, 2 * table) # i
      BY <1>1, <3>1, HalfOf
    <3>3. Bini(k, 2 * table) \in 0..(2 * table - 1)
      BY <1>1, BiniTyped
    <3>4. bins'[2 * table][Bini(k, 2 * table)] = bins[2 * table][Bini(k, 2 * table)]
      BY <1>1, <1>3, <3>2, <3>3 DEF BinsOver
    <3>5. Bini(k, 2 * table)' = Bini(k, 2 * table)
      BY <1>5 DEF Bini
    <3> QED
      BY <1>4, <1>5, <1>8, <2>1, <3>4, <3>5 DEF Spoiled
  <2>2. CASE ~(Planning(u) /\ ValuesAt(node, plan[u].head, k) # {})
    BY <1>4, <1>5, <1>8, <2>2 DEF Spoiled
  <2> QED
    BY <2>1, <2>2
<1>9. Doomed' = Doomed
  <2>1. \A u \in Threads, k \in Keys : Spoiled(u, k)' <=> Spoiled(u, k)
    BY <1>8
  <2> QED
    BY <2>1, DoomedKnown, DoomedKnownNext DEF DoomedIs
<1>10. PInv'
  <2>1. ASSUME NEW u \in Threads PROVE PlanWhole(u)'
    BY <1>4, <1>5 DEF PInv, PlanWhole, NewHead, Bini
  <2> QED
    BY <2>1 DEF PInv
<1>11. SameAddress'
  BY <1>5 DEF SameAddress
<1>12. \A u \in Threads : SightFits(u) /\ walk'[u].sight = walk[u].sight /\ call'[u] = call[u]
                            => SightFits(u)'
  BY <1>5 DEF SightFits, Removing
<1> QED
  BY <1>5, <1>7, <1>9, <1>10, <1>11, <1>12, ReadsSame DEF Steady, HeapKeeps

(* The two places of a bin of a table in the next one *)
LEMMA Places ==
    ASSUME NEW n \in Caps, NEW i \in 0..(n - 1)
    PROVE  i \in 0..(2 * n - 1) /\ i + n \in 0..(2 * n - 1) /\ i # i + n
<1>1. n \in Nat /\ n > 0
  BY NoneBetween
<1> QED
  BY <1>1

LEMMA StoresMeans ==
    ASSUME MapInv, MapInv', PInv, SameAddress, NEW t \in Threads,
           TransferStoreLow(t) \/ TransferStoreHigh(t)
    PROVE  Steady /\ HeapKeeps
<1>0. MapTyped /\ IInv /\ CInv /\ Lists /\ HeapTyped
  BY InvParts
<1>1. Planning(t) /\ UNCHANGED <<resizeVars, node, locked>>
  BY DEF Planning, TransferStoreLow, TransferStoreHigh
<1>2. tab[t] = table /\ nt[t] = 2 * table /\ table > 0 /\ table \in Caps /\ 2 * table \in Caps
      /\ idx[t] \in 0..(table - 1) /\ idx[t] \in 0..(2 * table - 1)
      /\ idx[t] + table \in 0..(2 * table - 1) /\ idx[t] # idx[t] + table
  <2>1. tab[t] = table /\ nt[t] = 2 * table /\ table \in Caps /\ 2 * table \in Caps
        /\ idx[t] \in 0..(table - 1)
    BY <1>0, <1>1, PlannerKnows
  <2>2. table > 0
    BY <2>1, NoneBetween
  <2>3. /\ idx[t] \in 0..(2 * table - 1)
        /\ idx[t] + table \in 0..(2 * table - 1) /\ idx[t] # idx[t] + table
    BY <2>1, Places
  <2> QED
    BY <2>1, <2>2, <2>3
<1>3. PlanHome(t) /\ PlanWhole(t) /\ plan \in [Threads -> Plans]
  BY <1>0, <1>1, PlansKnown DEF PlansHome, PInv, HeapTyped
<1>4. ASSUME NEW k \in Keys, ValuesAt(node, plan[t].head, k) # {}
      PROVE  /\ Bini(k, 2 * table) \in {idx[t], idx[t] + table} /\ idx[t] # idx[t] + table
             /\ ValuesAt(node, NewHead(t, k), k) # {}
  <2>1. Bini(k, table) = idx[t]
    BY <1>3, <1>4 DEF PlanHome
  <2>2. Bini(k, 2 * table) \in {idx[t], idx[t] + table}
    <3>1. Bini(k, 2 * table) = IF (Hash[k] \div table) % 2 = 0 THEN Bini(k, table)
                               ELSE Bini(k, table) + table
      <4>1. table \in Caps /\ 2 * table \in Caps
        BY <1>2
      <4> QED
        BY <4>1, BiniHalves
    <3> QED
      BY <2>1, <3>1
  <2>3. ValuesAt(node, NewHead(t, k), k) = ValuesAt(node, plan[t].head, k)
    BY <1>1, <1>3, <2>1 DEF PlanWhole
  <2>4. idx[t] # idx[t] + table
    BY <1>2
  <2>5. ValuesAt(node, NewHead(t, k), k) # {}
    BY <1>4, <2>3
  <2> QED
    BY <2>2, <2>4, <2>5
<1>5. DOMAIN bins = Caps /\ \A n \in Caps : DOMAIN bins[n] = 0..(n - 1)
  BY <1>0 DEF HeapTyped
<1>6. CASE TransferStoreLow(t)
  <2>1. /\ plan' = [plan EXCEPT ![t].stage = "high"] /\ BinSet(2 * table, idx[t], plan[t].low)
        /\ Draft(t, 2 * table, idx[t], plan[t].low) /\ plan[t].stage = "low"
    BY <1>1, <1>2, <1>6 DEF TransferStoreLow, BinSet, Draft
  <2>2. bins'[2 * table][idx[t]] = plan[t].low
    <3>1. idx[t] \in 0..(2 * table - 1)
      BY <1>2
    <3> QED
      BY <1>2, <1>5, <2>1, <3>1 DEF BinSet
  <2>3. plan'[t].head = plan[t].head /\ plan'[t].stage = "high"
    BY <1>3, <2>1, StageStored
  <2>4. ASSUME NEW k \in Keys PROVE Spoiled(t, k)' <=> Spoiled(t, k)
    <3>1. ~Spoiled(t, k)
      BY <2>1 DEF Spoiled
    <3>2. ASSUME Spoiled(t, k)' PROVE FALSE
      <4>1. /\ Bini(k, 2 * table) = idx[t] /\ ValuesAt(node, plan[t].head, k) # {}
            /\ ValuesAt(node, plan[t].low, k) = {}
        BY <1>1, <2>2, <2>3, <3>2 DEF Spoiled, Bini
      <4> QED
        BY <1>4, <4>1 DEF NewHead
    <3> QED
      BY <3>1, <3>2
  <2> QED
    BY <1>1, <2>1, <2>4, StageMeans
<1>7. CASE TransferStoreHigh(t)
  <2> DEFINE i == idx[t] + table
  <2>1. /\ plan' = [plan EXCEPT ![t].stage = "moved"] /\ BinSet(2 * table, i, plan[t].high)
        /\ Draft(t, 2 * table, i, plan[t].high) /\ plan[t].stage = "high"
    BY <1>1, <1>2, <1>7 DEF TransferStoreHigh, BinSet, Draft
  <2>2. i \in 0..(2 * table - 1) /\ i # idx[t] /\ idx[t] \in 0..(2 * table - 1)
    BY <1>2
  <2> HIDE DEF i
  <2>3. bins'[2 * table][i] = plan[t].high
    BY <1>2, <1>5, <2>1, <2>2 DEF BinSet
  <2>4. bins'[2 * table][idx[t]] = bins[2 * table][idx[t]]
    BY <1>2, <1>5, <2>1, <2>2 DEF BinSet
  <2>5. plan'[t].head = plan[t].head /\ plan'[t].stage = "moved"
    BY <1>3, <2>1, StageStored
  <2>6. ASSUME NEW k \in Keys PROVE Spoiled(t, k)' <=> Spoiled(t, k)
    <3>1. Bini(k, 2 * table)' = Bini(k, 2 * table) /\ Planning(t)'
      BY <1>1, <2>5 DEF Bini, Planning
    <3>2. CASE ValuesAt(node, plan[t].head, k) = {}
      BY <1>1, <2>5, <3>2 DEF Spoiled
    <3>3. CASE ValuesAt(node, plan[t].head, k) # {} /\ Bini(k, 2 * table) = idx[t]
      BY <1>1, <2>1, <2>4, <2>5, <3>1, <3>3 DEF Spoiled
    <3>4. CASE ValuesAt(node, plan[t].head, k) # {} /\ Bini(k, 2 * table) # idx[t]
      <4>1. Bini(k, 2 * table) = i /\ ValuesAt(node, plan[t].high, k) # {}
        BY <1>4, <3>4 DEF NewHead, i
      <4>2. ~Spoiled(t, k)
        BY <2>1, <3>4 DEF Spoiled
      <4>3. ~Spoiled(t, k)'
        BY <1>1, <2>3, <3>1, <4>1 DEF Spoiled
      <4> QED
        BY <4>2, <4>3
    <3> QED
      BY <3>2, <3>3, <3>4
  <2> QED
    BY <1>1, <2>1, <2>6, StageMeans
<1> QED
  BY <1>6, <1>7

(* The map without some of the keys *)
Without(gone) == Contents' = [k \in Keys |-> IF k \in gone THEN None ELSE Contents[k]]

LEMMA WithoutIs ==
    ASSUME MapInv, MapInv', NEW gone,
           \A k \in Keys : Contents'[k] = IF k \in gone THEN None ELSE Contents[k]
    PROVE  Without(gone)
<1>1. Contents' \in [Keys -> Values \cup {None}]
  BY HomeKnownNext DEF HomesFit
<1> QED
  BY <1>1 DEF Without

(* The bin is marked Moved: the keys that a clear has taken out of the lists
   made of it are gone. *)
LEMMA ListBinMeans ==
    ASSUME MapInv, MapInv', PInv, SameAddress, NEW t \in Threads, AnyStep(t), TransferListBin(t)
    PROVE  HeapKeeps /\ \E gone \in SUBSET Doomed : Doomed' = Doomed \ gone /\ Without(gone)
<1>0. MapTyped /\ IInv /\ CInv /\ Lists /\ Marks /\ HeapTyped
  BY InvParts
<1>1. /\ Planning(t) /\ TransferMoveBin(t) /\ BinSet(tab[t], idx[t], 0) /\ node' = node
      /\ plan' = Set(plan, t, NoPlan) /\ plan[t].stage = "moved" /\ UNCHANGED <<walk, call>>
  BY DEF TransferListBin, Planning, BinSet
<1>2. /\ tab[t] = table /\ table \in Caps /\ 2 * table \in Caps
      /\ idx[t] \in 0..(table - 1) /\ idx[t] \notin moved[table] /\ table \in Nat /\ table > 0
      /\ bins[table][idx[t]] = plan[t].head /\ table # 2 * table
  <2>1. /\ tab[t] = table /\ table \in Caps /\ 2 * table \in Caps
        /\ idx[t] \in 0..(table - 1) /\ idx[t] \notin moved[table] /\ table \in Nat
        /\ bins[table][idx[t]] = plan[t].head
    BY <1>0, <1>1, PlannerKnows
  <2> QED
    BY <2>1, NoneBetween
<1>3. BinsOver(table, idx[t], 0) /\ plan \in [Threads -> Plans] /\ SharedTypes
  BY <1>0, <1>1, <1>2, BinSetOver DEF HeapTyped, IInv, TypeOK
<1>4. table' = table /\ moved' = [moved EXCEPT ![table] = @ \cup {idx[t]}]
  BY <1>1, <1>2 DEF TransferMoveBin
<1>5. moved'[table] = moved[table] \cup {idx[t]}
  BY <1>2, <1>3, <1>4 DEF SharedTypes
<1>6. /\ \A u \in Threads : u # t => plan'[u] = plan[u] /\ idx'[u] = idx[u]
      /\ ~Planning(t)'
  BY <1>0, <1>1, <1>3, OthersHere DEF Same, Set, Planning, NoPlan
<1>7. HomesFit /\ HomesFit' /\ PlanHome(t) /\ PlanWhole(t)
  BY <1>1, HomeKnown, HomeKnownNext, PlansKnown DEF PlansHome, PInv
<1> DEFINE gone == {k \in Keys : Spoiled(t, k)}
<1>8. ASSUME NEW k \in Keys PROVE bins'[2 * table][Bini(k, 2 * table)] = bins[2 * table][Bini(k, 2 * table)]
  <2>1. Bini(k, 2 * table) \in 0..(2 * table - 1)
    BY <1>2, BiniTyped
  <2> QED
    BY <1>2, <1>3, <2>1 DEF BinsOver
(* What the bin's list has, and what a bin of the next table has of a key of it *)
<1>9. ASSUME NEW k \in Keys, Bini(k, table) = idx[t]
      PROVE  LET x == bins[2 * table][Bini(k, 2 * table)] IN
             x = 0 \/ ValuesAt(node, x, k) = ValuesAt(node, plan[t].head, k)
  <2> DEFINE i == Bini(k, 2 * table)
             x == bins[2 * table][i]
  <2>1. i = IF (Hash[k] \div table) % 2 = 0 THEN Bini(k, table) ELSE Bini(k, table) + table
    <3>1. table \in Caps /\ 2 * table \in Caps
      BY <1>2
    <3> QED
      BY <3>1, BiniHalves
  <2>2. i \in {idx[t], idx[t] + table} /\ i \in 0..(2 * table - 1)
    BY <1>2, <1>9, <2>1
  <2>3. ~Live(2 * table, i)
    BY <1>0, <1>2, <2>2, NotYetLive
  <2>4. Drafts(2 * table, i, x)
    BY <1>0, <1>2, <2>2, <2>3 DEF Lists, OtherBins
  <2>5. ASSUME NEW u \in Threads, Draft(u, 2 * table, i, x) PROVE x = NewHead(t, k)
    <3>1. RootOf(2 * table, i, idx[u]) /\ Planning(u)
      BY <1>0, <2>5, DraftKnows DEF Draft
    <3>2. RootOf(2 * table, i, idx[t])
      BY <1>2, <2>2 DEF RootOf
    <3>3. idx[u] = idx[t]
      BY <3>1, <3>2, RootUnique
    <3>4. u = t
      BY <1>1, <3>1, <3>3, PlannersApart
    <3> QED
      BY <1>2, <2>5, <3>4 DEF Draft, NewHead
  <2>6. ValuesAt(node, plan[t].head, k) = ValuesAt(node, NewHead(t, k), k)
    BY <1>1, <1>7, <1>9 DEF PlanWhole
  <2> QED
    BY <2>4, <2>5, <2>6 DEF Drafts
<1>10. ASSUME NEW k \in Keys PROVE Contents'[k] = IF k \in gone THEN None ELSE Contents[k]
  <2>1. CASE Bini(k, table) # idx[t]
    <3>1. k \notin gone
      BY <1>1, <1>7, <2>1 DEF PlanHome, Spoiled
    <3>2. HomeTable(k)' = HomeTable(k) /\ HomeBin(k)' = HomeBin(k)
      BY <1>4, <1>5, <2>1 DEF HomeTable, HomeBin, Bini
    <3>3. HomeTable(k) \in Caps /\ HomeBin(k) \in 0..(HomeTable(k) - 1)
      BY <1>2, <1>7 DEF HomesFit, HomeFits
    <3>4. HomeHead(k)' = HomeHead(k)
      BY <1>3, <2>1, <3>2, <3>3 DEF BinsOver, HomeHead, HomeBin
    <3>5. ValuesAt(node', HomeHead(k)', k) = ValuesAt(node, HomeHead(k), k) /\ table # Null /\ table' # Null
      BY <1>1, <1>2, <1>4, <3>4
    <3> QED
      BY <3>1, <3>5, ContentsKept
  <2>2. CASE Bini(k, table) = idx[t]
    <3> DEFINE x == bins[2 * table][Bini(k, 2 * table)]
    <3>1. HomeHead(k) = plan[t].head /\ table # Null /\ table' # Null
      BY <1>2, <1>4, <1>7, <2>2 DEF PlanHome
    <3>2. HomeTable(k)' = 2 * table
      BY <1>4, <1>5, <2>2 DEF HomeTable, Bini
    <3>3. HomeBin(k)' = Bini(k, 2 * table)
      BY <3>2 DEF HomeBin, Bini
    <3>4. HomeHead(k)' = x
      BY <1>8, <3>2, <3>3 DEF HomeHead
    <3>5. x = 0 \/ ValuesAt(node, x, k) = ValuesAt(node, plan[t].head, k)
      BY <1>9, <2>2
    <3>6. k \in gone <=> ValuesAt(node, plan[t].head, k) # {} /\ ValuesAt(node, x, k) = {}
      BY <1>1 DEF Spoiled
    <3> HIDE DEF gone, x
    <3>7. CASE k \in gone
      <4>1. Only(Contents'[k]) = {}
        BY <1>1, <1>7, <3>1, <3>4, <3>6, <3>7 DEF HomesFit, HomeFits
      <4> QED
        BY <3>7, <4>1 DEF Only
    <3>8. CASE k \notin gone
      <4>1. ValuesAt(node, x, k) = ValuesAt(node, plan[t].head, k)
        BY <3>5, <3>6, <3>8, HeldNothing
      <4>2. ValuesAt(node', HomeHead(k)', k) = ValuesAt(node, HomeHead(k), k)
        BY <1>1, <3>1, <3>4, <4>1
      <4> QED
        BY <3>1, <3>8, <4>2, ContentsKept
    <3> QED
      BY <3>7, <3>8
  <2> QED
    BY <2>1, <2>2
<1>11. ASSUME NEW u \in Threads, NEW k \in Keys PROVE Spoiled(u, k)' <=> u # t /\ Spoiled(u, k)
  <2>1. Bini(k, 2 * table)' = Bini(k, 2 * table)
    BY <1>4 DEF Bini
  <2>2. u # t => (Planning(u)' <=> Planning(u))
    BY <1>6 DEF Planning
  <2>3. Bini(k, 2 * table') = Bini(k, 2 * table)
    BY <1>4
  <2>4. ValuesAt(node', bins'[2 * table'][Bini(k, 2 * table')], k) = ValuesAt(node, bins[2 * table][Bini(k, 2 * table)], k)
    BY <1>1, <1>4, <1>8
  <2>5. ValuesAt(node', plan[u].head, k) = ValuesAt(node, plan[u].head, k)
    BY <1>1
  <2> QED
    BY <1>6, <2>1, <2>2, <2>3, <2>4, <2>5 DEF Spoiled
<1>12. Doomed' = Doomed \ gone /\ gone \in SUBSET Doomed
  <2>1. Doomed = {k \in Keys : \E u \in Threads : Spoiled(u, k)}
    BY DoomedKnown DEF DoomedIs
  <2>2. Doomed' = {k \in Keys : \E u \in Threads : Spoiled(u, k)'}
    BY DoomedKnownNext DEF DoomedIs
  <2>3. ASSUME NEW u \in Threads, NEW k \in Keys, Spoiled(u, k), Spoiled(t, k) PROVE u = t
    <3>1. Planning(u) /\ PlanHome(u) /\ ValuesAt(node, plan[u].head, k) # {} /\ ValuesAt(node, plan[t].head, k) # {}
      BY <2>3, PlansKnown DEF Spoiled, PlansHome
    <3>2. idx[u] = idx[t]
      BY <1>7, <3>1 DEF PlanHome
    <3> QED
      BY <1>1, <3>1, <3>2, PlannersApart
  <2> QED
    BY <1>11, <2>1, <2>2, <2>3
<1>13. PInv'
  <2>1. ASSUME NEW u \in Threads PROVE PlanWhole(u)'
    <3>1. CASE u = t
      BY <1>6, <3>1 DEF PlanWhole
    <3>2. CASE u # t
      <4>1. PlanWhole(u)
        BY DEF PInv
      <4>2. plan'[u] = plan[u] /\ idx'[u] = idx[u] /\ (Planning(u)' <=> Planning(u))
        BY <1>6, <3>2 DEF Planning
      <4> QED
        BY <1>1, <1>4, <4>1, <4>2 DEF PlanWhole, NewHead, Bini
    <3> QED
      BY <3>1, <3>2
  <2> QED
    BY <2>1 DEF PInv
<1>14. ReadsStay /\ SameAddress' /\ \A u \in Threads : SightFits(u) /\ walk'[u].sight = walk[u].sight
            /\ call'[u] = call[u] => SightFits(u)'
  BY <1>1, ReadsSame DEF SameAddress, SightFits, Removing
<1> QED
  BY <1>10, <1>12, <1>13, <1>14, WithoutIs DEF HeapKeeps

(* clear empties a bin: the keys of it are gone, or they are to go when the
   bin that they are still in has moved. *)
LEMMA ClearMeans ==
    ASSUME MapInv, MapInv', PInv, SameAddress, NEW t \in Threads, ClearLocked(t)
    PROVE  /\ HeapKeeps /\ Doomed \subseteq Doomed' /\ Doomed' \in SUBSET Keys
           /\ \E gone \in SUBSET Keys : Without(gone)
<1>0. /\ UNCHANGED <<resizeVars, plan, node, locked, call>>
      /\ Doomed = {k \in Keys : \E u \in Threads : Spoiled(u, k)}
      /\ Doomed' = {k \in Keys : \E u \in Threads : Spoiled(u, k)'}
  BY DoomedKnown, DoomedKnownNext DEF ClearLocked, DoomedIs
<1>1. HomesFit /\ HomesFit' /\ HeapTyped
  BY HomeKnown, HomeKnownNext, InvParts
<1> DEFINE n == tab[t]
           i == walk[t].at.index
<1>2. CASE bins' = bins
  <2>1. Steady /\ HeapKeeps
    BY <1>0, <1>2, NothingMeans
  <2>2. \A k \in Keys : Contents'[k] = IF k \in {} THEN None ELSE Contents[k]
    BY <2>1 DEF Steady
  <2>3. Without({})
    BY <2>2, WithoutIs
  <2> QED
    BY <1>0, <2>1, <2>3 DEF Steady
<1>3. CASE bins' # bins
  <2>1. BinSet(n, i, 0)
    BY <1>3 DEF ClearLocked, BinSet
  <2>2. BinsOver(n, i, 0)
    BY <1>1, <2>1, BinSetOver
  <2>3. \A m \in Caps : \A j \in 0..(m - 1) : bins'[m][j] = bins[m][j] \/ bins'[m][j] = 0
    BY <2>2 DEF BinsOver
  <2>4. \A k \in Keys : ValuesAt(node, 0, k) = {}
    BY HeldNothing
  <2> DEFINE gone == {k \in Keys : Contents'[k] # Contents[k]}
  <2>5. ASSUME NEW k \in Keys PROVE Contents'[k] = IF k \in gone THEN None ELSE Contents[k]
    <3>1. CASE table = Null
      BY <1>0, <1>1, <3>1 DEF HomesFit
    <3>2. CASE table # Null
      <4>1. HomeTable(k)' = HomeTable(k) /\ HomeBin(k)' = HomeBin(k)
        BY <1>0 DEF HomeTable, HomeBin, Bini
      <4>2. HomeTable(k) \in Caps /\ HomeBin(k) \in 0..(HomeTable(k) - 1)
        BY <1>1, <3>2 DEF HomesFit, HomeFits
      <4>3. HomeHead(k)' = HomeHead(k) \/ HomeHead(k)' = 0
        BY <2>3, <4>1, <4>2 DEF HomeHead
      <4>4. CASE HomeHead(k)' = HomeHead(k)
        <5>1. ValuesAt(node', HomeHead(k)', k) = ValuesAt(node, HomeHead(k), k) /\ table' # Null
          BY <1>0, <3>2, <4>4
        <5> QED
          BY <3>2, <5>1, ContentsKept
      <4>5. CASE HomeHead(k)' = 0
        <5>1. ValuesAt(node', HomeHead(k)', k) = Only(Contents'[k])
          BY <1>0, <1>1, <3>2 DEF HomesFit, HomeFits
        <5>2. Only(Contents'[k]) = {}
          BY <1>0, <2>4, <4>5, <5>1
        <5>3. Contents'[k] = None
          BY <5>2 DEF Only
        <5> QED
          BY <5>3
      <4> QED
        BY <4>3, <4>4, <4>5
    <3> QED
      BY <3>1, <3>2
  <2>6. ASSUME NEW u \in Threads, NEW k \in Keys, Spoiled(u, k) PROVE Spoiled(u, k)'
    <3>1. Planning(u) /\ 2 * table \in Caps
      BY <2>6, PlansKnown DEF Spoiled, PlansHome, PlanHome
    <3>2. Bini(k, 2 * table) \in 0..(2 * table - 1)
      BY <3>1, BiniTyped
    <3>3. ValuesAt(node', bins'[2 * table][Bini(k, 2 * table)], k) = {}
      BY <1>0, <2>3, <2>4, <2>6, <3>1, <3>2 DEF Spoiled
    <3>4. Planning(u)' /\ Bini(k, 2 * table)' = Bini(k, 2 * table)
      BY <1>0, <3>1 DEF Planning, Bini
    <3> QED
      BY <1>0, <2>6, <3>3, <3>4 DEF Spoiled
  <2>7. Doomed \subseteq Doomed' /\ Doomed' \in SUBSET Keys
    BY <1>0, <2>6
  <2>8. PInv'
    <3>1. ASSUME NEW u \in Threads PROVE PlanWhole(u)'
      <4>1. PlanWhole(u) /\ (Planning(u)' <=> Planning(u))
        BY <1>0 DEF PInv, Planning
      <4> QED
        BY <1>0, <4>1 DEF PlanWhole, NewHead, Bini
    <3> QED
      BY <3>1 DEF PInv
  <2>9. ReadsStay /\ SameAddress' /\ \A u \in Threads : SightFits(u) /\ walk'[u].sight = walk[u].sight
              /\ call'[u] = call[u] => SightFits(u)'
    BY <1>0, ReadsSame DEF SameAddress, SightFits, Removing
  <2>10. Without(gone) /\ gone \in SUBSET Keys
    <3> HIDE DEF gone
    <3>1. Without(gone)
      BY <2>5, WithoutIs
    <3> QED
      BY <3>1 DEF gone
  <2> QED
    BY <2>7, <2>8, <2>9, <2>10 DEF HeapKeeps
<1> QED
  BY <1>2, <1>3

-----------------------------------------------------------------------------
(* What callers see of a thread *)

SeenCall(u) == IF call[u].op = "iter" THEN [op |-> "none"] ELSE call[u]
SeenEffect(u) == call[u].op # "iter" /\ ~Removing(u) /\ opc[u] \in Effective
SeenResult(u) == IF Removing(u) THEN None ELSE result[u]

LEMMA SeenAre ==
    /\ CallSeen = [u \in Threads |-> SeenCall(u)]
    /\ EffectSeen = [u \in Threads |-> SeenEffect(u)]
    /\ ResultSeen = [u \in Threads |-> SeenResult(u)]
  BY DEF CallSeen, EffectSeen, ResultSeen, SeenCall, SeenEffect, SeenResult, Effective

LEMMA SeenAreNext ==
    /\ CallSeen' = [u \in Threads |-> SeenCall(u)']
    /\ EffectSeen' = [u \in Threads |-> SeenEffect(u)']
    /\ ResultSeen' = [u \in Threads |-> SeenResult(u)']
  BY DEF CallSeen, EffectSeen, ResultSeen, SeenCall, SeenEffect, SeenResult, Effective

(* A step of another thread changes none of it. *)
LEMMA ResultOthers ==
    ASSUME DOMAIN result = Threads, NEW t \in Threads, AnyStep(t)
    PROVE  DOMAIN result' = Threads /\ \A u \in Threads : u # t => result'[u] = result[u]
<1>1. CASE Transfer(t)
  BY <1>1, SplitLeaves DEF Transfer, TransferBinMoved, TransferBinForward, TransferEmptyBin,
     TransferStoreLow, TransferStoreHigh, TransferListBin
<1>2. CASE Routine(t)
  BY <1>2 DEF Routine
<1>3. ASSUME NEW c, Begin(t, c) PROVE UNCHANGED result
  BY <1>3 DEF Begin
<1>4. CASE OpLoadTable(t) \/ OpNoTable(t) \/ OpMovedBin(t) \/ OpEmptyBin(t) \/ OpListBin(t)
            \/ GetNode(t) \/ LoadValue(t) \/ PutCas(t) \/ OpHeadChanged(t)
  BY <1>4 DEF OpLoadTable, OpNoTable, OpMovedBin, OpEmptyBin, OpListBin, GetNode, LoadValue,
     PutCas, OpHeadChanged, Finish, Set
<1>5. CASE PutLocked(t) \/ RemoveLocked(t) \/ ComputeLocked(t) \/ PutTreeify(t) \/ OpCount(t) \/ End(t)
  BY <1>5 DEF PutLocked, RemoveLocked, ComputeLocked, PutTreeify, OpCount, End, Finish, Set
<1>6. CASE WalkBin(t) \/ WalkOn(t) \/ WalkEnd(t) \/ RetainLook(t) \/ RetainGoOn(t)
            \/ ClearBin(t) \/ ClearLocked(t) \/ ClearEnd(t)
  BY <1>6 DEF WalkBin, WalkOn, WalkEnd, RetainLook, RetainGoOn, ClearBin, ClearLocked, ClearEnd, Set
<1> QED
  BY <1>1, <1>2, <1>3, <1>4, <1>5, <1>6 DEF AnyStep, MapStep, Operation

LEMMA SeenOthers ==
    ASSUME MapTyped, DOMAIN result = Threads, NEW t \in Threads, AnyStep(t), NEW u \in Threads, u # t
    PROVE  SeenCall(u)' = SeenCall(u) /\ SeenEffect(u)' = SeenEffect(u) /\ SeenResult(u)' = SeenResult(u)
<1>1. MapSame(u) /\ result'[u] = result[u]
  BY MapOthers, ResultOthers
<1>2. Removing(u)' <=> Removing(u)
  BY <1>1 DEF MapSame, Removing
<1> QED
  BY <1>1, <1>2 DEF MapSame, SeenCall, SeenEffect, SeenResult

(* Of its own, what it says. *)
LEMMA SeenTurns ==
    ASSUME MapTyped, DOMAIN result = Threads, NEW t \in Threads, AnyStep(t)
    PROVE  /\ CallSeen' = [CallSeen EXCEPT ![t] = SeenCall(t)']
           /\ EffectSeen' = [EffectSeen EXCEPT ![t] = SeenEffect(t)']
           /\ ResultSeen' = [ResultSeen EXCEPT ![t] = SeenResult(t)']
           /\ CallSeen[t] = SeenCall(t) /\ EffectSeen[t] = SeenEffect(t) /\ ResultSeen[t] = SeenResult(t)
<1>1. \A u \in Threads : u # t => /\ SeenCall(u)' = SeenCall(u) /\ SeenEffect(u)' = SeenEffect(u)
                                  /\ SeenResult(u)' = SeenResult(u)
  BY SeenOthers
<1> QED
  BY <1>1, SeenAre, SeenAreNext

-----------------------------------------------------------------------------
(* What a call has seen of its key, and what it is about to find *)
Sees(u) ==
    /\ IF IsKeyed(call[u]) THEN Contents[call[u].key] \in seen[u] ELSE seen[u] = {}
    /\ opc[u] = "Node" =>
          /\ call[u].op = "get"
          /\ ValuesAt(node, cur[u], call[u].key) \subseteq seen[u]
          /\ ValuesAt(node, cur[u], call[u].key) = {} => None \in seen[u]
    /\ opc[u] = "Value" =>
          /\ call[u].op \in {"get", "try_insert"}
          /\ node[cur[u]].key = call[u].key /\ node[cur[u]].val \in seen[u]

(* A call has no answer before it takes effect. *)
Answers(u) ==
    /\ call[u].op = "none" => call[u] = [op |-> "none"]
    /\ opc[u] \notin Effective /\ ~Removing(u) => result[u] = None
    /\ call[u].op = "iter" => result[u] = None

RInv ==
    /\ seen = [u \in Threads |-> seen[u]] /\ DOMAIN result = Threads
    /\ \A u \in Threads : Sees(u) /\ Answers(u)

(* A call goes on, or has begun, or has ended. *)
Flows(u) ==
    \/ call'[u] = call[u]
    \/ opc[u] = "idle" /\ Steady
    \/ call'[u] = [op |-> "none"]

LEMMA CallFlows ==
    ASSUME MapTyped, PInv, SameAddress, NEW t \in Threads, AnyStep(t)
    PROVE  \A u \in Threads : Flows(u)
<1>1. \A u \in Threads : u # t => call'[u] = call[u]
  BY MapOthers DEF MapSame
<1>2. CASE Transfer(t)
  BY <1>1, <1>2, SplitLeaves DEF Transfer, TransferBinMoved, TransferBinForward, TransferEmptyBin,
     TransferStoreLow, TransferStoreHigh, TransferListBin, Flows
<1>3. CASE Routine(t)
  BY <1>1, <1>3 DEF Routine, Flows
<1>4. ASSUME NEW c, Begin(t, c) PROVE \A u \in Threads : Flows(u)
  <2>1. Steady /\ opc[t] = "idle"
    BY <1>4, NothingMeans DEF Begin, At
  <2> QED
    BY <1>1, <2>1 DEF Flows
<1>5. CASE OpLoadTable(t) \/ OpNoTable(t) \/ OpMovedBin(t) \/ OpEmptyBin(t) \/ OpListBin(t)
            \/ GetNode(t) \/ LoadValue(t) \/ PutCas(t) \/ OpHeadChanged(t)
  BY <1>1, <1>5 DEF OpLoadTable, OpNoTable, OpMovedBin, OpEmptyBin, OpListBin, GetNode, LoadValue,
     PutCas, OpHeadChanged, Flows
<1>6. CASE PutLocked(t) \/ RemoveLocked(t) \/ ComputeLocked(t) \/ PutTreeify(t) \/ OpCount(t)
  BY <1>1, <1>6 DEF PutLocked, RemoveLocked, ComputeLocked, PutTreeify, OpCount, Flows
<1>7. CASE End(t)
  <2>1. call'[t] = [op |-> "none"]
    BY <1>7 DEF End, Set, MapTyped, Domains
  <2> QED
    BY <1>1, <2>1 DEF Flows
<1>8. CASE WalkBin(t) \/ WalkOn(t) \/ WalkEnd(t) \/ RetainLook(t) \/ RetainGoOn(t)
            \/ ClearBin(t) \/ ClearLocked(t) \/ ClearEnd(t)
  BY <1>1, <1>8 DEF WalkBin, WalkOn, WalkEnd, RetainLook, RetainGoOn, ClearBin, ClearLocked, ClearEnd, Flows
<1> QED
  BY <1>2, <1>3, <1>4, <1>5, <1>6, <1>7, <1>8 DEF AnyStep, MapStep, Operation

(* The history variable, thread by thread *)
LEMMA SeenNext ==
    ASSUME MapTyped, RInv, Watch, NEW u \in Threads, Flows(u)
    PROVE  /\ DOMAIN seen' = Threads
           /\ IF IsKeyed(call'[u]) THEN Contents'[call'[u].key] \in seen'[u] ELSE seen'[u] = {}
           /\ IsKeyed(call'[u]) /\ call'[u] = call[u] => seen'[u] = seen[u] \cup {Contents'[call[u].key]}
<1>1. /\ DOMAIN seen' = Threads
      /\ seen'[u] = IF ~IsKeyed(call'[u]) THEN {}
                    ELSE IF opc[u] = "idle" THEN {Contents[call'[u].key]}
                    ELSE seen[u] \cup {Contents'[call[u].key]}
  BY DEF Watch
<1>2. opc[u] = "idle" <=> call[u].op = "none"
  BY PlaceTyped DEF Control
<1>3. call[u].op = "none" => ~IsKeyed(call[u])
  BY DEF IsKeyed
<1>4. ~IsKeyed([op |-> "none"])
  BY DEF IsKeyed
<1> QED
  BY <1>1, <1>2, <1>3, <1>4 DEF Flows, Steady

(* What AtomicMap says of it *)
LEMMA WatchSeen ==
    ASSUME MapTyped, MapTyped', RInv, Watch, \A u \in Threads : Flows(u)
    PROVE  Abstract!Watch(Contents')
<1>1. ASSUME NEW u \in Threads
      PROVE  seen'[u] = IF CallSeen'[u].op \in {"none"} \cup {"clear", "retain", "retain_force"} THEN {}
                        ELSE IF CallSeen[u] = [op |-> "none"] THEN {Contents'[CallSeen'[u].key]}
                        ELSE seen[u] \cup {Contents'[CallSeen[u].key]}
  <2>1. CallSeen[u] = SeenCall(u) /\ CallSeen'[u] = SeenCall(u)'
    BY SeenAre, SeenAreNext
  <2>2. seen'[u] = IF ~IsKeyed(call'[u]) THEN {}
                   ELSE IF opc[u] = "idle" THEN {Contents[call'[u].key]}
                   ELSE seen[u] \cup {Contents'[call[u].key]}
    BY DEF Watch
  <2>3. (opc[u] = "idle" <=> call[u].op = "none") /\ Answers(u)
    BY PlaceTyped DEF Control, RInv
  <2>4. CASE ~IsKeyed(call'[u])
    BY <2>1, <2>2, <2>4 DEF IsKeyed, SeenCall
  <2>5. CASE IsKeyed(call'[u])
    <3>1. SeenCall(u)' = call'[u] /\ call'[u].op \notin {"none"} \cup {"clear", "retain", "retain_force"}
      BY <2>5 DEF IsKeyed, SeenCall
    <3>2. CASE opc[u] = "idle"
      <4>1. SeenCall(u) = [op |-> "none"]
        BY <2>3, <3>2 DEF Answers, SeenCall
      <4>2. call'[u] # call[u] /\ call'[u] # [op |-> "none"]
        BY <2>3, <2>5, <3>2 DEF IsKeyed
      <4>3. Contents' = Contents
        BY <4>2 DEF Flows, Steady
      <4> QED
        BY <2>1, <2>2, <2>5, <3>1, <3>2, <4>1, <4>3
    <3>3. CASE opc[u] # "idle"
      <4>1. call'[u] = call[u]
        BY <2>5, <3>3 DEF Flows, IsKeyed
      <4>2. SeenCall(u) = call[u] /\ call[u] # [op |-> "none"]
        BY <2>5, <4>1 DEF SeenCall, IsKeyed
      <4> QED
        BY <2>1, <2>2, <2>5, <3>1, <3>3, <4>2
    <3> QED
      BY <3>2, <3>3
  <2> QED
    BY <2>4, <2>5
<1>2. seen' = [u \in Threads |->
                  IF CallSeen'[u].op \in {"none"} \cup {"clear", "retain", "retain_force"} THEN {}
                  ELSE IF CallSeen[u] = [op |-> "none"] THEN {Contents'[CallSeen'[u].key]}
                  ELSE seen[u] \cup {Contents'[CallSeen[u].key]}]
  <2>1. seen' = [u \in Threads |-> seen'[u]]
    BY DEF Watch
  <2> QED
    BY <1>1, <2>1
<1> QED
  BY <1>2 DEF Abstract!Watch, Abstract!NoCall, Abstract!Several

-----------------------------------------------------------------------------
(* What calls have seen, after a step *)

LEMMA SeesStays ==
    ASSUME MapInv, RInv, Watch, NEW u \in Threads, Flows(u), ReadsStay,
           call'[u] = call[u], opc'[u] = opc[u], cur'[u] = cur[u]
    PROVE  Sees(u)'
<1>1. /\ IF IsKeyed(call[u]) THEN Contents'[call[u].key] \in seen'[u] ELSE seen'[u] = {}
      /\ IsKeyed(call[u]) => seen'[u] = seen[u] \cup {Contents'[call[u].key]}
  BY SeenNext, InvParts
<1>2. /\ Sees(u) /\ CallTyped(call[u]) /\ cur[u] \in 0..Len(node)
      /\ opc[u] = "Value" => cur[u] \in 1..Len(node)
  <2>1. CallTyped(call[u]) /\ cur[u] \in 0..Len(node) /\ Control(u)
    BY PlaceTyped, InvParts
  <2> QED
    BY <2>1 DEF RInv, Control
<1>3. opc[u] \in {"Node", "Value"} => IsKeyed(call[u]) /\ call[u].key \in Keys
  BY <1>2 DEF Sees, IsKeyed, CallTyped
<1>4. ASSUME opc[u] = "Node"
      PROVE  /\ ValuesAt(node', cur[u], call[u].key) \subseteq seen'[u]
             /\ ValuesAt(node', cur[u], call[u].key) = {} => None \in seen'[u]
  <2>1. /\ ValuesAt(node, cur[u], call[u].key) \subseteq seen[u]
        /\ ValuesAt(node, cur[u], call[u].key) = {} => None \in seen[u]
        /\ seen'[u] = seen[u] \cup {Contents'[call[u].key]} /\ call[u].key \in Keys
    BY <1>1, <1>2, <1>3, <1>4 DEF Sees
  <2>2. /\ ValuesAt(node', cur[u], call[u].key) \subseteq ValuesAt(node, cur[u], call[u].key) \cup {Contents'[call[u].key]}
        /\ ValuesAt(node', cur[u], call[u].key) = {} =>
              ValuesAt(node, cur[u], call[u].key) = {} \/ Contents'[call[u].key] = None
    BY <1>2, <2>1 DEF ReadsStay
  <2> QED
    BY <2>1, <2>2
<1>5. ASSUME opc[u] = "Value" PROVE node'[cur[u]].key = call[u].key /\ node'[cur[u]].val \in seen'[u]
  <2>1. /\ node[cur[u]].key = call[u].key /\ node[cur[u]].val \in seen[u]
        /\ seen'[u] = seen[u] \cup {Contents'[call[u].key]} /\ cur[u] \in 1..Len(node)
    BY <1>1, <1>2, <1>3, <1>5 DEF Sees
  <2>2. /\ node'[cur[u]].key = node[cur[u]].key
        /\ node'[cur[u]].val = node[cur[u]].val \/ node'[cur[u]].val = Contents'[node[cur[u]].key]
    BY <2>1 DEF ReadsStay
  <2> QED
    BY <2>1, <2>2
<1>6. (IsKeyed(call[u])' <=> IsKeyed(call[u])) /\ ValuesAt(node, cur[u], call[u].key)' = ValuesAt(node', cur[u], call[u].key)
  BY DEF IsKeyed, ValuesAt, Reach, Closed
<1> QED
  BY <1>1, <1>2, <1>4, <1>5, <1>6 DEF Sees

LEMMA SeesAway ==
    ASSUME MapInv, RInv, Watch, NEW u \in Threads, Flows(u), opc'[u] \notin {"Node", "Value"}
    PROVE  Sees(u)'
<1>1. IF IsKeyed(call'[u]) THEN Contents'[call'[u].key] \in seen'[u] ELSE seen'[u] = {}
  BY SeenNext, InvParts
<1> QED
  BY <1>1 DEF Sees

(* A search that comes to a bin with the entries of its key, *)
LEMMA SeesBin ==
    ASSUME MapInv, RInv, Watch, NEW t \in Threads, Flows(t), opc[t] \in {"Bin", "Cas"}, pc[t] = "idle",
           tab[t] # Null, ~ThisBinMoved(t), ThisBin(t) # 0, UNCHANGED <<node, call>>,
           To(t, NextWith(t, ThisBin(t)), ThisBin(t))
    PROVE  Sees(t)'
<1> DEFINE h == ThisBin(t)
<1>1. /\ Key(t) \in Keys /\ h \in 0..Len(node) /\ h # 0 /\ ValuesAt(node, h, Key(t)) = Only(Contents[Key(t)])
  BY AimedAt
<1>2. MapTyped /\ Linked(node) /\ CallTyped(call[t]) /\ Control(t) /\ h \in 1..Len(node)
  BY <1>1, InvParts, PlaceTyped
<1>3. opc'[t] = NextWith(t, h) /\ cur'[t] = h
  BY <1>2 DEF To, Set, MapTyped, Domains, HeapTyped
<1> HIDE DEF h
<1>4. IF IsKeyed(call[t]) THEN Contents'[call[t].key] \in seen'[t] ELSE seen'[t] = {}
  BY <1>2, SeenNext
<1>5. IsKeyed(call[t]) => seen'[t] = seen[t] \cup {Contents'[call[t].key]}
  BY <1>2, SeenNext
<1>6. Sees(t)
  BY DEF RInv
<1>7. CASE opc'[t] = "Node"
  <2>1. Op(t) = "get" /\ call[t].op = "get" /\ Key(t) = call[t].key /\ IsKeyed(call[t])
    <3>1. Op(t) = "get"
      BY <1>3, <1>7 DEF NextWith, IsUpdate
    <3>2. ~Removing(t)
      BY <3>1 DEF Op
    <3> QED
      BY <3>1, <3>2 DEF Op, Key, IsKeyed
  <2>2. Contents[call[t].key] \in seen'[t]
    BY <1>5, <1>6, <2>1 DEF Sees
  <2>3. ValuesAt(node, h, call[t].key) \subseteq seen'[t] /\ (ValuesAt(node, h, call[t].key) = {} => None \in seen'[t])
    BY <1>1, <2>1, <2>2 DEF Only
  <2>4. ValuesAt(node, cur[t], call[t].key)' = ValuesAt(node, h, call[t].key)
    BY <1>3 DEF ValuesAt, Reach, Closed
  <2> QED
    BY <1>4, <1>7, <2>1, <2>3, <2>4 DEF Sees, IsKeyed
<1>8. CASE opc'[t] = "Value"
  <2>1. call[t].op = "try_insert" /\ node[h].key = Key(t) /\ ~Removing(t) /\ Key(t) = call[t].key
        /\ IsKeyed(call[t])
    <3>1. call[t].op = "try_insert" /\ node[h].key = Key(t)
      BY <1>3, <1>8 DEF NextWith
    <3>2. ~Removing(t)
      BY <1>2, <3>1 DEF Control
    <3> QED
      BY <3>1, <3>2 DEF Key, IsKeyed
  <2>2. Contents[call[t].key] \in seen'[t]
    BY <1>5, <1>6, <2>1 DEF Sees
  <2>3. h \in Reach(node, h)
    BY <1>1, <1>2, ReachIs
  <2>4. node[h].val \in ValuesAt(node, h, node[h].key)
    BY <1>1, <1>2, <2>3, HeldSome
  <2>5. node[h].val = Contents[call[t].key]
    BY <1>1, <2>1, <2>4 DEF Only
  <2> QED
    BY <1>3, <1>4, <1>8, <2>1, <2>2, <2>5 DEF Sees, IsKeyed
<1>9. CASE opc'[t] \notin {"Node", "Value"}
  BY <1>9, SeesAway
<1> QED
  BY <1>7, <1>8, <1>9

(* and one that goes on down a list *)
LEMMA SeesNode ==
    ASSUME MapInv, RInv, Watch, NEW t \in Threads, Flows(t), GetNode(t)
    PROVE  /\ Sees(t)'
           /\ opc'[t] = "Done" => None \in seen[t]
<1>1. MapTyped /\ Linked(node) /\ CallTyped(call[t]) /\ Control(t) /\ cur[t] \in 0..Len(node)
      /\ opc[t] = "Node"
  BY InvParts, PlaceTyped DEF GetNode, At
<1>2. /\ call[t].op = "get" /\ IsKeyed(call[t]) /\ Key(t) = call[t].key /\ ~Removing(t)
      /\ ValuesAt(node, cur[t], call[t].key) \subseteq seen[t]
      /\ ValuesAt(node, cur[t], call[t].key) = {} => None \in seen[t]
      /\ Contents[call[t].key] \in seen[t]
      /\ call[t].key \in Keys /\ cur[t] \in 1..Len(node)
  <2>1. Sees(t)
    BY DEF RInv
  <2>2. call[t].op = "get" /\ IsKeyed(call[t])
    BY <1>1, <2>1 DEF Sees, IsKeyed
  <2>3. ~Removing(t) /\ cur[t] # 0
    BY <1>1, <2>2 DEF Control
  <2> QED
    BY <1>1, <2>1, <2>2, <2>3 DEF Sees, Key, CallTyped
<1>3. seen'[t] = seen[t] \cup {Contents'[call[t].key]} /\ UNCHANGED <<node, call>>
  BY <1>1, <1>2, SeenNext DEF GetNode
<1>4. IsKeyed(call'[t]) /\ Contents'[call'[t].key] \in seen'[t]
  BY <1>2, <1>3
<1>5. DOMAIN opc = Threads /\ DOMAIN cur = Threads
  BY <1>1 DEF MapTyped, HeapTyped, Domains
<1>6. CASE node[cur[t]].key = Key(t)
  <2>1. opc'[t] = "Value" /\ cur'[t] = cur[t]
    BY <1>5, <1>6 DEF GetNode, To, Set
  <2>2. cur[t] \in Reach(node, cur[t])
    BY <1>1, <1>2, ReachIs
  <2>3. node[cur[t]].val \in ValuesAt(node, cur[t], node[cur[t]].key)
    BY <1>1, <2>2, HeldSome
  <2>4. node[cur[t]].val \in seen'[t]
    BY <1>2, <1>3, <1>6, <2>3
  <2> QED
    BY <1>2, <1>3, <1>4, <1>6, <2>1, <2>4 DEF Sees
<1>7. CASE node[cur[t]].key # Key(t)
  <2>1. node[cur[t]].next \in 0..Len(node) /\ Reach(node, cur[t]) = {cur[t]} \cup Reach(node, node[cur[t]].next)
    BY <1>1, <1>2, ReachFirst
  <2>2. ValuesAt(node, node[cur[t]].next, call[t].key) = ValuesAt(node, cur[t], call[t].key)
    BY <1>2, <1>7, <2>1 DEF ValuesAt
  <2>3. CASE node[cur[t]].next = 0
    <3>1. opc'[t] = "Done"
      BY <1>5, <1>7, <2>3 DEF GetNode, Finish, To, Set
    <3>2. None \in seen[t]
      BY <1>2, <2>2, <2>3, HeldNothing
    <3> QED
      BY <3>1, <3>2, SeesAway
  <2>4. CASE node[cur[t]].next # 0
    <3>1. opc'[t] = "Node" /\ cur'[t] = node[cur[t]].next
      BY <1>5, <1>7, <2>4 DEF GetNode, To, Set
    <3> DEFINE x == node[cur[t]].next
    <3>2. ValuesAt(node, x, call[t].key) = ValuesAt(node, cur[t], call[t].key) /\ cur'[t] = x
      BY <2>2, <3>1
    <3> HIDE DEF x
    <3>3. ValuesAt(node, cur[t], call[t].key)' = ValuesAt(node, x, call[t].key)
      BY <1>3, <3>2 DEF ValuesAt, Reach, Closed
    <3> QED
      BY <1>2, <1>3, <1>4, <3>1, <3>2, <3>3 DEF Sees
  <2> QED
    BY <2>3, <2>4
<1> QED
  BY <1>6, <1>7

-----------------------------------------------------------------------------
(* What callers see of a step *)

Alike(t) == SeenCall(t)' = SeenCall(t) /\ SeenEffect(t)' = SeenEffect(t) /\ SeenResult(t)' = SeenResult(t)

Unnoticed(t) ==
    /\ Steady /\ Alike(t)
    /\ call'[t] = call[t] \/ (~IsKeyed(call[t]) /\ ~IsKeyed(call'[t]))

Begins(t) ==
    /\ Steady /\ SeenCall(t) = [op |-> "none"] /\ SeenCall(t)' \in Abstract!Calls
    /\ SeenEffect(t)' = SeenEffect(t) /\ SeenResult(t)' = SeenResult(t)

Reads(t) ==
    /\ Steady /\ call'[t] = call[t] /\ call[t].op \in {"get", "try_insert"}
    /\ ~SeenEffect(t) /\ SeenEffect(t)'
    /\ SeenResult(t)' \in seen[t] /\ (call[t].op = "get" \/ SeenResult(t)' # None)

Empties(t) ==
    /\ call'[t] = call[t] /\ call[t].op = "clear" /\ ~SeenEffect(t) /\ Alike(t)
    /\ Doomed \subseteq Doomed' /\ Doomed' \in SUBSET Keys
    /\ \E gone \in SUBSET Keys : Without(gone)

Clears(t) ==
    /\ Steady /\ call'[t] = call[t] /\ call[t].op \in {"clear"} \cup Retains
    /\ ~SeenEffect(t) /\ SeenEffect(t)' /\ SeenResult(t)' = SeenResult(t)

Vanishes(t) ==
    /\ call'[t] = call[t] /\ Alike(t)
    /\ \E gone \in SUBSET Doomed : Doomed' = Doomed \ gone /\ Without(gone)

Ends(t) ==
    /\ Steady /\ SeenEffect(t) /\ ~SeenEffect(t)'
    /\ SeenCall(t)' = [op |-> "none"] /\ SeenResult(t)' = None

Seems(t) ==
    \/ Unnoticed(t) \/ Begins(t) \/ Updates(t) \/ Reads(t) \/ Removes(t)
    \/ Empties(t) \/ Clears(t) \/ Vanishes(t) \/ Ends(t)

(* What callers see of the map is as it was. *)
AsBefore == UNCHANGED <<Contents, CallSeen, ResultSeen, EffectSeen, seen, Doomed>>

LEMMA UnnoticedIs ==
    ASSUME MapTyped, RInv, Watch, NEW t \in Threads, AnyStep(t), \A u \in Threads : Flows(u), Unnoticed(t)
    PROVE  AsBefore
<1>1. CallSeen' = CallSeen /\ EffectSeen' = EffectSeen /\ ResultSeen' = ResultSeen
  <2>1. DOMAIN result = Threads
    BY DEF RInv
  <2>2. \A u \in Threads : Alike(u)
    BY <2>1, SeenOthers DEF Unnoticed, Alike
  <2> QED
    BY <2>2, SeenAre, SeenAreNext DEF Alike
<1>2. ASSUME NEW u \in Threads PROVE seen'[u] = seen[u]
  <2>1. call'[u] = call[u] \/ (~IsKeyed(call[u]) /\ ~IsKeyed(call'[u]))
    BY MapOthers DEF MapSame, Unnoticed
  <2>2. /\ IF IsKeyed(call[u]) THEN Contents[call[u].key] \in seen[u] ELSE seen[u] = {}
        /\ Contents' = Contents
    BY DEF RInv, Sees, Unnoticed, Steady
  <2>3. /\ IF IsKeyed(call'[u]) THEN Contents'[call'[u].key] \in seen'[u] ELSE seen'[u] = {}
        /\ IsKeyed(call'[u]) /\ call'[u] = call[u] => seen'[u] = seen[u] \cup {Contents'[call[u].key]}
    BY SeenNext
  <2> QED
    BY <2>1, <2>2, <2>3
<1>3. seen' = seen
  <2>1. seen' = [u \in Threads |-> seen'[u]] /\ seen = [u \in Threads |-> seen[u]]
    <3>1. seen' = [u \in Threads |-> seen'[u]]
      BY DEF Watch
    <3>2. seen = [u \in Threads |-> seen[u]]
      BY DEF RInv
    <3> QED
      BY <3>1, <3>2
  <2> QED
    BY <1>2, <2>1
<1> QED
  BY <1>1, <1>3 DEF AsBefore, Unnoticed, Steady

LEMMA SeemsAbstract ==
    ASSUME MapInv, MapInv', RInv, Watch, NEW t \in Threads, AnyStep(t), \A u \in Threads : Flows(u),
           Seems(t)
    PROVE  [Abstract!Next]_<<Contents, CallSeen, ResultSeen, EffectSeen, seen, Doomed>>
<1>0. MapTyped /\ MapTyped' /\ DOMAIN result = Threads
  BY DEF MapInv, RInv
<1>1. Abstract!Watch(Contents')
  BY <1>0, WatchSeen
<1>2. /\ CallSeen' = [CallSeen EXCEPT ![t] = SeenCall(t)']
      /\ EffectSeen' = [EffectSeen EXCEPT ![t] = SeenEffect(t)']
      /\ ResultSeen' = [ResultSeen EXCEPT ![t] = SeenResult(t)']
      /\ CallSeen[t] = SeenCall(t) /\ EffectSeen[t] = SeenEffect(t) /\ ResultSeen[t] = SeenResult(t)
  BY <1>0, SeenTurns
<1>3. /\ CallSeen = [u \in Threads |-> SeenCall(u)] /\ EffectSeen = [u \in Threads |-> SeenEffect(u)]
      /\ ResultSeen = [u \in Threads |-> SeenResult(u)]
  BY SeenAre
<1>4. /\ SeenCall(t)' = SeenCall(t) => CallSeen' = CallSeen
      /\ SeenEffect(t)' = SeenEffect(t) => EffectSeen' = EffectSeen
      /\ SeenResult(t)' = SeenResult(t) => ResultSeen' = ResultSeen
  BY <1>2, <1>3
<1>5. call'[t] = call[t] => SeenCall(t)' = SeenCall(t)
  BY DEF SeenCall
<1>6. /\ CallTyped(call[t]) /\ (opc[t] = "idle" <=> call[t].op = "none")
      /\ Removing(t) => call[t].op \in Retains
  BY <1>0, PlaceTyped DEF Control
<1>7. CASE Unnoticed(t)
  BY <1>0, <1>7, UnnoticedIs DEF AsBefore
<1>8. CASE Begins(t)
  <2>1. Abstract!Begin(t)
    BY <1>1, <1>2, <1>4, <1>8 DEF Begins, Steady, Abstract!Begin, Abstract!NoCall
  <2> QED
    BY <2>1 DEF Abstract!Next
<1>9. CASE Updates(t)
  <2>1. /\ call[t].op \in Keyed \ {"get"} /\ call'[t] = call[t] /\ ~Removing(t) /\ ~Removing(t)'
        /\ SeenCall(t) = call[t] /\ call[t] # [op |-> "none"]
    BY <1>9 DEF Updates, SeenCall, Removing
  <2>2. SeenEffect(t) = FALSE /\ SeenEffect(t)' = TRUE
    BY <1>9, <2>1 DEF Updates, SeenEffect
  <2>3. SeenResult(t)' = Abstract!Answer(call[t], Contents[call[t].key])
    BY <1>0, <1>9, <2>1 DEF Updates, SeenResult, Set
  <2>4. Abstract!Update(t)
    BY <1>1, <1>2, <1>4, <1>5, <1>9, <2>1, <2>2, <2>3
       DEF Updates, Abstract!Update, Abstract!NoCall, Abstract!Several
  <2> QED
    BY <2>4 DEF Abstract!Next
<1>10. CASE Reads(t)
  <2>1. SeenEffect(t)' = TRUE /\ SeenEffect(t) = FALSE /\ SeenCall(t) = call[t]
    BY <1>10 DEF Reads, SeenEffect, SeenCall
  <2>2. Abstract!Read(t)
    BY <1>1, <1>2, <1>4, <1>5, <1>10, <2>1 DEF Reads, Steady, Abstract!Read
  <2> QED
    BY <2>2 DEF Abstract!Next
<1>11. CASE Removes(t)
  <2> DEFINE k == walk[t].sight.key
  <2>1. /\ SeenEffect(t) = FALSE /\ SeenEffect(t)' = FALSE /\ SeenCall(t) = call[t] /\ call'[t] = call[t]
        /\ SeenResult(t)' = SeenResult(t)
    BY <1>11 DEF Removes, SeenEffect, SeenCall, SeenResult, Removing
  <2>2. Abstract!RetainOut(t, k)
    BY <1>1, <1>2, <1>4, <1>5, <1>11, <2>1 DEF Removes, Abstract!RetainOut
  <2>3. k \in Keys
    BY <1>11 DEF Removes
  <2> QED
    BY <2>2, <2>3 DEF Abstract!Next
<1>12. CASE Empties(t)
  <2>1. SeenEffect(t) = FALSE /\ SeenCall(t) = call[t]
    BY <1>12 DEF Empties, SeenEffect, SeenCall
  <2>2. Abstract!ClearSome(t)
    BY <1>1, <1>2, <1>4, <1>12, <2>1 DEF Empties, Alike, Without, Abstract!ClearSome, Abstract!Drop
  <2> QED
    BY <2>2 DEF Abstract!Next
<1>13. CASE Clears(t)
  <2>1. SeenEffect(t)' = TRUE /\ SeenEffect(t) = FALSE /\ SeenCall(t) = call[t]
    BY <1>13 DEF Clears, SeenEffect, SeenCall
  <2>2. Abstract!Cleared(t)
    BY <1>1, <1>2, <1>4, <1>5, <1>13, <2>1 DEF Clears, Steady, Abstract!Cleared, Abstract!Several
  <2> QED
    BY <2>2 DEF Abstract!Next
<1>14. CASE Vanishes(t)
  <2>1. PICK gone \in SUBSET Doomed : Doomed' = Doomed \ gone /\ Without(gone)
    BY <1>14 DEF Vanishes
  <2>2. CASE gone = {}
    <3>1. Contents' = Contents
      <4>1. Contents \in [Keys -> Values \cup {None}]
        BY ContentsTyped
      <4> QED
        BY <2>1, <2>2, <4>1 DEF Without
    <3>2. Unnoticed(t)
      BY <1>14, <2>1, <2>2, <3>1 DEF Vanishes, Unnoticed, Steady
    <3> QED
      BY <1>0, <3>2, UnnoticedIs DEF AsBefore
  <2>3. CASE gone # {}
    <3>1. Abstract!Vanish(gone)
      BY <1>1, <1>4, <1>14, <2>1 DEF Vanishes, Alike, Without, Abstract!Vanish, Abstract!Drop
    <3>2. gone \in (SUBSET Doomed) \ {{}}
      BY <2>1, <2>3
    <3> HIDE DEF Doomed
    <3>3. \E g \in (SUBSET Doomed) \ {{}} : Abstract!Vanish(g)
      BY <3>1, <3>2
    <3> QED
      BY <3>3, Zenon DEF Abstract!Next
  <2> QED
    BY <2>2, <2>3
<1>15. CASE Ends(t)
  <2>1. SeenEffect(t)' = FALSE /\ SeenEffect(t) = TRUE
    BY <1>15 DEF Ends, SeenEffect
  <2>2. Abstract!End(t)
    BY <1>1, <1>2, <1>15, <2>1 DEF Ends, Steady, Abstract!End, Abstract!NoCall
  <2> QED
    BY <2>2 DEF Abstract!Next
<1> QED
  BY <1>7, <1>8, <1>9, <1>10, <1>11, <1>12, <1>13, <1>14, <1>15 DEF Seems

-----------------------------------------------------------------------------
(* Each step of an operation *)

LinInv == MapInv /\ AInv /\ PInv /\ RInv

(* What is to be shown of a step of thread t *)
Fine(t) == HeapKeeps /\ Seems(t) /\ Sees(t)' /\ Answers(t)' /\ SightFits(t)'

LEMMA LinParts ==
    ASSUME LinInv, MapInv', NEW t \in Threads, AnyStep(t)
    PROVE  /\ MapInv /\ MapTyped /\ IInv /\ PInv /\ SameAddress /\ RInv /\ SightFits(t) /\ Answers(t) /\ Sees(t)
           /\ \A u \in Threads : Flows(u)
           /\ Control(t) /\ CallTyped(call[t]) /\ WalkTyped(walk[t])
           /\ DOMAIN opc = Threads /\ DOMAIN cur = Threads /\ DOMAIN walk = Threads
           /\ DOMAIN call = Threads /\ DOMAIN result = Threads
<1>1. MapInv /\ MapTyped /\ IInv /\ PInv /\ SameAddress /\ RInv /\ SightFits(t) /\ Answers(t) /\ Sees(t)
  BY InvParts DEF LinInv, AInv, RInv
<1>2. \A u \in Threads : Flows(u)
  BY <1>1, CallFlows
<1>3. Control(t) /\ CallTyped(call[t]) /\ WalkTyped(walk[t])
  BY <1>1, PlaceTyped
<1>4. /\ DOMAIN opc = Threads /\ DOMAIN cur = Threads /\ DOMAIN walk = Threads
      /\ DOMAIN call = Threads /\ DOMAIN result = Threads
  BY <1>1 DEF MapTyped, HeapTyped, Domains, RInv
<1> QED
  BY <1>1, <1>2, <1>3, <1>4

(* A step that changes neither the answer nor whether there is one *)
LEMMA UnseenStep ==
    ASSUME NEW t \in Threads, Answers(t), Control(t), Steady,
           call'[t] = call[t], walk'[t].sight = walk[t].sight,
           \/ Removing(t)
           \/ /\ result'[t] = result[t]
              /\ call[t].op = "iter" \/ (opc[t] \in Effective <=> opc'[t] \in Effective)
    PROVE  Unnoticed(t) /\ Answers(t)'
<1>1. Removing(t)' <=> Removing(t)
  BY DEF Removing
<1>2. CASE Removing(t)
  <2>1. call[t].op \in Retains
    BY <1>2 DEF Control
  <2>2. Alike(t)
    BY <1>1, <1>2 DEF Alike, SeenCall, SeenEffect, SeenResult
  <2> QED
    BY <1>1, <1>2, <2>1, <2>2 DEF Unnoticed, Answers
<1>3. CASE ~Removing(t)
  <2>1. result'[t] = result[t] /\ (call[t].op = "iter" \/ (opc[t] \in Effective <=> opc'[t] \in Effective))
    BY <1>3
  <2>2. SeenCall(t)' = SeenCall(t) /\ SeenResult(t)' = SeenResult(t)
    BY <1>1, <2>1 DEF SeenCall, SeenResult
  <2>3. SeenEffect(t)' = SeenEffect(t)
    BY <1>1, <2>1 DEF SeenEffect
  <2> QED
    BY <1>1, <1>3, <2>1, <2>2, <2>3 DEF Unnoticed, Alike, Answers
<1> QED
  BY <1>2, <1>3

(* One that gives a call of a caller its answer *)
LEMMA AnswersDone ==
    ASSUME NEW t \in Threads, Answers(t), call'[t] = call[t], opc'[t] \in Effective, call[t].op # "iter"
    PROVE  Answers(t)'
  BY DEF Answers

LEMMA UpdateFine ==
    ASSUME LinInv, MapInv', Watch, NEW t \in Threads, AnyStep(t), HeapKeeps, Updates(t)
    PROVE  Fine(t)
<1>1. call'[t] = call[t] /\ walk'[t] = walk[t] /\ opc'[t] \in Effective /\ call[t].op # "iter"
  BY DEF Updates
<1>2. Sees(t)'
  BY <1>1, LinParts, SeesAway DEF Effective
<1>3. Answers(t)'
  BY <1>1, LinParts, AnswersDone
<1>4. SightFits(t)'
  BY <1>1, LinParts DEF HeapKeeps
<1> QED
  BY <1>2, <1>3, <1>4 DEF Fine, Seems

(* The steps of the resize *)
LEMMA InsideFine ==
    ASSUME LinInv, MapInv', Watch, NEW t \in Threads, AnyStep(t), HeapKeeps,
           UNCHANGED <<walk, call, opc, cur, result>>
    PROVE  /\ Sees(t)' /\ Answers(t)' /\ SightFits(t)' /\ Alike(t)
           /\ Steady => Fine(t)
<1>1. SightFits(t)'
  BY LinParts DEF HeapKeeps
<1>2. Sees(t)'
  BY LinParts, SeesStays DEF HeapKeeps
<1>3. Removing(t)' <=> Removing(t)
  BY DEF Removing
<1>4. Answers(t)'
  BY <1>3, LinParts DEF Answers
<1>5. Alike(t)
  BY <1>3 DEF Alike, SeenCall, SeenEffect, SeenResult
<1> QED
  BY <1>1, <1>2, <1>4, <1>5 DEF Fine, Seems, Unnoticed

LEMMA TransferFine ==
    ASSUME LinInv, MapInv', Watch, NEW t \in Threads, AnyStep(t), Transfer(t) \/ Routine(t)
    PROVE  Fine(t)
<1>1. MapInv /\ PInv /\ SameAddress
  BY LinParts
<1>2. CASE Routine(t) \/ TransferBinMoved(t) \/ TransferBinForward(t) \/ TransferEmptyBin(t)
  <2>1. UNCHANGED <<walk, call, opc, cur, result>>
    BY <1>2 DEF Routine, TransferBinMoved, TransferBinForward, TransferEmptyBin
  <2> QED
    BY <1>1, <1>2, <2>1, RoutineMeans, InsideFine
<1>3. CASE TransferSplit(t)
  <2>1. UNCHANGED <<walk, call, opc, cur, result>>
    BY <1>3, SplitLeaves
  <2> QED
    BY <1>1, <1>3, <2>1, SplitMeans, InsideFine
<1>4. CASE TransferStoreLow(t) \/ TransferStoreHigh(t)
  <2>1. UNCHANGED <<walk, call, opc, cur, result>>
    BY <1>4 DEF TransferStoreLow, TransferStoreHigh
  <2> QED
    BY <1>1, <1>4, <2>1, StoresMeans, InsideFine
<1>5. CASE TransferListBin(t)
  <2>1. UNCHANGED <<walk, call, opc, cur, result>>
    BY <1>5 DEF TransferListBin
  <2>2. HeapKeeps /\ \E gone \in SUBSET Doomed : Doomed' = Doomed \ gone /\ Without(gone)
    BY <1>1, <1>5, ListBinMeans
  <2>3. Sees(t)' /\ Answers(t)' /\ SightFits(t)' /\ Alike(t)
    BY <2>1, <2>2, InsideFine
  <2>4. Vanishes(t)
    BY <2>1, <2>2, <2>3 DEF Vanishes
  <2> QED
    BY <2>2, <2>3, <2>4 DEF Fine, Seems
<1> QED
  BY <1>2, <1>3, <1>4, <1>5 DEF Transfer

(* The steps of an operation that leave the lists alone *)
LEMMA IdleMeans ==
    ASSUME LinInv, MapInv', NEW t \in Threads, AnyStep(t), pc[t] = "idle", UNCHANGED <<heap, plan>>
    PROVE  Steady /\ HeapKeeps
<1>1. MapInv /\ PInv /\ SameAddress
  BY LinParts
<1> QED
  BY <1>1, OpMeans

LEMMA UnseenFine ==
    ASSUME LinInv, MapInv', Watch, NEW t \in Threads, AnyStep(t), Steady, HeapKeeps,
           call'[t] = call[t], walk'[t].sight = walk[t].sight, opc'[t] \notin {"Node", "Value"},
           \/ Removing(t)
           \/ /\ result'[t] = result[t]
              /\ call[t].op = "iter" \/ (opc[t] \in Effective <=> opc'[t] \in Effective)
    PROVE  Fine(t)
<1>1. Unnoticed(t) /\ Answers(t)'
  BY LinParts, UnseenStep
<1>2. Sees(t)'
  BY LinParts, SeesAway
<1>3. SightFits(t)'
  BY LinParts DEF HeapKeeps
<1> QED
  BY <1>1, <1>2, <1>3 DEF Fine, Seems

LEMMA NoTableFine ==
    ASSUME LinInv, MapInv', Watch, NEW t \in Threads, AnyStep(t), OpNoTable(t) \/ OpMovedBin(t)
    PROVE  Fine(t)
<1>1. pc[t] = "idle" /\ UNCHANGED <<heap, plan>> /\ UNCHANGED <<walk, call, opc, cur, result>>
  BY DEF OpNoTable, OpMovedBin, At
<1> QED
  BY <1>1, IdleMeans, InsideFine

(* A read that finds v *)
LEMMA ReadFine ==
    ASSUME LinInv, MapInv', Watch, NEW t \in Threads, AnyStep(t), Steady, HeapKeeps,
           UNCHANGED <<call, walk>>, call[t].op \in {"get", "try_insert"}, opc[t] \notin Effective,
           NEW v \in seen[t], call[t].op = "get" \/ v # None, Finish(t, v)
    PROVE  Fine(t)
<1>1. opc'[t] = "Done" /\ result'[t] = v
  BY LinParts DEF Finish, To, Set
<1>2. ~Removing(t) /\ ~Removing(t)' /\ call'[t] = call[t]
  BY LinParts DEF Control, Removing
<1>3. ~SeenEffect(t) /\ SeenEffect(t)' /\ SeenResult(t)' = v
  BY <1>1, <1>2 DEF SeenEffect, SeenResult, Effective
<1>4. Reads(t)
  BY <1>2, <1>3 DEF Reads
<1>5. Answers(t)'
  BY <1>1, <1>2, LinParts, AnswersDone DEF Effective
<1>6. Sees(t)'
  BY <1>1, LinParts, SeesAway
<1>7. SightFits(t)'
  BY LinParts DEF HeapKeeps
<1> QED
  BY <1>4, <1>5, <1>6, <1>7 DEF Fine, Seems

(* An update of a key that is not there, and that is not to be *)
LEMMA AbsentFine ==
    ASSUME LinInv, MapInv', Watch, NEW t \in Threads, AnyStep(t), Steady, HeapKeeps,
           UNCHANGED <<call, walk>>, call[t].op \in {"remove", "compute_if_present"}, ~Removing(t),
           opc[t] \notin Effective, Contents[call[t].key] = None, call[t].key \notin Doomed,
           Finish(t, None)
    PROVE  Fine(t)
<1>1. opc'[t] = "Done" /\ opc[t] # "idle" /\ call[t].key \in Keys
  BY LinParts DEF Finish, To, Set, Control, CallTyped
<1>2. /\ Abstract!After(call[t], Contents[call[t].key]) = None
      /\ Abstract!Answer(call[t], Contents[call[t].key]) = None
  BY DEF Abstract!After, Abstract!Answer
<1>3. [Contents EXCEPT ![call[t].key] = None] = Contents
  BY <1>1, LinParts, ContentsTyped
<1>4. Updates(t)
  BY <1>1, <1>2, <1>3 DEF Updates, Steady, Finish, Effective
<1> QED
  BY <1>4, UpdateFine

(* The end of a clear or of a retain *)
LEMMA ClearsFine ==
    ASSUME LinInv, MapInv', Watch, NEW t \in Threads, AnyStep(t), Steady, HeapKeeps,
           call'[t] = call[t], walk'[t].sight = walk[t].sight, call[t].op \in {"clear"} \cup Retains,
           ~Removing(t), opc[t] \notin Effective, opc'[t] \in Effective, result'[t] = result[t]
    PROVE  Fine(t)
<1>1. ~Removing(t)'
  BY DEF Removing
<1>2. ~SeenEffect(t) /\ SeenEffect(t)' /\ SeenResult(t)' = SeenResult(t)
  BY <1>1 DEF SeenEffect, SeenResult
<1>3. Clears(t)
  BY <1>2 DEF Clears
<1>4. Answers(t)'
  BY LinParts, AnswersDone
<1>5. Sees(t)'
  BY LinParts, SeesAway DEF Effective
<1>6. SightFits(t)'
  BY LinParts DEF HeapKeeps
<1> QED
  BY <1>3, <1>4, <1>5, <1>6 DEF Fine, Seems

-----------------------------------------------------------------------------
(* The actions, one by one *)

(* What a walk does not look at *)
LEMMA SightOver ==
    ASSUME MapTyped, NEW t \in Threads, NEW x
    PROVE  /\ [walk EXCEPT ![t].at = x][t].sight = walk[t].sight
           /\ [walk EXCEPT ![t].at.index = x][t].sight = walk[t].sight
<1>1. t \in DOMAIN walk /\ IsWalk(walk[t], walk[t].at, walk[t].met, walk[t].removed, walk[t].sight)
  BY PlaceTyped DEF MapTyped, Domains, WalkTyped
<1>2. IsWalk([walk EXCEPT ![t].at = x][t], x, walk[t].met, walk[t].removed, walk[t].sight)
  BY <1>1, AtStored
<1>3. IsWalk([walk EXCEPT ![t].at.index = x][t], [walk[t].at EXCEPT !.index = x], walk[t].met,
             walk[t].removed, walk[t].sight)
  BY <1>1, IndexStored
<1> QED
  BY <1>2, <1>3 DEF IsWalk

LEMMA SightMeets ==
    ASSUME MapTyped, NEW t \in Threads, NEW p, NEW at, Meets(t, p, at)
    PROVE  walk'[t].sight = walk[t].sight /\ opc'[t] \in {"WalkOn", "Look"}
<1>1. t \in DOMAIN walk /\ IsWalk(walk[t], walk[t].at, walk[t].met, walk[t].removed, walk[t].sight)
  BY PlaceTyped DEF MapTyped, Domains, WalkTyped
<1>2. opc'[t] \in {"WalkOn", "Look"}
  BY DEF Meets, To, Set, MapTyped, Domains
<1>3. CASE call[t].op # "iter"
  <2>1. walk' = [walk EXCEPT ![t].at = at]
    BY <1>3 DEF Meets
  <2>2. [walk EXCEPT ![t].at = at][t].sight = walk[t].sight
    BY SightOver
  <2> QED
    BY <1>2, <2>1, <2>2
<1>4. CASE call[t].op = "iter"
  <2> DEFINE w == [walk EXCEPT ![t].at = at]
             m == Append(walk[t].met, node[p].key)
  <2>1. IsWalk(w[t], at, walk[t].met, walk[t].removed, walk[t].sight) /\ t \in DOMAIN w
    BY <1>1, AtStored
  <2>2. walk' = [w EXCEPT ![t].met = m]
    <3>1. w[t].met = walk[t].met
      BY <2>1 DEF IsWalk
    <3> QED
      BY <1>4, <3>1 DEF Meets
  <2> HIDE DEF w, m
  <2>3. IsWalk([w EXCEPT ![t].met = m][t], at, m, walk[t].removed, walk[t].sight)
    BY <2>1, MetStored
  <2> QED
    BY <1>2, <2>2, <2>3 DEF IsWalk
<1> QED
  BY <1>3, <1>4

LEMMA SightCleared ==
    ASSUME MapTyped, NEW t \in Threads, NEW i, NEW r,
           walk' = [walk EXCEPT ![t].at.index = i, ![t].removed = @ + r]
    PROVE  walk'[t].sight = walk[t].sight
<1>1. t \in DOMAIN walk /\ IsWalk(walk[t], walk[t].at, walk[t].met, walk[t].removed, walk[t].sight)
  BY PlaceTyped DEF MapTyped, Domains, WalkTyped
<1> DEFINE w == [walk EXCEPT ![t].at.index = i]
           a == [walk[t].at EXCEPT !.index = i]
           s == walk[t].removed + r
<1>2. IsWalk(w[t], a, walk[t].met, walk[t].removed, walk[t].sight) /\ t \in DOMAIN w
  BY <1>1, IndexStored
<1>3. walk' = [w EXCEPT ![t].removed = s]
  <2>1. w[t].removed = walk[t].removed
    BY <1>2 DEF IsWalk
  <2> QED
    BY <2>1
<1> HIDE DEF w, a, s
<1>4. IsWalk([w EXCEPT ![t].removed = s][t], a, walk[t].met, s, walk[t].sight)
  BY <1>2, RemovedStored
<1>5. IsWalk(walk'[t], a, walk[t].met, s, walk[t].sight)
  BY <1>3, <1>4
<1> QED
  BY <1>5 DEF IsWalk

(* The first step of a call *)
LEMMA LoadTableFine ==
    ASSUME LinInv, MapInv', Watch, NEW t \in Threads, AnyStep(t), OpLoadTable(t)
    PROVE  Fine(t)
<1>1. /\ opc[t] = "Table" /\ pc[t] = "idle" /\ UNCHANGED <<heap, plan>> /\ call' = call
      /\ Steady /\ HeapKeeps
  BY IdleMeans DEF OpLoadTable, At
<1>2. walk'[t].sight = walk[t].sight
  <2>1. MapTyped
    BY LinParts
  <2> QED
    BY <2>1, SightOver DEF OpLoadTable
<1>3. /\ Control(t) /\ CallTyped(call[t]) /\ Answers(t) /\ Sees(t)
      /\ DOMAIN opc = Threads /\ DOMAIN cur = Threads /\ DOMAIN result = Threads
  BY LinParts
<1>4. CASE ~(table = Null /\ Op(t) \in {"get", "remove", "clear"} \cup Walkers)
  <2>1. opc'[t] \in {"Walk", "Clear", "Bin"} /\ result'[t] = result[t]
    BY <1>3, <1>4 DEF OpLoadTable, To, Set
  <2> QED
    BY <1>1, <1>2, <2>1, UnseenFine DEF Effective
<1>5. CASE table = Null /\ Op(t) \in {"get", "remove", "clear"} \cup Walkers
  <2>1. Finish(t, None) /\ opc'[t] = "Done" /\ result'[t] = None
    BY <1>3, <1>5 DEF OpLoadTable, Finish, To, Set
  <2>2. CASE Removing(t)
    BY <1>1, <1>2, <2>1, <2>2, UnseenFine
  <2>3. CASE ~Removing(t)
    <3>1. result[t] = None /\ Op(t) = call[t].op
      BY <1>1, <1>3, <2>3 DEF Answers, Effective, Op
    <3>2. CASE call[t].op = "iter"
      BY <1>1, <1>2, <2>1, <3>1, <3>2, UnseenFine
    <3>3. CASE call[t].op \in {"clear"} \cup Retains
      <4>1. opc[t] \notin Effective /\ opc'[t] \in Effective /\ result'[t] = result[t]
        BY <1>1, <2>1, <3>1 DEF Effective
      <4> QED
        BY <1>1, <1>2, <2>3, <3>3, <4>1, ClearsFine
    <3>4. CASE call[t].op \in {"get", "remove"}
      <4>1. UNCHANGED <<call, walk>>
        BY <1>1, <3>1, <3>4 DEF OpLoadTable
      <4>2. Contents[call[t].key] = None /\ Doomed = {}
        <5>1. MapInv
          BY LinParts
        <5>2. HomesFit /\ PlansHome /\ DoomedIs
          BY <5>1, HomeKnown, PlansKnown, DoomedKnown
        <5>3. call[t].key \in Keys
          BY <1>3, <3>4 DEF CallTyped
        <5>4. \A u \in Threads : ~Planning(u)
          BY <1>5, <5>2 DEF PlansHome, PlanHome
        <5> QED
          BY <1>5, <5>2, <5>3, <5>4 DEF HomesFit, DoomedIs, Spoiled
      <4>3. opc[t] \notin Effective
        BY <1>1 DEF Effective
      <4>4. CASE call[t].op = "get"
        <5>1. None \in seen[t]
          BY <1>3, <4>2, <4>4 DEF Sees, IsKeyed
        <5> QED
          BY <1>1, <2>1, <4>1, <4>3, <4>4, <5>1, ReadFine
      <4>5. CASE call[t].op = "remove"
        BY <1>1, <2>1, <2>3, <4>1, <4>2, <4>3, <4>5, AbsentFine
      <4> QED
        BY <3>4, <4>4, <4>5
    <3> QED
      BY <1>5, <3>1, <3>2, <3>3, <3>4
  <2> QED
    BY <2>2, <2>3
<1> QED
  BY <1>4, <1>5

(* The search for the bin *)
LEMMA EmptyBinFine ==
    ASSUME LinInv, MapInv', Watch, NEW t \in Threads, AnyStep(t), OpEmptyBin(t)
    PROVE  Fine(t)
<1>1. /\ opc[t] = "Bin" /\ pc[t] = "idle" /\ UNCHANGED <<heap, plan>> /\ UNCHANGED <<call, walk>>
      /\ tab[t] # Null /\ ~ThisBinMoved(t) /\ ThisBin(t) = 0 /\ Steady /\ HeapKeeps
  BY IdleMeans DEF OpEmptyBin, At
<1>2. /\ Control(t) /\ CallTyped(call[t]) /\ Answers(t) /\ Sees(t) /\ MapInv /\ HeapTyped
      /\ DOMAIN opc = Threads /\ DOMAIN cur = Threads /\ DOMAIN result = Threads
  BY LinParts DEF MapTyped
<1>3. walk'[t].sight = walk[t].sight /\ opc[t] \notin Effective
  BY <1>1 DEF Effective
<1>4. CASE Op(t) \in {"insert", "try_insert"}
  <2>1. opc'[t] = "Cas" /\ result'[t] = result[t]
    BY <1>2, <1>4 DEF OpEmptyBin, To, Set
  <2> QED
    BY <1>1, <1>3, <2>1, UnseenFine DEF Effective
<1>5. CASE Op(t) \notin {"insert", "try_insert"}
  <2>1. Finish(t, None) /\ opc'[t] = "Done"
    BY <1>2, <1>5 DEF OpEmptyBin, Finish, To, Set
  <2>2. CASE Removing(t)
    BY <1>1, <1>3, <2>1, <2>2, UnseenFine
  <2>3. CASE ~Removing(t)
    <3>1. call[t].op \in {"get", "remove", "compute_if_present"} /\ Key(t) = call[t].key
      BY <1>1, <1>2, <1>5, <2>3 DEF Control, Op, Key
    <3>2. Contents[call[t].key] = None /\ call[t].key \notin Doomed
      <4>1. /\ ValuesAt(node, ThisBin(t), Key(t)) = Only(Contents[Key(t)])
            /\ ThisBin(t) \notin locked => Key(t) \notin Doomed
        BY <1>1, <1>2, AimedAt
      <4>2. ValuesAt(node, 0, Key(t)) = {}
        BY HeldNothing
      <4>3. 0 \notin locked
        BY <1>2 DEF HeapTyped
      <4> QED
        BY <1>1, <3>1, <4>1, <4>2, <4>3 DEF Only
    <3>3. CASE call[t].op = "get"
      <4>1. None \in seen[t]
        BY <1>2, <3>2, <3>3 DEF Sees, IsKeyed
      <4> QED
        BY <1>1, <1>3, <2>1, <3>3, <4>1, ReadFine
    <3>4. CASE call[t].op \in {"remove", "compute_if_present"}
      BY <1>1, <1>3, <2>1, <2>3, <3>2, <3>4, AbsentFine
    <3> QED
      BY <3>1, <3>3, <3>4
  <2> QED
    BY <2>2, <2>3
<1> QED
  BY <1>4, <1>5

(* A search that comes to a list *)
LEMMA ArriveFine ==
    ASSUME LinInv, MapInv', Watch, NEW t \in Threads, AnyStep(t), opc[t] \in {"Bin", "Cas"}, pc[t] = "idle",
           tab[t] # Null, ~ThisBinMoved(t), ThisBin(t) # 0, UNCHANGED <<heap, plan, call, walk, result>>,
           To(t, NextWith(t, ThisBin(t)), ThisBin(t))
    PROVE  Fine(t)
<1>1. Steady /\ HeapKeeps
  BY IdleMeans
<1>2. Sees(t)'
  <2>1. MapInv /\ RInv /\ Flows(t) /\ UNCHANGED <<node, call>>
    BY LinParts
  <2> QED
    BY <2>1, SeesBin
<1>3. opc'[t] \in {"Node", "Value", "Lock"} /\ Control(t) /\ Answers(t)
  BY LinParts DEF To, Set, NextWith
<1>4. Unnoticed(t) /\ Answers(t)'
  BY <1>1, <1>3, UnseenStep DEF Effective
<1>5. SightFits(t)'
  BY <1>1, LinParts DEF HeapKeeps
<1> QED
  BY <1>1, <1>2, <1>4, <1>5 DEF Fine, Seems

LEMMA ListBinFine ==
    ASSUME LinInv, MapInv', Watch, NEW t \in Threads, AnyStep(t), OpListBin(t)
    PROVE  Fine(t)
<1>1. /\ opc[t] = "Bin" /\ pc[t] = "idle" /\ tab[t] # Null /\ ~ThisBinMoved(t) /\ ThisBin(t) # 0
      /\ UNCHANGED <<heap, plan, call, walk, result>> /\ To(t, NextWith(t, ThisBin(t)), ThisBin(t))
  BY DEF OpListBin, At
<1> QED
  BY <1>1, ArriveFine

(* get *)
LEMMA GetFine ==
    ASSUME LinInv, MapInv', Watch, NEW t \in Threads, AnyStep(t), GetNode(t) \/ LoadValue(t)
    PROVE  Fine(t)
<1>1. /\ opc[t] \in {"Node", "Value"} /\ pc[t] = "idle" /\ UNCHANGED <<heap, plan>>
      /\ UNCHANGED <<call, walk>> /\ Steady /\ HeapKeeps
  BY IdleMeans DEF GetNode, LoadValue, At
<1>2. /\ Control(t) /\ CallTyped(call[t]) /\ Answers(t) /\ Sees(t) /\ MapInv /\ RInv /\ Flows(t)
      /\ DOMAIN opc = Threads /\ DOMAIN cur = Threads /\ DOMAIN result = Threads /\ MapTyped
  BY LinParts
<1>3. opc[t] \notin Effective
  BY <1>1 DEF Effective
<1>4. CASE LoadValue(t)
  <2>1. opc[t] = "Value" /\ Finish(t, node[cur[t]].val)
    BY <1>4 DEF LoadValue, At
  <2>2. call[t].op \in {"get", "try_insert"} /\ node[cur[t]].val \in seen[t]
    BY <1>2, <2>1 DEF Sees
  <2>3. node[cur[t]].val # None
    <3>1. cur[t] \in 0..Len(node) /\ cur[t] # 0 /\ Linked(node)
      BY <1>2, <2>1, InvParts, PlaceTyped DEF Control
    <3>2. cur[t] \in 1..Len(node)
      BY <3>1
    <3>3. node[cur[t]].val \in Values
      BY <3>1, <3>2 DEF Linked
    <3> QED
      BY <3>3, NoneAssumption
  <2> QED
    BY <1>1, <1>3, <2>1, <2>2, <2>3, ReadFine
<1>5. CASE GetNode(t)
  <2>1. Sees(t)' /\ (opc'[t] = "Done" => None \in seen[t])
    BY <1>2, <1>5, SeesNode
  <2>2. opc[t] = "Node" /\ call[t].op = "get"
    BY <1>2, <1>5 DEF GetNode, At, Sees
  <2>3. CASE Finish(t, None)
    <3>1. opc'[t] = "Done"
      BY <1>2, <2>3 DEF Finish, To, Set
    <3> QED
      BY <1>1, <1>3, <2>1, <2>2, <2>3, <3>1, ReadFine
  <2>4. CASE opc'[t] \in {"Node", "Value"} /\ result' = result
    <3>1. Unnoticed(t) /\ Answers(t)'
      BY <1>1, <1>2, <2>2, <2>4, UnseenStep DEF Effective
    <3>2. SightFits(t)'
      BY <1>1, LinParts DEF HeapKeeps
    <3> QED
      BY <1>1, <2>1, <3>1, <3>2 DEF Fine, Seems
  <2>5. Finish(t, None) \/ (opc'[t] \in {"Node", "Value"} /\ result' = result)
    BY <1>2, <1>5 DEF GetNode, To, Set
  <2> QED
    BY <2>3, <2>4, <2>5
<1> QED
  BY <1>4, <1>5

(* put, when it finds the bin empty *)
LEMMA CasFine ==
    ASSUME LinInv, MapInv', Watch, NEW t \in Threads, AnyStep(t), PutCas(t)
    PROVE  Fine(t)
<1>1. /\ opc[t] = "Cas" /\ pc[t] = "idle" /\ UNCHANGED <<locked, plan, walk, call>>
  BY DEF PutCas, At
<1>2. /\ MapInv /\ PInv /\ SameAddress /\ Control(t) /\ DOMAIN opc = Threads
  BY LinParts
<1>3. tab[t] # Null
  BY <1>1, <1>2 DEF Control
<1>4. CASE ThisBin(t) = 0 /\ ~ThisBinMoved(t)
  BY <1>2, <1>4, PutCasMeans, UpdateFine
<1>5. CASE ThisBinMoved(t)
  <2>1. opc'[t] = "Bin" /\ UNCHANGED <<heap, plan>> /\ result'[t] = result[t]
    BY <1>1, <1>2, <1>5 DEF PutCas, To, Set
  <2>2. Steady /\ HeapKeeps
    BY <1>1, <2>1, IdleMeans
  <2> QED
    BY <1>1, <2>1, <2>2, UnseenFine DEF Effective
<1>6. CASE ThisBin(t) # 0 /\ ~ThisBinMoved(t)
  <2>1. UNCHANGED <<heap, plan, call, walk, result>> /\ To(t, NextWith(t, ThisBin(t)), ThisBin(t))
    BY <1>1, <1>6 DEF PutCas
  <2> QED
    BY <1>1, <1>3, <1>6, <2>1, ArriveFine
<1> QED
  BY <1>4, <1>5, <1>6

(* The critical sections *)
LEMMA LockedFine ==
    ASSUME LinInv, MapInv', Watch, NEW t \in Threads, AnyStep(t),
           PutLocked(t) \/ ComputeLocked(t) \/ RemoveLocked(t)
    PROVE  Fine(t)
<1>1. /\ MapInv /\ PInv /\ SameAddress /\ SightFits(t) /\ Control(t) /\ RInv /\ Flows(t) /\ Answers(t)
      /\ DOMAIN opc = Threads
  BY LinParts
<1>2. CASE PutLocked(t) \/ ComputeLocked(t)
  BY <1>1, <1>2, PutLockedMeans, ComputeLockedMeans, UpdateFine
<1>3. CASE RemoveLocked(t) /\ ~Removing(t)
  BY <1>1, <1>3, RemoveLockedMeans, UpdateFine
<1>4. CASE RemoveLocked(t) /\ Removing(t)
  <2>1. HeapKeeps /\ (Removes(t) \/ Steady)
    BY <1>1, <1>4, RemoveLockedMeans
  <2>2. opc'[t] \in {"Done", "Count"} /\ UNCHANGED <<walk, call>>
    BY <1>1, <1>4 DEF RemoveLocked, Finish, To, Set
  <2>3. CASE Steady
    BY <1>4, <2>1, <2>2, <2>3, UnseenFine
  <2>4. CASE Removes(t)
    <3>1. Sees(t)'
      BY <1>1, <2>2, SeesAway
    <3>2. Answers(t)'
      <4>1. Removing(t)' /\ call[t].op \in Retains
        BY <1>1, <1>4, <2>2 DEF Removing, Control
      <4> QED
        BY <2>2, <4>1 DEF Answers
    <3>3. SightFits(t)'
      BY <1>1, <2>1, <2>2 DEF HeapKeeps
    <3> QED
      BY <2>1, <2>4, <3>1, <3>2, <3>3 DEF Fine, Seems
  <2> QED
    BY <2>1, <2>3, <2>4
<1> QED
  BY <1>2, <1>3, <1>4

(* Before and after them *)
LEMMA AroundFine ==
    ASSUME LinInv, MapInv', Watch, NEW t \in Threads, AnyStep(t),
           OpHeadChanged(t) \/ PutTreeify(t) \/ OpCount(t)
    PROVE  Fine(t)
<1>1. pc[t] = "idle" /\ UNCHANGED <<heap, plan, walk, call, result>>
  BY DEF OpHeadChanged, PutTreeify, OpCount, CanLock, At
<1>2. Steady /\ HeapKeeps
  BY <1>1, IdleMeans
<1>3. \/ opc[t] = "Lock" /\ opc'[t] = "Bin"
      \/ opc[t] \in Effective /\ opc'[t] \in Effective
  <2>1. DOMAIN opc = Threads
    BY LinParts
  <2> QED
    BY <2>1 DEF OpHeadChanged, PutTreeify, OpCount, CanLock, At, To, Set, Effective
<1> QED
  BY <1>1, <1>2, <1>3, UnseenFine DEF Effective

(* Iterations *)
LEMMA WalkFine ==
    ASSUME LinInv, MapInv', Watch, NEW t \in Threads, AnyStep(t), WalkBin(t) \/ WalkOn(t)
    PROVE  Fine(t)
<1>1. /\ opc[t] \in {"Walk", "WalkOn"} /\ pc[t] = "idle" /\ UNCHANGED <<heap, plan, call, result>>
  BY DEF WalkBin, WalkOn, At
<1>2. Steady /\ HeapKeeps
  BY <1>1, IdleMeans
<1>3. MapTyped /\ DOMAIN opc = Threads
  BY LinParts
<1>4. walk'[t].sight = walk[t].sight /\ opc'[t] \in {"Walk", "WalkOn", "Look"}
  <2>1. CASE \E p, at : Meets(t, p, at)
    BY <1>3, <2>1, SightMeets
  <2>2. CASE opc'[t] = "Walk" /\ UNCHANGED walk
    BY <2>2
  <2>3. CASE (\E x : walk' = [walk EXCEPT ![t].at = x]) /\ UNCHANGED opc
    <3>1. PICK x : walk' = [walk EXCEPT ![t].at = x]
      BY <2>3
    <3>2. [walk EXCEPT ![t].at = x][t].sight = walk[t].sight
      BY <1>3, SightOver
    <3> QED
      BY <1>1, <2>3, <3>1, <3>2
  <2>4. CASE WalkOn(t)
    BY <1>3, <2>1, <2>2, <2>4 DEF WalkOn, To, Set
  <2>5. CASE WalkBin(t)
    BY <2>1, <2>3, <2>5 DEF WalkBin
  <2> QED
    BY <2>4, <2>5
<1> QED
  BY <1>1, <1>2, <1>4, UnseenFine DEF Effective

LEMMA WalkEndFine ==
    ASSUME LinInv, MapInv', Watch, NEW t \in Threads, AnyStep(t), WalkEnd(t)
    PROVE  Fine(t)
<1>1. /\ opc[t] = "Walk" /\ pc[t] = "idle" /\ UNCHANGED <<heap, plan, walk, call, result>>
  BY DEF WalkEnd, At
<1>2. Steady /\ HeapKeeps
  BY <1>1, IdleMeans
<1>3. opc'[t] = "Done" /\ call[t].op \in Walkers /\ opc[t] \notin Effective /\ opc'[t] \in Effective
  BY <1>1, LinParts DEF WalkEnd, To, Set, Control, Effective
<1>4. CASE Removing(t) \/ call[t].op = "iter"
  BY <1>1, <1>2, <1>3, <1>4, UnseenFine
<1>5. CASE ~Removing(t) /\ call[t].op # "iter"
  BY <1>1, <1>2, <1>3, <1>5, ClearsFine
<1> QED
  BY <1>4, <1>5

(* retain sees a value that it rejects: what its guard says is the value is. *)
LEMMA LookFine ==
    ASSUME LinInv, MapInv', Watch, NEW t \in Threads, AnyStep(t), RetainLook(t)
    PROVE  Fine(t)
<1>1. /\ opc[t] = "Look" /\ pc[t] = "idle" /\ UNCHANGED <<heap, plan, call, result>>
  BY DEF RetainLook, At
<1>2. Steady /\ HeapKeeps
  BY <1>1, IdleMeans
<1>3. /\ Control(t) /\ Answers(t) /\ MapTyped /\ SameAddress /\ RInv /\ Flows(t) /\ MapInv
      /\ DOMAIN opc = Threads /\ DOMAIN walk = Threads
      /\ IsWalk(walk[t], walk[t].at, walk[t].met, walk[t].removed, walk[t].sight)
  BY LinParts DEF WalkTyped
<1>4. call[t].op \in Retains /\ cur[t] # 0 /\ cur[t] \in 1..Len(node)
  <2>1. cur[t] \in 0..Len(node)
    BY <1>3, PlaceTyped
  <2> QED
    BY <1>1, <1>3, <2>1 DEF Control
<1>5. CASE node[cur[t]].val # call[t].val
  <2>1. opc'[t] = "WalkOn" /\ walk' = walk
    BY <1>3, <1>5 DEF RetainLook, To, Set
  <2> QED
    BY <1>1, <1>2, <2>1, UnseenFine DEF Effective
<1>6. CASE node[cur[t]].val = call[t].val
  <2> DEFINE s == [node |-> cur[t], key |-> node[cur[t]].key,
                   address |-> IF call[t].op = "retain" THEN node[cur[t]].address ELSE 0]
  <2>1. walk' = [walk EXCEPT ![t].sight = s] /\ opc'[t] = "Table"
    BY <1>3, <1>6 DEF RetainLook, To, Set
  <2>2. walk'[t].sight = s
    <3> HIDE DEF s
    <3>1. IsWalk([walk EXCEPT ![t].sight = s][t], walk[t].at, walk[t].met, walk[t].removed, s)
      BY <1>3, SightStored
    <3>2. IsWalk(walk'[t], walk[t].at, walk[t].met, walk[t].removed, s)
      BY <2>1, <3>1
    <3> QED
      BY <3>2 DEF IsWalk
  <2>3. /\ walk'[t].sight.node = cur[t] /\ walk'[t].sight.key = node[cur[t]].key
        /\ call[t].op = "retain" => walk'[t].sight.address = node[cur[t]].address
    BY <2>2
  <2>4. Removing(t)'
    BY <1>4, <2>3 DEF Removing
  <2>5. Unnoticed(t)
    <3>1. SeenResult(t) = None
      BY <1>1, <1>3 DEF SeenResult, Answers, Effective
    <3>2. Alike(t)
      BY <1>1, <2>4, <3>1 DEF Alike, SeenCall, SeenEffect, SeenResult, Effective
    <3> QED
      BY <1>1, <1>2, <3>2 DEF Unnoticed
  <2>6. Answers(t)'
    BY <1>1, <1>4, <2>4 DEF Answers
  <2>7. SightFits(t)'
    BY <1>1, <1>3, <1>4, <1>6, <2>3 DEF SightFits, SameAddress
  <2>8. Sees(t)'
    BY <1>3, <2>1, SeesAway
  <2> QED
    BY <1>2, <2>5, <2>6, <2>7, <2>8 DEF Fine, Seems
<1> QED
  BY <1>5, <1>6

LEMMA GoOnFine ==
    ASSUME LinInv, MapInv', Watch, NEW t \in Threads, AnyStep(t), RetainGoOn(t)
    PROVE  Fine(t)
<1>1. /\ opc[t] = "Done" /\ pc[t] = "idle" /\ UNCHANGED <<heap, plan, call>> /\ Removing(t)
      /\ walk' = [walk EXCEPT ![t].sight = NoSight]
  BY DEF RetainGoOn, At
<1>2. Steady /\ HeapKeeps
  BY <1>1, IdleMeans
<1>3. /\ Control(t) /\ MapInv /\ RInv /\ Flows(t)
      /\ DOMAIN opc = Threads /\ DOMAIN walk = Threads /\ DOMAIN result = Threads
      /\ IsWalk(walk[t], walk[t].at, walk[t].met, walk[t].removed, walk[t].sight)
  BY LinParts DEF WalkTyped
<1>4. opc'[t] = "WalkOn" /\ result'[t] = None /\ call[t].op \in Retains
  BY <1>1, <1>3 DEF RetainGoOn, To, Set, Control
<1>5. ~Removing(t)'
  <2> DEFINE s == NoSight
  <2>1. s.node = 0
    BY DEF NoSight
  <2> HIDE DEF s
  <2>2. walk' = [walk EXCEPT ![t].sight = s]
    BY <1>1 DEF s
  <2>3. IsWalk([walk EXCEPT ![t].sight = s][t], walk[t].at, walk[t].met, walk[t].removed, s)
    BY <1>3, SightStored
  <2>4. IsWalk(walk'[t], walk[t].at, walk[t].met, walk[t].removed, s)
    BY <2>2, <2>3
  <2>5. walk'[t].sight = s
    BY <2>4 DEF IsWalk
  <2> QED
    BY <2>1, <2>5 DEF Removing
<1>6. Unnoticed(t)
  <2>1. Alike(t)
    BY <1>1, <1>4, <1>5 DEF Alike, SeenCall, SeenEffect, SeenResult, Effective
  <2> QED
    BY <1>1, <1>2, <2>1 DEF Unnoticed
<1>7. Answers(t)'
  BY <1>1, <1>4 DEF Answers
<1>8. SightFits(t)'
  BY <1>5 DEF SightFits
<1>9. Sees(t)'
  BY <1>3, <1>4, SeesAway
<1> QED
  BY <1>2, <1>6, <1>7, <1>8, <1>9 DEF Fine, Seems

(* clear *)
LEMMA ClearFine ==
    ASSUME LinInv, MapInv', Watch, NEW t \in Threads, AnyStep(t), ClearBin(t) \/ ClearEnd(t)
    PROVE  Fine(t)
<1>1. /\ opc[t] = "Clear" /\ pc[t] = "idle" /\ UNCHANGED <<heap, plan, call, result>>
  BY DEF ClearBin, ClearEnd, At
<1>2. Steady /\ HeapKeeps
  BY <1>1, IdleMeans
<1>3. MapTyped /\ Control(t) /\ DOMAIN opc = Threads
  BY LinParts
<1>4. call[t].op = "clear" /\ ~Removing(t)
  BY <1>1, <1>3 DEF Control
<1>5. CASE ClearEnd(t)
  <2>1. opc[t] \notin Effective /\ opc'[t] \in Effective /\ walk' = walk
    BY <1>1, <1>3, <1>5 DEF ClearEnd, To, Set, Effective
  <2> QED
    BY <1>1, <1>2, <1>4, <2>1, ClearsFine
<1>6. CASE ClearBin(t)
  <2>1. opc'[t] \in {"Clear", "ClearLock"}
    BY <1>1, <1>3, <1>6 DEF ClearBin, To, Set
  <2>2. walk'[t].sight = walk[t].sight
    <3>1. walk' = walk \/ \E x : walk' = [walk EXCEPT ![t].at.index = x]
      BY <1>6 DEF ClearBin
    <3>2. ASSUME NEW x, walk' = [walk EXCEPT ![t].at.index = x] PROVE walk'[t].sight = walk[t].sight
      <4>1. [walk EXCEPT ![t].at.index = x][t].sight = walk[t].sight
        BY <1>3, SightOver
      <4> QED
        BY <3>2, <4>1
    <3> QED
      BY <3>1, <3>2
  <2> QED
    BY <1>1, <1>2, <2>1, <2>2, UnseenFine DEF Effective
<1> QED
  BY <1>5, <1>6

LEMMA ClearLockedFine ==
    ASSUME LinInv, MapInv', Watch, NEW t \in Threads, AnyStep(t), ClearLocked(t)
    PROVE  Fine(t)
<1>1. /\ opc[t] = "ClearLock" /\ UNCHANGED <<call, result>>
  BY DEF ClearLocked, At
<1>2. /\ MapInv /\ PInv /\ SameAddress /\ Control(t) /\ Answers(t) /\ MapTyped /\ RInv /\ Flows(t)
      /\ DOMAIN opc = Threads
  BY LinParts
<1>3. /\ HeapKeeps /\ Doomed \subseteq Doomed' /\ Doomed' \in SUBSET Keys
      /\ \E gone \in SUBSET Keys : Without(gone)
  BY <1>2, ClearMeans
<1>4. opc'[t] = "Clear" /\ call[t].op = "clear" /\ ~Removing(t)
  BY <1>1, <1>2 DEF ClearLocked, To, Set, Control
<1>5. walk'[t].sight = walk[t].sight
  <2>1. walk' = walk \/ \E i, r : walk' = [walk EXCEPT ![t].at.index = i, ![t].removed = @ + r]
    BY DEF ClearLocked
  <2>2. CASE walk' = walk
    BY <2>2
  <2>3. CASE \E i, r : walk' = [walk EXCEPT ![t].at.index = i, ![t].removed = @ + r]
    <3>1. PICK i : \E r : walk' = [walk EXCEPT ![t].at.index = i, ![t].removed = @ + r]
      BY <2>3
    <3>2. PICK r : walk' = [walk EXCEPT ![t].at.index = i, ![t].removed = @ + r]
      BY <3>1
    <3> QED
      BY <1>2, <3>2, SightCleared
  <2> QED
    BY <2>1, <2>2, <2>3
<1>6. ~Removing(t)'
  BY <1>4, <1>5 DEF Removing
<1>7. Empties(t)
  <2>1. Alike(t) /\ ~SeenEffect(t)
    BY <1>1, <1>4, <1>6 DEF Alike, SeenCall, SeenEffect, SeenResult, Effective
  <2> QED
    BY <1>1, <1>3, <1>4, <2>1 DEF Empties
<1>8. Sees(t)'
  BY <1>2, <1>4, SeesAway
<1>9. Answers(t)'
  BY <1>1, <1>2, <1>4, <1>6 DEF Answers, Effective
<1>10. SightFits(t)'
  BY <1>6 DEF SightFits
<1> QED
  BY <1>3, <1>7, <1>8, <1>9, <1>10 DEF Fine, Seems

(* A call begins, *)
LEMMA BeginFine ==
    ASSUME LinInv, MapInv', Watch, NEW t \in Threads, NEW c \in Abstract!Calls \cup {[op |-> "iter"]},
           AnyStep(t), Begin(t, c)
    PROVE  Fine(t)
<1>1. /\ opc[t] = "idle" /\ pc[t] = "idle" /\ UNCHANGED <<heap, plan, walk, result>>
  BY DEF Begin, At
<1>2. Steady /\ HeapKeeps
  BY <1>1, IdleMeans
<1>3. MapInv /\ RInv /\ Flows(t) /\ Control(t) /\ Answers(t) /\ DOMAIN opc = Threads /\ DOMAIN call = Threads
  BY LinParts
<1>4. /\ call[t].op = "none" /\ ~Removing(t) /\ ~Removing(t)' /\ call[t] = [op |-> "none"]
      /\ result[t] = None /\ result'[t] = None
  BY <1>1, <1>3 DEF Control, Answers, Effective, Removing
<1>5. call'[t] = c /\ opc'[t] = "Table" /\ c.op # "none"
  BY <1>3, CallsTyped DEF Begin, To, Set
<1>6. /\ SeenCall(t) = [op |-> "none"] /\ SeenEffect(t) = FALSE /\ SeenEffect(t)' = FALSE
      /\ SeenResult(t)' = SeenResult(t)
  BY <1>1, <1>4, <1>5 DEF SeenCall, SeenEffect, SeenResult, Effective
<1>7. Unnoticed(t) \/ Begins(t)
  <2>1. CASE c.op = "iter"
    <3>1. SeenCall(t)' = SeenCall(t)
      BY <1>5, <1>6, <2>1 DEF SeenCall
    <3> QED
      BY <1>2, <1>4, <1>5, <1>6, <2>1, <3>1 DEF Unnoticed, Alike, IsKeyed
  <2>2. CASE c.op # "iter"
    <3>1. c \in Abstract!Calls
      BY <2>2
    <3>2. SeenCall(t)' = c
      BY <1>5, <2>2 DEF SeenCall
    <3> QED
      BY <1>2, <1>6, <3>1, <3>2 DEF Begins
  <2> QED
    BY <2>1, <2>2
<1>8. Answers(t)'
  BY <1>4, <1>5 DEF Answers
<1>9. Sees(t)'
  BY <1>3, <1>5, SeesAway
<1>10. SightFits(t)'
  BY <1>4 DEF SightFits
<1> QED
  BY <1>2, <1>7, <1>8, <1>9, <1>10 DEF Fine, Seems

(* and ends. *)
LEMMA EndFine ==
    ASSUME LinInv, MapInv', Watch, NEW t \in Threads, AnyStep(t), End(t)
    PROVE  Fine(t)
<1>1. /\ opc[t] = "Done" /\ pc[t] = "idle" /\ ~Removing(t) /\ UNCHANGED <<heap, plan>>
  BY DEF End, At
<1>2. Steady /\ HeapKeeps
  BY <1>1, IdleMeans
<1>3. /\ MapInv /\ RInv /\ Flows(t) /\ Control(t) /\ Answers(t) /\ DOMAIN opc = Threads
      /\ DOMAIN call = Threads /\ DOMAIN walk = Threads /\ DOMAIN result = Threads
  BY LinParts
<1>4. opc'[t] = "idle" /\ call'[t] = [op |-> "none"] /\ result'[t] = None /\ walk'[t] = NoWalk
  BY <1>3 DEF End, To, Set
<1>5. ~Removing(t)'
  <2>1. Len(node) \in Nat
    BY <1>3, InvParts
  <2>2. NoWalk.sight.node = 0
    BY <2>1, NoWalkTyped
  <2> QED
    BY <1>4, <2>2 DEF Removing
<1>6. SeenCall(t)' = [op |-> "none"] /\ SeenEffect(t)' = FALSE /\ SeenResult(t)' = None
  BY <1>4, <1>5 DEF SeenCall, SeenEffect, SeenResult, Effective
<1>7. Unnoticed(t) \/ Ends(t)
  <2>1. CASE call[t].op = "iter"
    <3>1. SeenCall(t) = [op |-> "none"] /\ SeenEffect(t) = FALSE /\ SeenResult(t) = None
      BY <1>1, <1>3, <2>1 DEF SeenCall, SeenEffect, SeenResult, Answers
    <3>2. Alike(t)
      BY <1>6, <3>1 DEF Alike
    <3>3. ~IsKeyed(call[t]) /\ ~IsKeyed(call'[t])
      BY <1>4, <2>1 DEF IsKeyed
    <3> QED
      BY <1>2, <3>2, <3>3 DEF Unnoticed
  <2>2. CASE call[t].op # "iter"
    <3>1. SeenEffect(t)
      BY <1>1, <2>2 DEF SeenEffect, Effective
    <3> QED
      BY <1>2, <1>6, <3>1 DEF Ends
  <2> QED
    BY <2>1, <2>2
<1>8. Answers(t)'
  BY <1>4 DEF Answers
<1>9. Sees(t)'
  BY <1>3, <1>4, SeesAway
<1>10. SightFits(t)'
  BY <1>5 DEF SightFits
<1> QED
  BY <1>2, <1>7, <1>8, <1>9, <1>10 DEF Fine, Seems

LEMMA StepFine ==
    ASSUME LinInv, MapInv', Watch, NEW t \in Threads, AnyStep(t)
    PROVE  Fine(t)
<1>1. CASE Transfer(t) \/ Routine(t)
  BY <1>1, TransferFine
<1>2. CASE \E c \in Abstract!Calls \cup {[op |-> "iter"]} : Begin(t, c)
  BY <1>2, BeginFine
<1>3. CASE OpLoadTable(t) \/ OpNoTable(t) \/ OpMovedBin(t) \/ OpEmptyBin(t) \/ OpListBin(t)
            \/ GetNode(t) \/ LoadValue(t)
  BY <1>3, LoadTableFine, NoTableFine, EmptyBinFine, ListBinFine, GetFine
<1>4. CASE PutCas(t) \/ OpHeadChanged(t) \/ PutLocked(t) \/ RemoveLocked(t) \/ ComputeLocked(t)
            \/ PutTreeify(t) \/ OpCount(t) \/ End(t)
  BY <1>4, CasFine, AroundFine, LockedFine, EndFine
<1>5. CASE WalkBin(t) \/ WalkOn(t) \/ WalkEnd(t) \/ RetainLook(t) \/ RetainGoOn(t)
            \/ ClearBin(t) \/ ClearLocked(t) \/ ClearEnd(t)
  BY <1>5, WalkFine, WalkEndFine, LookFine, GoOnFine, ClearFine, ClearLockedFine
<1> QED
  BY <1>1, <1>2, <1>3, <1>4, <1>5 DEF AnyStep, MapStep, Operation

-----------------------------------------------------------------------------
(* The invariant, and the refinement *)

AbstractVars == <<Contents, CallSeen, ResultSeen, EffectSeen, seen, Doomed>>

LEMMA OthersKeep ==
    ASSUME LinInv, MapInv', Watch, NEW t \in Threads, AnyStep(t), HeapKeeps, NEW u \in Threads, u # t
    PROVE  Sees(u)' /\ Answers(u)' /\ SightFits(u)'
<1>1. MapInv /\ MapTyped /\ RInv /\ Flows(u) /\ SightFits(u) /\ Answers(u) /\ DOMAIN result = Threads
  BY LinParts DEF LinInv, AInv, RInv
<1>2. MapSame(u) /\ result'[u] = result[u]
  BY <1>1, MapOthers, ResultOthers
<1>3. Sees(u)'
  BY <1>1, <1>2, SeesStays DEF HeapKeeps, MapSame
<1>4. Answers(u)'
  BY <1>1, <1>2 DEF Answers, MapSame, Removing
<1>5. SightFits(u)'
  BY <1>1, <1>2 DEF HeapKeeps, MapSame
<1> QED
  BY <1>3, <1>4, <1>5

LEMMA StepLin ==
    ASSUME LinInv, MapInv', Watch, NEW t \in Threads, AnyStep(t)
    PROVE  LinInv' /\ [Abstract!Next]_AbstractVars
<1>1. HeapKeeps /\ Seems(t) /\ Sees(t)' /\ Answers(t)' /\ SightFits(t)'
  BY StepFine DEF Fine
<1>2. \A u \in Threads : Sees(u)' /\ Answers(u)' /\ SightFits(u)'
  BY <1>1, OthersKeep
<1>3. MapInv /\ MapTyped /\ RInv /\ DOMAIN result = Threads /\ \A u \in Threads : Flows(u)
  BY LinParts
<1>4. seen' = [u \in Threads |-> seen'[u]] /\ DOMAIN result' = Threads
  BY <1>3, ResultOthers DEF Watch
<1>5. RInv'
  BY <1>2, <1>4 DEF RInv
<1>6. AInv' /\ PInv'
  BY <1>1, <1>2 DEF HeapKeeps, AInv
<1>7. [Abstract!Next]_AbstractVars
  BY <1>1, <1>3, SeemsAbstract DEF AbstractVars
<1> QED
  BY <1>5, <1>6, <1>7 DEF LinInv

(* Nothing happens. *)
LEMMA RestLin ==
    ASSUME LinInv, MapInv', UNCHANGED <<resizeVars, heap, opLocals>>, Watch \/ UNCHANGED seen
    PROVE  LinInv' /\ [Abstract!Next]_AbstractVars
<1>1. MapInv /\ PInv /\ SameAddress /\ RInv /\ MapTyped /\ \A u \in Threads : SightFits(u)
  BY InvParts DEF LinInv, AInv
<1>2. Steady /\ HeapKeeps
  BY <1>1, NothingMeans
<1>3. AInv' /\ PInv'
  BY <1>1, <1>2 DEF HeapKeeps, AInv
<1>4. ASSUME NEW u \in Threads PROVE seen'[u] = seen[u]
  <2>1. CASE Watch
    <3>1. Flows(u)
      BY DEF Flows
    <3>2. /\ IF IsKeyed(call[u]) THEN Contents[call[u].key] \in seen[u] ELSE seen[u] = {}
          /\ Contents' = Contents
      BY <1>1, <1>2 DEF RInv, Sees, Steady
    <3>3. /\ IF IsKeyed(call'[u]) THEN Contents'[call'[u].key] \in seen'[u] ELSE seen'[u] = {}
          /\ IsKeyed(call'[u]) /\ call'[u] = call[u] => seen'[u] = seen[u] \cup {Contents'[call[u].key]}
      BY <1>1, <2>1, <3>1, SeenNext
    <3> QED
      BY <3>2, <3>3
  <2> QED
    BY <2>1
<1>5. seen' = seen
  <2>1. CASE Watch
    <3>1. seen' = [u \in Threads |-> seen'[u]]
      BY <2>1 DEF Watch
    <3>2. seen = [u \in Threads |-> seen[u]]
      BY <1>1 DEF RInv
    <3> QED
      BY <1>4, <3>1, <3>2
  <2> QED
    BY <2>1
<1>6. ASSUME NEW u \in Threads PROVE Sees(u)' /\ Answers(u)'
  <2>1. Sees(u) /\ Answers(u) /\ Contents' = Contents
    BY <1>1, <1>2 DEF RInv, Steady
  <2>2. ValuesAt(node, cur[u], call[u].key)' = ValuesAt(node, cur[u], call[u].key)
    BY DEF ValuesAt, Reach, Closed
  <2>3. (IsKeyed(call[u])' <=> IsKeyed(call[u])) /\ (Removing(u)' <=> Removing(u))
    BY DEF IsKeyed, Removing
  <2>4. Sees(u)'
    BY <1>5, <2>1, <2>2, <2>3 DEF Sees
  <2>5. Answers(u)'
    BY <2>1, <2>3 DEF Answers
  <2> QED
    BY <2>4, <2>5
<1>7. RInv'
  BY <1>1, <1>5, <1>6 DEF RInv
<1>8. UNCHANGED AbstractVars
  <2>1. CallSeen' = CallSeen /\ ResultSeen' = ResultSeen /\ EffectSeen' = EffectSeen
    BY DEF CallSeen, ResultSeen, EffectSeen, Removing
  <2> QED
    BY <1>2, <1>5, <2>1 DEF AbstractVars, Steady
<1> QED
  BY <1>3, <1>7, <1>8 DEF LinInv

(* Every step keeps the invariant, and is one of AtomicMap's. *)
LEMMA NextLin ==
    ASSUME LinInv, [MapNext /\ JoinsMatch]_vars
    PROVE  LinInv' /\ [Abstract!Next]_AbstractVars
<1>1. MapInv'
  <2>1. MapInv
    BY DEF LinInv
  <2> QED
    BY <2>1, NextKInv
<1>2. CASE UNCHANGED vars
  BY <1>1, <1>2, RestLin DEF vars
<1>3. CASE MapNext
  <2>1. Watch
    BY <1>3 DEF MapNext
  <2>2. CASE Rest
    BY <1>1, <2>1, <2>2, RestLin DEF Rest
  <2>3. CASE \E t \in Threads :
                \/ MapStep(t)
                \/ \E c \in (Abstract!Calls \cup {[op |-> "iter"]}) \cap Explored : Begin(t, c)
    <3>1. \E t \in Threads : AnyStep(t)
      BY <2>3 DEF AnyStep
    <3> QED
      BY <1>1, <2>1, <3>1, StepLin
  <2> QED
    BY <1>3, <2>2, <2>3 DEF MapNext
<1> QED
  BY <1>2, <1>3

LEMMA InitLin == Init2 => LinInv /\ Abstract!Init
<1> SUFFICES ASSUME Init2 PROVE LinInv /\ Abstract!Init
  OBVIOUS
<1>1. MapInv
  BY InitKInv
<1>2. /\ node = <<>> /\ table = Null /\ \A t \in Threads : plan[t].stage = "none" /\ opc[t] = "idle"
      /\ \A t \in Threads : call[t] = [op |-> "none"]
      /\ seen = [t \in Threads |-> {}] /\ result = [t \in Threads |-> None]
  BY DEF Init2, Init, NoPlan
<1>3. \A t \in Threads : ~Removing(t)
  <2>1. NoWalk.sight.node = 0
    BY NoWalkTyped
  <2> QED
    BY <2>1 DEF Init2, Removing
<1>4. Contents = [k \in Keys |-> None] /\ Doomed = {}
  <2>1. HomesFit
    BY <1>1, HomeKnown
  <2> QED
    BY <1>2, <2>1 DEF HomesFit, Doomed
<1>5. AInv
  BY <1>2, <1>3 DEF AInv, SameAddress, SightFits
<1>6. PInv
  BY <1>2 DEF PInv, PlanWhole, Planning
<1>7. RInv
  <2>1. \A u \in Threads : Sees(u) /\ Answers(u)
    BY <1>2 DEF Sees, Answers, IsKeyed
  <2> QED
    BY <1>2, <2>1 DEF RInv
<1>8. Abstract!Init
  <2>1. CallSeen = [t \in Threads |-> [op |-> "none"]]
    BY <1>2 DEF CallSeen
  <2>2. ResultSeen = [t \in Threads |-> None]
    BY <1>2, <1>3 DEF ResultSeen
  <2>3. EffectSeen = [t \in Threads |-> FALSE]
    BY <1>2, <1>3 DEF EffectSeen
  <2> QED
    BY <1>2, <1>4, <2>1, <2>2, <2>3 DEF Abstract!Init, Abstract!NoCall
<1> QED
  BY <1>1, <1>5, <1>6, <1>7, <1>8 DEF LinInv

(* Seen from outside, every call on the map happens at one moment between its
   beginning and its end, whatever resize, transfer, search or removal is
   under way, and however many threads, keys and nodes there are: until a
   thread joins a resize late every step is one of AtomicMap's, and a behaviour
   without late joins implements AtomicMap. *)
THEOREM LinearizableCorrect ==
    MapSpec => /\ Abstract!Init
               /\ [][lateJoin' \/ Abstract!Next]_AbstractVars
               /\ []~lateJoin => Linearizable
<1>1. Init2 => LinInv /\ Abstract!Init
  BY InitLin
<1>2. (lateJoin \/ LinInv) /\ [MapNext]_vars
          => (lateJoin \/ LinInv)' /\ [lateJoin' \/ Abstract!Next]_AbstractVars
  BY NextLin, MapStepsMatch
<1>3. MapSpec => Abstract!Init /\ [][lateJoin' \/ Abstract!Next]_AbstractVars
  BY <1>1, <1>2, PTL DEF MapSpec
<1>4. ~lateJoin' /\ [lateJoin' \/ Abstract!Next]_AbstractVars => [Abstract!Next]_AbstractVars
  OBVIOUS
<1> QED
  BY <1>3, <1>4, PTL DEF Linearizable, Abstract!Spec, AbstractVars

-----------------------------------------------------------------------------
(* The count.  A key stays unless a clear has doomed it.  A put is counted
   after its key is there, a removal after its key has gone, and a clear after
   all that it took: in between, the calls under way make up the difference. *)

Staying == Present \ Doomed

Adding(u) ==
    \/ opc[u] = "Count" /\ Op(u) \in {"insert", "try_insert"}
    \/ opc[u] = "Treeify" /\ result[u] = None

Gone(u) ==
    IF opc[u] = "Count" /\ Op(u) \in {"remove", "compute_if_present"} THEN 1
    ELSE IF opc[u] \in {"Clear", "ClearLock", "Count"} /\ call[u].op = "clear" THEN walk[u].removed
    ELSE 0

Uncounted == {u \in Threads : Adding(u)}
Departed == {x \in Threads \X Nat : x[2] \in 1..Gone(x[1])}

Balance ==
    /\ IsFiniteSet(Staying) /\ IsFiniteSet(Departed)
    /\ count + Cardinality(Uncounted) = Cardinality(Staying) + Cardinality(Departed)

(* What a thread has yet to add to the counter *)
Weight(u) == (IF Adding(u) THEN 1 ELSE 0) - Gone(u)

(* A part of a finite set is given up for another. *)
LEMMA Exchanged ==
    ASSUME NEW S, IsFiniteSet(S), NEW S2, NEW A \in SUBSET S, NEW B \in SUBSET S2, IsFiniteSet(B),
           S \ A = S2 \ B
    PROVE  /\ IsFiniteSet(S2) /\ IsFiniteSet(A)
           /\ Cardinality(S2) = Cardinality(S) - Cardinality(A) + Cardinality(B)
<1>1. /\ IsFiniteSet(A) /\ IsFiniteSet(S \ A) /\ (S \cap A) = A
      /\ Cardinality(S \ A) = Cardinality(S) - Cardinality(A)
  <2>1. IsFiniteSet(A)
    BY FS_Subset
  <2>2. /\ IsFiniteSet(S \ A)
        /\ Cardinality(S \ A) = Cardinality(S) - Cardinality(S \cap A)
    BY FS_Difference
  <2>3. (S \cap A) = A
    OBVIOUS
  <2> QED
    BY <2>1, <2>2, <2>3
<1>2. S2 = (S \ A) \cup B /\ ((S \ A) \cap B) = {}
  OBVIOUS
<1>3. /\ IsFiniteSet((S \ A) \cup B)
      /\ Cardinality((S \ A) \cup B) =
            Cardinality(S \ A) + Cardinality(B) - Cardinality((S \ A) \cap B)
  BY <1>1, FS_Union
<1>4. Cardinality((S \ A) \cap B) = 0
  BY <1>2, FS_EmptySet
<1>5. /\ Cardinality(S) \in Nat /\ Cardinality(A) \in Nat /\ Cardinality(B) \in Nat
      /\ Cardinality(S \ A) \in Nat
  BY <1>1, FS_CardinalityType
<1>6. Cardinality(S2) = Cardinality(S) - Cardinality(A) + Cardinality(B)
  BY <1>1, <1>2, <1>3, <1>4, <1>5
<1> QED
  BY <1>1, <1>2, <1>3, <1>6

LEMMA RowIs ==
    ASSUME NEW t, NEW n \in Nat
    PROVE  IsFiniteSet({t} \X (1..n)) /\ Cardinality({t} \X (1..n)) = n
<1>1. IsFiniteSet({t}) /\ Cardinality({t}) = 1
  BY FS_Singleton
<1>2. IsFiniteSet(1..n) /\ Cardinality(1..n) = n
  <2>1. 1 \in Int /\ n \in Int
    OBVIOUS
  <2>2. IsFiniteSet(1..n) /\ Cardinality(1..n) = IF 1 > n THEN 0 ELSE n - 1 + 1
    BY <2>1, FS_Interval
  <2>3. (IF 1 > n THEN 0 ELSE n - 1 + 1) = n
    OBVIOUS
  <2> QED
    BY <2>2, <2>3
<1>3. /\ IsFiniteSet({t} \X (1..n))
      /\ Cardinality({t} \X (1..n)) = Cardinality({t}) * Cardinality(1..n)
  BY <1>1, <1>2, FS_Product
<1> QED
  BY <1>1, <1>2, <1>3

LEMMA BalanceNext ==
    ASSUME Balance, NEW t \in Threads, Gone(t) \in Nat, Gone(t)' \in Nat,
           \A u \in Threads : u # t => (Adding(u)' <=> Adding(u)) /\ Gone(u)' = Gone(u),
           count \in Int, count' \in Int, IsFiniteSet(Staying'),
           count' + Weight(t)' - Cardinality(Staying') = count + Weight(t) - Cardinality(Staying)
    PROVE  Balance'
<1> DEFINE R == {t} \X (1..Gone(t))
           R2 == {t} \X (1..Gone(t)')
           A == IF Adding(t) THEN {t} ELSE {}
           A2 == IF Adding(t)' THEN {t} ELSE {}
<1>1. IsFiniteSet(Departed') /\ Cardinality(Departed') = Cardinality(Departed) - Gone(t) + Gone(t)'
  <2>1. /\ IsFiniteSet(R) /\ Cardinality(R) = Gone(t)
        /\ IsFiniteSet(R2) /\ Cardinality(R2) = Gone(t)'
    <3> DEFINE m == Gone(t)
               m2 == Gone(t)'
    <3> HIDE DEF m, m2
    <3>1. m \in Nat /\ m2 \in Nat
      BY DEF m, m2
    <3> QED
      BY <3>1, RowIs DEF m, m2
  <2>2. R \in SUBSET Departed /\ R2 \in SUBSET Departed'
    BY DEF Departed
  <2>3. (Departed \ R) = (Departed' \ R2)
    <3>1. ASSUME NEW x PROVE x \in Departed \ R <=> x \in Departed' \ R2
      <4>1. x \in Departed <=> x \in Threads \X Nat /\ x[2] \in 1..Gone(x[1])
        BY DEF Departed
      <4>2. x \in Departed' <=> x \in Threads \X Nat /\ x[2] \in 1..Gone(x[1])'
        BY DEF Departed
      <4>3. CASE x \in Threads \X Nat /\ x[1] # t
        <5>1. Gone(x[1])' = Gone(x[1])
          BY <4>3
        <5>2. x \notin R /\ x \notin R2
          BY <4>3
        <5> QED
          BY <4>1, <4>2, <5>1, <5>2
      <4>4. CASE x \in Threads \X Nat /\ x[1] = t
        <5>1. x = <<t, x[2]>>
          BY <4>4
        <5>2. x \in R <=> x[2] \in 1..Gone(t)
          BY <5>1
        <5>3. x \in R2 <=> x[2] \in 1..Gone(t)'
          BY <5>1
        <5> QED
          BY <4>1, <4>2, <4>4, <5>2, <5>3
      <4>5. CASE x \notin Threads \X Nat
        BY <4>1, <4>2, <4>5
      <4> QED
        BY <4>3, <4>4, <4>5
    <3> HIDE DEF R, R2
    <3> QED
      BY <3>1
  <2> HIDE DEF R, R2
  <2>4. IsFiniteSet(Departed)
    BY DEF Balance
  <2> QED
    BY <2>1, <2>2, <2>3, <2>4, Exchanged
<1>2. /\ IsFiniteSet(Uncounted)
      /\ Cardinality(Uncounted') = Cardinality(Uncounted) - Cardinality(A) + Cardinality(A2)
  <2>1. IsFiniteSet(Uncounted)
    BY ThreadsAssumption, FS_Subset DEF Uncounted
  <2>2. A \in SUBSET Uncounted /\ A2 \in SUBSET Uncounted'
    BY DEF Uncounted
  <2>3. (Uncounted \ A) = (Uncounted' \ A2)
    BY DEF Uncounted
  <2>4. IsFiniteSet(A2)
    BY FS_EmptySet, FS_Singleton
  <2> HIDE DEF A, A2
  <2> QED
    BY <2>1, <2>2, <2>3, <2>4, Exchanged
<1>3. Cardinality(A) = (IF Adding(t) THEN 1 ELSE 0) /\ Cardinality(A2) = (IF Adding(t)' THEN 1 ELSE 0)
  BY FS_EmptySet, FS_Singleton
<1>4. Weight(t)' = Cardinality(A2) - Gone(t)' /\ Weight(t) = Cardinality(A) - Gone(t)
  BY <1>3 DEF Weight
<1> HIDE DEF A, A2
<1>5. /\ Cardinality(Departed) \in Nat /\ Cardinality(Uncounted) \in Nat
      /\ Cardinality(Staying) \in Nat /\ Cardinality(Staying') \in Nat
      /\ Cardinality(A) \in Int /\ Cardinality(A2) \in Int
  BY <1>2, <1>3, FS_CardinalityType DEF Balance
<1>6. count' + Cardinality(Uncounted') = Cardinality(Staying') + Cardinality(Departed')
  <2>1. count + Cardinality(Uncounted) = Cardinality(Staying) + Cardinality(Departed)
    BY DEF Balance
  <2> DEFINE c == count
             c2 == count'
             g == Gone(t)
             g2 == Gone(t)'
             d == Cardinality(Departed)
             e == Cardinality(Uncounted)
             s == Cardinality(Staying)
             s2 == Cardinality(Staying')
             a == Cardinality(A)
             a2 == Cardinality(A2)
  <2>2. c + e = s + d /\ c2 + (a2 - g2) - s2 = c + (a - g) - s
    BY <1>4, <2>1
  <2>3. c \in Int /\ c2 \in Int /\ g \in Int /\ g2 \in Int /\ d \in Int /\ e \in Int
        /\ s \in Int /\ s2 \in Int /\ a \in Int /\ a2 \in Int
    BY <1>5
  <2>4. Cardinality(Departed') = d - g + g2 /\ Cardinality(Uncounted') = e - a + a2
    BY <1>1, <1>2
  <2>5. c2 + (e - a + a2) = s2 + (d - g + g2)
    <3> HIDE DEF c, c2, g, g2, d, e, s, s2, a, a2
    <3> QED
      BY <2>2, <2>3
  <2> QED
    BY <2>4, <2>5
<1> QED
  BY <1>1, <1>6 DEF Balance

-----------------------------------------------------------------------------
(* What the steps change of it *)

(* A clear has nothing to its account before it begins, and the bin it is about
   to empty is one of its table. *)
ClearCounts(u) ==
    /\ call[u].op # "clear" \/ opc[u] = "Table" => walk[u].removed = 0
    /\ opc[u] = "ClearLock" => pc[u] = "idle" /\ walk[u].at.index < tab[u]

(* The bins of the next table that a transfer has still to store are empty. *)
Unstored(u) ==
    /\ plan[u].stage = "low" => bins[2 * table][idx[u]] = 0
    /\ plan[u].stage \in {"low", "high"} => bins[2 * table][idx[u] + table] = 0

Laden == {"Count", "Treeify", "Clear", "ClearLock"}

(* The step keeps the balance. *)
Tallies(t) ==
    /\ IsFiniteSet(Staying') /\ count' \in Int
    /\ count' + Weight(t)' - Cardinality(Staying') = count + Weight(t) - Cardinality(Staying)

(* What holds before a step and after it *)
Between(t) ==
    /\ LinInv /\ LinInv' /\ Balance /\ AnyStep(t)
    /\ \A u \in Threads : ClearCounts(u) /\ Unstored(u)

LEMMA CountTyped ==
    ASSUME LinInv
    PROVE  count \in Int
<1>1. count \in CountRange
  BY InvParts DEF LinInv, IInv, TypeOK, SharedTypes
<1> QED
  BY <1>1, CountAssumption

LEMMA CountTypedNext == LinInv' => count' \in Int
<1>1. ASSUME LinInv' PROVE count' \in CountRange
  BY <1>1 DEF LinInv, MapInv, IInv, TypeOK, SharedTypes
<1> QED
  BY <1>1, CountAssumption

LEMMA Weightless ==
    ASSUME NEW u, opc[u] \notin Laden
    PROVE  ~Adding(u) /\ Gone(u) = 0 /\ Weight(u) = 0
BY DEF Laden, Adding, Gone, Weight

LEMMA WeightlessNext ==
    ASSUME NEW u, opc'[u] \notin Laden
    PROVE  ~Adding(u)' /\ Gone(u)' = 0 /\ Weight(u)' = 0
BY DEF Laden, Adding, Gone, Weight

LEMMA GoneTyped ==
    ASSUME LinInv, NEW u \in Threads
    PROVE  Gone(u) \in Nat /\ Weight(u) \in Int
<1>1. walk[u].removed \in Nat
  BY InvParts, PlaceTyped DEF LinInv, WalkTyped
<1>2. Gone(u) \in Nat
  BY <1>1 DEF Gone
<1> QED
  BY <1>2 DEF Weight

LEMMA GoneTypedNext ==
    ASSUME LinInv', NEW u \in Threads
    PROVE  Gone(u)' \in Nat /\ Weight(u)' \in Int
<1>1. walk'[u].removed \in Nat
  BY DEF LinInv, MapInv, MapTyped, LocalsTyped, WalkTyped
<1>2. Gone(u)' \in Nat
  BY <1>1 DEF Gone
<1> QED
  BY <1>2 DEF Weight

LEMMA BetweenParts ==
    ASSUME NEW t \in Threads, Between(t)
    PROVE  /\ LinInv /\ MapInv /\ MapInv' /\ MapTyped /\ IInv /\ PInv /\ SameAddress
           /\ Control(t) /\ CallTyped(call[t]) /\ WalkTyped(walk[t])
           /\ DOMAIN opc = Threads /\ DOMAIN cur = Threads /\ DOMAIN walk = Threads
           /\ DOMAIN call = Threads /\ DOMAIN result = Threads /\ DOMAIN plan = Threads
           /\ Contents \in [Keys -> Values \cup {None}] /\ Contents' \in [Keys -> Values \cup {None}]
           /\ count \in Int /\ count' \in Int /\ Weight(t) \in Int /\ Weight(t)' \in Int
           /\ IsFiniteSet(Staying) /\ Cardinality(Staying) \in Nat
           /\ ClearCounts(t) /\ AnyStep(t)
<1>1. /\ LinInv /\ LinInv' /\ MapInv' /\ AnyStep(t) /\ ClearCounts(t) /\ IsFiniteSet(Staying)
  BY DEF Between, LinInv, Balance
<1>2. /\ LinInv /\ MapInv /\ MapTyped /\ IInv /\ PInv /\ SameAddress
      /\ Control(t) /\ CallTyped(call[t]) /\ WalkTyped(walk[t])
      /\ DOMAIN opc = Threads /\ DOMAIN cur = Threads /\ DOMAIN walk = Threads
      /\ DOMAIN call = Threads /\ DOMAIN result = Threads
  BY <1>1, LinParts
<1>3. Contents \in [Keys -> Values \cup {None}] /\ Contents' \in [Keys -> Values \cup {None}]
  BY <1>1, <1>2, HomeKnown, HomeKnownNext DEF HomesFit
<1>4. DOMAIN plan = Threads
  BY <1>2 DEF MapTyped, HeapTyped
<1>5. count \in Int /\ count' \in Int /\ Weight(t) \in Int /\ Weight(t)' \in Int
  BY <1>1, CountTyped, CountTypedNext, GoneTyped, GoneTypedNext
<1>6. Cardinality(Staying) \in Nat
  BY <1>1, FS_CardinalityType
<1> QED
  BY <1>1, <1>2, <1>3, <1>4, <1>5, <1>6

LEMMA SteadyStays ==
    ASSUME Steady
    PROVE  Staying' = Staying
BY DEF Steady, Staying, Present

LEMMA EvenTallies ==
    ASSUME NEW t \in Threads, Between(t), Steady, count' = count, Weight(t)' = Weight(t)
    PROVE  Tallies(t)
<1>1. Staying' = Staying
  BY SteadyStays
<1> QED
  BY <1>1, BetweenParts DEF Tallies

(* A key more, a key less *)
LEMMA KeyStays ==
    ASSUME NEW t \in Threads, Between(t), NEW k \in Keys, NEW v \in Values \cup {None},
           Contents' = [Contents EXCEPT ![k] = v], k \notin Doomed, Doomed' = Doomed
    PROVE  /\ IsFiniteSet(Staying') /\ Cardinality(Staying') \in Int
           /\ Cardinality(Staying') = Cardinality(Staying)
                 - (IF Contents[k] # None THEN 1 ELSE 0) + (IF v # None THEN 1 ELSE 0)
<1> DEFINE A == IF Contents[k] # None THEN {k} ELSE {}
           B == IF v # None THEN {k} ELSE {}
<1>1. /\ Contents \in [Keys -> Values \cup {None}] /\ IsFiniteSet(Staying)
      /\ Cardinality(Staying) \in Nat
  BY BetweenParts
<1>2. \A j \in Keys : Contents'[j] = IF j = k THEN v ELSE Contents[j]
  BY <1>1
<1>3. A \in SUBSET Staying /\ B \in SUBSET Staying'
  BY <1>2 DEF Staying, Present
<1>4. (Staying \ A) = (Staying' \ B)
  <2>1. ASSUME NEW j PROVE j \in Staying \ A <=> j \in Staying' \ B
    BY <1>2 DEF Staying, Present
  <2> HIDE DEF A, B
  <2> QED
    BY <2>1
<1>5. /\ IsFiniteSet(A) /\ Cardinality(A) = IF Contents[k] # None THEN 1 ELSE 0
      /\ IsFiniteSet(B) /\ Cardinality(B) = IF v # None THEN 1 ELSE 0
  BY FS_EmptySet, FS_Singleton
<1>6. /\ IsFiniteSet(Staying')
      /\ Cardinality(Staying') = Cardinality(Staying) - Cardinality(A) + Cardinality(B)
  <2> HIDE DEF A, B
  <2> QED
    BY <1>1, <1>3, <1>4, <1>5, Exchanged
<1> QED
  BY <1>1, <1>5, <1>6

LEMMA OthersWeigh ==
    ASSUME NEW t \in Threads, Between(t), NEW u \in Threads, u # t
    PROVE  (Adding(u)' <=> Adding(u)) /\ Gone(u)' = Gone(u)
<1>1. MapSame(u) /\ result'[u] = result[u]
  BY BetweenParts, MapOthers, ResultOthers
<1> QED
  BY <1>1 DEF MapSame, Adding, Gone, Op, Removing

(* The steps before and after the part of a call that counts *)
LEMMA LightTallies ==
    ASSUME NEW t \in Threads, Between(t), UNCHANGED <<heap, plan>>, pc[t] = "idle", count' = count,
           opc[t] \notin Laden, opc'[t] \notin Laden
    PROVE  Tallies(t)
<1>1. Steady
  BY BetweenParts, IdleMeans
<1>2. Weight(t)' = Weight(t)
  BY Weightless, WeightlessNext
<1> QED
  BY <1>1, <1>2, EvenTallies

LEMMA SearchTallies ==
    ASSUME NEW t \in Threads, Between(t),
           \/ \E c : Begin(t, c)
           \/ OpNoTable(t) \/ OpMovedBin(t) \/ OpEmptyBin(t) \/ OpListBin(t)
           \/ GetNode(t) \/ LoadValue(t) \/ OpHeadChanged(t) \/ End(t)
    PROVE  Tallies(t)
<1>0. DOMAIN opc = Threads
  BY BetweenParts
<1>1. CASE \E c : Begin(t, c)
  BY <1>0, <1>1, LightTallies DEF Begin, At, To, Set, Laden
<1>2. CASE OpNoTable(t) \/ OpMovedBin(t)
  BY <1>0, <1>2, LightTallies DEF OpNoTable, OpMovedBin, CallInitTable, CallHelpTransfer, At, Laden
<1>3. CASE OpEmptyBin(t) \/ OpListBin(t)
  BY <1>0, <1>3, LightTallies DEF OpEmptyBin, OpListBin, NextWith, At, To, Finish, Set, Laden
<1>4. CASE GetNode(t) \/ LoadValue(t) \/ OpHeadChanged(t)
  BY <1>0, <1>4, LightTallies DEF GetNode, LoadValue, OpHeadChanged, CanLock, At, To, Finish, Set, Laden
<1>5. CASE End(t)
  BY <1>0, <1>5, LightTallies DEF End, At, To, Set, Laden
<1> QED
  BY <1>1, <1>2, <1>3, <1>4, <1>5

LEMMA WalkTallies ==
    ASSUME NEW t \in Threads, Between(t),
           WalkBin(t) \/ WalkOn(t) \/ WalkEnd(t) \/ RetainLook(t) \/ RetainGoOn(t)
    PROVE  Tallies(t)
<1>0. DOMAIN opc = Threads
  BY BetweenParts
<1>1. CASE WalkBin(t)
  BY <1>0, <1>1, LightTallies DEF WalkBin, Meets, At, To, Set, Laden
<1>2. CASE WalkOn(t)
  BY <1>0, <1>2, LightTallies DEF WalkOn, Meets, At, To, Set, Laden
<1>3. CASE WalkEnd(t) \/ RetainLook(t) \/ RetainGoOn(t)
  BY <1>0, <1>3, LightTallies DEF WalkEnd, RetainLook, RetainGoOn, At, To, Set, Laden
<1> QED
  BY <1>1, <1>2, <1>3

(* A clear begins with nothing to its account, and its steps between two bins
   leave it there. *)
LEMMA LoadTableTallies ==
    ASSUME NEW t \in Threads, Between(t), OpLoadTable(t)
    PROVE  Tallies(t)
<1>0. /\ DOMAIN opc = Threads /\ ClearCounts(t) /\ pc[t] = "idle" /\ opc[t] = "Table"
      /\ UNCHANGED <<heap, plan, call, count>>
  BY BetweenParts DEF OpLoadTable, At
<1>1. CASE opc'[t] \notin Laden
  BY <1>0, <1>1, LightTallies DEF Laden
<1>2. CASE opc'[t] \in Laden
  <2>1. Op(t) = "clear" /\ opc'[t] = "Clear" /\ walk' = walk
    BY <1>0, <1>2 DEF OpLoadTable, Finish, To, Set, Laden
  <2>2. call[t].op = "clear"
    BY <2>1 DEF Op
  <2>3. walk'[t].removed = 0
    BY <1>0, <2>1 DEF ClearCounts
  <2>4. ~Adding(t)' /\ Gone(t)' = 0
    BY <2>1, <2>3 DEF Adding, Gone
  <2>5. Weight(t)' = Weight(t)
    BY <1>0, <2>4, Weightless DEF Weight, Laden
  <2>6. Steady
    BY <1>0, BetweenParts, IdleMeans
  <2> QED
    BY <1>0, <2>5, <2>6, EvenTallies
<1> QED
  BY <1>1, <1>2

LEMMA ClearStepTallies ==
    ASSUME NEW t \in Threads, Between(t), ClearBin(t) \/ ClearEnd(t)
    PROVE  Tallies(t)
<1>0. /\ DOMAIN opc = Threads /\ DOMAIN walk = Threads /\ Control(t) /\ WalkTyped(walk[t]) /\ MapTyped
  BY BetweenParts
<1>1. /\ pc[t] = "idle" /\ opc[t] = "Clear" /\ UNCHANGED <<heap, plan, call, count>>
      /\ opc'[t] \in {"Clear", "ClearLock", "Count"} \/ (opc'[t] = "Done" /\ walk[t].removed = 0)
  BY <1>0 DEF ClearBin, ClearEnd, CallHelpTransfer, At, To, Set
<1>2. call[t].op = "clear" /\ ~Removing(t)
  BY <1>0, <1>1 DEF Control
<1>3. walk'[t].removed = walk[t].removed /\ walk'[t].sight = walk[t].sight
  <2>1. walk' = walk \/ \E i : walk' = [walk EXCEPT ![t].at.index = i]
    BY DEF ClearBin, ClearEnd
  <2>2. CASE walk' = walk
    BY <2>2
  <2>3. ASSUME NEW i, walk' = [walk EXCEPT ![t].at.index = i]
        PROVE  walk'[t].removed = walk[t].removed /\ walk'[t].sight = walk[t].sight
    <3>1. IsWalk(walk'[t], [walk[t].at EXCEPT !.index = i], walk[t].met, walk[t].removed, walk[t].sight)
      BY <1>0, <2>3, IndexStored DEF WalkTyped
    <3> QED
      BY <3>1 DEF IsWalk
  <2> QED
    BY <2>1, <2>2, <2>3
<1>4. Op(t) = "clear" /\ Op(t)' = "clear"
  BY <1>1, <1>2, <1>3 DEF Op, Removing
<1>5. ~Adding(t) /\ ~Adding(t)' /\ Gone(t) = walk[t].removed
  BY <1>1, <1>2, <1>4 DEF Adding, Gone
<1>6. Gone(t)' = walk[t].removed
  BY <1>1, <1>2, <1>3, <1>4 DEF Gone
<1>7. Weight(t)' = Weight(t)
  BY <1>5, <1>6 DEF Weight
<1>8. Steady
  BY <1>1, BetweenParts, IdleMeans
<1> QED
  BY <1>1, <1>7, <1>8, EvenTallies

(* A put that looks at the length of its bin has yet to count its key. *)
LEMMA TreeifyTallies ==
    ASSUME NEW t \in Threads, Between(t), PutTreeify(t)
    PROVE  Tallies(t)
<1>0. DOMAIN opc = Threads /\ Control(t)
  BY BetweenParts
<1>1. /\ pc[t] = "idle" /\ opc[t] = "Treeify" /\ UNCHANGED <<heap, plan, call, walk, result>>
      /\ opc'[t] = IF result[t] = None THEN "Count" ELSE "Done"
  BY <1>0 DEF PutTreeify, At, To, Set
<1>2. count' = count
  BY DEF PutTreeify, CallTryPresize
<1>3. Op(t) \in {"insert", "try_insert"} /\ Op(t)' = Op(t)
  BY <1>0, <1>1 DEF Control, Op, Removing
<1>4. call[t].op # "clear"
  BY <1>3 DEF Op
<1>5. Gone(t) = 0 /\ (Adding(t) <=> result[t] = None)
  BY <1>1, <1>3, <1>4 DEF Gone, Adding
<1>6. Gone(t)' = 0 /\ (Adding(t)' <=> result[t] = None)
  BY <1>1, <1>3, <1>4 DEF Gone, Adding
<1>7. Weight(t)' = Weight(t)
  BY <1>5, <1>6 DEF Weight
<1>8. Steady
  BY <1>1, BetweenParts, IdleMeans
<1> QED
  BY <1>2, <1>7, <1>8, EvenTallies

(* The count *)
LEMMA CountTallies ==
    ASSUME NEW t \in Threads, Between(t), OpCount(t)
    PROVE  Tallies(t)
<1>0. /\ DOMAIN opc = Threads /\ Control(t) /\ WalkTyped(walk[t]) /\ count \in Int /\ count' \in Int
      /\ IsFiniteSet(Staying) /\ Cardinality(Staying) \in Nat
  BY BetweenParts
<1>1. pc[t] = "idle" /\ opc[t] = "Count" /\ opc'[t] = "Done" /\ UNCHANGED <<heap, plan>>
  BY <1>0 DEF OpCount, At, To, Set
<1>2. Weight(t)' = 0
  BY <1>1, WeightlessNext DEF Laden
<1>3. count' = count + Weight(t)
  <2>1. CASE Op(t) \in {"insert", "try_insert"}
    <3>1. count' = count + 1
      BY <2>1 DEF OpCount, CallAddCount
    <3>2. call[t].op # "clear"
      BY <2>1 DEF Op
    <3>3. Adding(t) /\ Gone(t) = 0
      BY <1>1, <2>1, <3>2 DEF Adding, Gone
    <3> QED
      BY <3>1, <3>3 DEF Weight
  <2>2. CASE Op(t) \in {"remove", "compute_if_present"}
    <3>1. count' = count + (-1)
      BY <2>2 DEF OpCount, CallAddCount
    <3>2. ~Adding(t) /\ Gone(t) = 1
      BY <1>1, <2>2 DEF Adding, Gone
    <3> QED
      BY <3>1, <3>2 DEF Weight
  <2>3. CASE Op(t) = "clear"
    <3>1. count' = count + (-walk[t].removed)
      BY <2>3 DEF OpCount, CallAddCount
    <3>2. call[t].op = "clear"
      BY <2>3 DEF Op
    <3>3. ~Adding(t) /\ Gone(t) = walk[t].removed
      BY <1>1, <2>3, <3>2 DEF Adding, Gone
    <3>4. walk[t].removed \in Nat
      BY <1>0 DEF WalkTyped
    <3> QED
      BY <1>0, <3>1, <3>3, <3>4 DEF Weight
  <2> QED
    BY <1>0, <1>1, <2>1, <2>2, <2>3 DEF Control
<1>4. Staying' = Staying
  BY <1>1, BetweenParts, IdleMeans, SteadyStays
<1>5. Weight(t) \in Int
  BY BetweenParts
<1> QED
  BY <1>0, <1>2, <1>3, <1>4, <1>5 DEF Tallies

(* The steps that put a key or take one *)
LEMMA CasTallies ==
    ASSUME NEW t \in Threads, Between(t), PutCas(t)
    PROVE  Tallies(t)
<1>0. /\ MapInv /\ MapInv' /\ MapTyped /\ IInv /\ PInv /\ SameAddress /\ DOMAIN opc = Threads
      /\ count \in Int /\ Cardinality(Staying) \in Nat /\ count' \in Int
  BY BetweenParts
<1>1. pc[t] = "idle" /\ opc[t] = "Cas" /\ count' = count /\ UNCHANGED <<plan, locked, walk, call>>
  BY DEF PutCas, At
<1>2. CASE ThisBin(t) = 0 /\ ~ThisBinMoved(t)
  <2>1. Updates(t)
    BY <1>0, <1>2, PutCasMeans
  <2>2. Contents[Key(t)] = None /\ Key(t) \in Keys /\ call[t].val \in Values
    BY <1>0, <1>2, PutCasWrites
  <2>3. Op(t) \in {"insert", "try_insert"} /\ Op(t) = call[t].op /\ ~Removing(t) /\ Key(t) = call[t].key
    BY <1>0, PutCasDoes, PutValue DEF Key
  <2>4. Abstract!After(call[t], Contents[Key(t)]) = call[t].val
    BY <2>2, <2>3 DEF Abstract!After
  <2>5. /\ IsFiniteSet(Staying') /\ Cardinality(Staying') \in Int
        /\ Cardinality(Staying') = Cardinality(Staying) - 0 + 1
    BY <2>1, <2>2, <2>3, <2>4, KeyStays, NoneAssumption DEF Updates
  <2>6. opc'[t] = "Count" /\ Op(t)' = Op(t)
    BY <1>0, <1>1, <1>2, ToIs DEF PutCas, Op, Removing
  <2>7. Adding(t)' /\ Gone(t)' = 0
    BY <1>1, <2>3, <2>6 DEF Adding, Gone
  <2>8. Weight(t)' = 1 /\ Weight(t) = 0
    BY <1>1, <2>7, Weightless DEF Weight, Laden
  <2> QED
    BY <1>0, <1>1, <2>5, <2>8 DEF Tallies
<1>3. CASE ~(ThisBin(t) = 0 /\ ~ThisBinMoved(t))
  <2>1. UNCHANGED <<heap, plan>> /\ opc'[t] \in {"Bin", "Node", "Value", "Lock"}
    BY <1>0, <1>3 DEF PutCas, NextWith, To, Set
  <2> QED
    BY <1>1, <2>1, LightTallies DEF Laden
<1> QED
  BY <1>2, <1>3

LEMMA PutTallies ==
    ASSUME NEW t \in Threads, Between(t), PutLocked(t)
    PROVE  Tallies(t)
<1> DEFINE p == ChainHolding(Key(t), cur[t])
           old == Contents[Key(t)]
<1>0. /\ MapInv /\ MapInv' /\ MapTyped /\ IInv /\ PInv /\ SameAddress /\ DOMAIN opc = Threads
      /\ count \in Int /\ Cardinality(Staying) \in Nat /\ count' \in Int /\ DOMAIN result = Threads
  BY BetweenParts
<1>1. /\ CanLock(t) /\ ~HeadChanged(t) /\ opc[t] = "Lock" /\ count' = count
      /\ UNCHANGED <<walk, call>>
  BY DEF PutLocked, CanLock, At
<1>2. Updates(t)
  BY <1>0, PutLockedMeans
<1>3. /\ Op(t) \in {"insert", "try_insert"} /\ Op(t) = call[t].op /\ ~Removing(t)
      /\ call[t].val \in Values /\ Key(t) = call[t].key /\ Key(t) \in Keys
  BY <1>0, PutLockedDoes, PutValue DEF Key
<1>4. old = None <=> p = 0
  BY <1>0, <1>1, LockedAt, NoneAssumption
<1>5. opc'[t] = "Treeify" \/ (opc'[t] = "Done" /\ p # 0)
  BY <1>0 DEF PutLocked, Finish, To, Set
<1>6. result'[t] = old
  BY <1>0, <1>2, <1>3 DEF Updates, Abstract!Answer, Set
<1>7. /\ Abstract!After(call[t], old) \in Values
      /\ old \in Values \cup {None}
  <2>1. old \in Values \cup {None}
    BY <1>3, BetweenParts
  <2>2. Abstract!After(call[t], old) = IF old = None THEN call[t].val ELSE Abstract!After(call[t], old)
    BY <1>3 DEF Abstract!After
  <2>3. Abstract!After(call[t], old) \in {old, call[t].val}
    BY <1>3 DEF Abstract!After
  <2> QED
    BY <1>3, <2>1, <2>2, <2>3
<1> HIDE DEF p
<1>8. /\ IsFiniteSet(Staying') /\ Cardinality(Staying') \in Int
      /\ Cardinality(Staying') = Cardinality(Staying) - (IF old # None THEN 1 ELSE 0) + 1
  BY <1>2, <1>3, <1>7, KeyStays, NoneAssumption DEF Updates
<1>9. Weight(t)' = IF old = None THEN 1 ELSE 0
  <2>1. Op(t)' = Op(t)
    BY <1>1 DEF Op, Removing
  <2>2. Adding(t)' <=> old = None
    BY <1>4, <1>5, <1>6 DEF Adding
  <2>3. Gone(t)' = 0
    BY <1>5 DEF Gone
  <2> QED
    BY <2>2, <2>3 DEF Weight
<1>10. Weight(t) = 0
  BY <1>1, Weightless DEF Laden
<1> HIDE DEF old
<1> QED
  BY <1>0, <1>1, <1>8, <1>9, <1>10 DEF Tallies

(* The unlinking, whoever called for it *)
LEMMA UnlinkTallies ==
    ASSUME NEW t \in Threads, Between(t), CanLock(t), ~HeadChanged(t), NEW p,
           p = ChainHolding(Key(t), cur[t]), p # 0, Unlink(t, p),
           UNCHANGED <<resizeVars, locked, plan, walk, call>>, To(t, "Count", 0),
           Op(t) \in {"remove", "compute_if_present"}
    PROVE  Tallies(t)
<1>0. /\ MapInv /\ MapInv' /\ MapTyped /\ PInv /\ SameAddress
      /\ count \in Int /\ Cardinality(Staying) \in Nat
  BY BetweenParts
<1>1. Key(t) \in Keys /\ Contents[Key(t)] # None
  BY <1>0, LockedAt, NoneAssumption
<1>2. /\ Rewrites(Key(t), None, tab[t], Bini(Key(t), tab[t]))
      /\ \A x \in 1..Len(node') : Kept(x)
  BY <1>0, UnlinkWrites
<1>3. OneNew(0, Key(t))
  BY <1>2 DEF OneNew
<1>4. Key(t) \notin Doomed /\ Doomed' = Doomed /\ Contents' = [Contents EXCEPT ![Key(t)] = None]
  BY <1>0, <1>1, <1>2, <1>3, RewriteMeans
<1>5. /\ IsFiniteSet(Staying') /\ Cardinality(Staying') \in Int
      /\ Cardinality(Staying') = Cardinality(Staying) - 1 + 0
  BY <1>1, <1>4, KeyStays
<1>6. opc'[t] = "Count" /\ Op(t)' = Op(t)
  BY <1>0, ToIs DEF Op, Removing
<1>7. ~Adding(t)' /\ Gone(t)' = 1
  BY <1>6 DEF Adding, Gone
<1>8. Weight(t)' = -1 /\ Weight(t) = 0
  BY <1>7, Weightless DEF Weight, CanLock, At, Laden
<1>9. count' = count
  OBVIOUS
<1> QED
  BY <1>0, <1>5, <1>8, <1>9 DEF Tallies

LEMMA TakeTallies ==
    ASSUME NEW t \in Threads, Between(t), RemoveLocked(t) \/ ComputeLocked(t)
    PROVE  Tallies(t)
<1> DEFINE p == ChainHolding(Key(t), cur[t])
<1>0. /\ MapInv /\ MapInv' /\ MapTyped /\ IInv /\ PInv /\ SameAddress
      /\ count \in Int /\ Cardinality(Staying) \in Nat /\ Control(t) /\ CallTyped(call[t])
  BY BetweenParts
<1>1. /\ CanLock(t) /\ ~HeadChanged(t) /\ opc[t] = "Lock" /\ pc[t] = "idle"
      /\ UNCHANGED <<resizeVars, locked, plan, walk, call>>
      /\ Op(t) \in {"remove", "compute_if_present"}
  BY <1>0, CutsDoes DEF RemoveLocked, ComputeLocked, CanLock, At
<1>2. CASE p # 0 /\ Unlink(t, p) /\ To(t, "Count", 0)
  BY <1>1, <1>2, UnlinkTallies
<1>3. CASE UNCHANGED <<bins, node>> /\ To(t, "Done", 0)
  <2>1. opc'[t] = "Done"
    BY <1>0, <1>3, ToIs
  <2> QED
    BY <1>1, <1>3, <2>1, LightTallies DEF Laden
<1>4. ASSUME ComputeLocked(t), p # 0, call[t].val # None PROVE Tallies(t)
  <2>1. Updates(t) /\ call[t].op = "compute_if_present" /\ To(t, "Done", 0)
    BY <1>0, <1>4, ComputeLockedMeans DEF ComputeLocked, Finish
  <2>2. Key(t) = call[t].key /\ call[t].val \in Values
    BY <1>0, <1>4, <2>1 DEF Updates, Key, CallTyped, ComputeLocked
  <2>3. Key(t) \in Keys /\ Contents[Key(t)] # None
    BY <1>0, <1>1, <1>4, LockedAt, NoneAssumption
  <2>4. Abstract!After(call[t], Contents[Key(t)]) = call[t].val
    BY <2>1, <2>3 DEF Abstract!After
  <2>5. /\ IsFiniteSet(Staying') /\ Cardinality(Staying') \in Int
        /\ Cardinality(Staying') = Cardinality(Staying) - 1 + 1
    BY <1>4, <2>1, <2>2, <2>3, <2>4, KeyStays DEF Updates
  <2>6. Weight(t)' = 0 /\ Weight(t) = 0
    BY <1>0, <1>1, <2>1, ToIs, Weightless, WeightlessNext DEF Laden
  <2>7. count' = count
    BY <1>1
  <2> QED
    BY <1>0, <2>5, <2>6, <2>7 DEF Tallies
<1>5. CASE RemoveLocked(t)
  <2>1. \/ p # 0 /\ Unlink(t, p) /\ To(t, "Count", 0)
        \/ UNCHANGED <<bins, node>> /\ To(t, "Done", 0)
    BY <1>5 DEF RemoveLocked, Finish
  <2> HIDE DEF p
  <2> QED
    BY <1>2, <1>3, <2>1
<1>6. CASE ComputeLocked(t)
  <2>1. \/ p # 0 /\ Unlink(t, p) /\ To(t, "Count", 0)
        \/ UNCHANGED <<bins, node>> /\ To(t, "Done", 0)
        \/ p # 0 /\ call[t].val # None
    BY <1>6 DEF ComputeLocked, Finish
  <2> HIDE DEF p
  <2> QED
    BY <1>2, <1>3, <1>4, <1>6, <2>1
<1> QED
  BY <1>5, <1>6

(* The resize leaves the keys where they are: what a clear has doomed is gone
   when its bin is marked, and was not counted on. *)
LEMMA ResizeTallies ==
    ASSUME NEW t \in Threads, Between(t), Routine(t) \/ Transfer(t)
    PROVE  Tallies(t)
<1>0. /\ MapInv /\ MapInv' /\ PInv /\ SameAddress /\ AnyStep(t)
      /\ count \in Int /\ Cardinality(Staying) \in Nat /\ count' \in Int /\ IsFiniteSet(Staying)
      /\ Weight(t) \in Int
  BY BetweenParts
<1>1. UNCHANGED <<call, opc, walk, result>>
  BY SplitLeaves DEF Routine, Transfer, TransferBinMoved, TransferBinForward, TransferEmptyBin,
     TransferStoreLow, TransferStoreHigh, TransferListBin
<1>2. Weight(t)' = Weight(t)
  BY <1>1 DEF Weight, Adding, Gone, Op, Removing
<1>3. CASE Routine(t)
  <2>1. count' = count
    BY <1>3, RoutineLeaves
  <2>2. Steady
    BY <1>0, <1>3, RoutineMeans
  <2> QED
    BY <1>2, <2>1, <2>2, EvenTallies
<1>4. CASE TransferBinMoved(t) \/ TransferBinForward(t) \/ TransferEmptyBin(t)
  <2>1. count' = count
    BY <1>4 DEF TransferBinMoved, TransferBinForward, TransferEmptyBin, TransferSkipMoved,
       TransferForward, TransferMoveBin
  <2>2. Steady
    BY <1>0, <1>4, RoutineMeans
  <2> QED
    BY <1>2, <2>1, <2>2, EvenTallies
<1>5. CASE TransferSplit(t)
  <2>1. count' = count
    BY <1>5, SplitLeaves
  <2>2. Steady
    BY <1>0, <1>5, SplitMeans
  <2> QED
    BY <1>2, <2>1, <2>2, EvenTallies
<1>6. CASE TransferStoreLow(t) \/ TransferStoreHigh(t)
  <2>1. count' = count
    BY <1>6 DEF TransferStoreLow, TransferStoreHigh
  <2>2. Steady
    BY <1>0, <1>6, StoresMeans
  <2> QED
    BY <1>2, <2>1, <2>2, EvenTallies
<1>7. CASE TransferListBin(t)
  <2>1. count' = count
    BY <1>7 DEF TransferListBin, TransferMoveBin
  <2>2. PICK gone \in SUBSET Doomed : Doomed' = Doomed \ gone /\ Without(gone)
    BY <1>0, <1>7, ListBinMeans
  <2>3. \A k \in Keys : Contents'[k] = IF k \in gone THEN None ELSE Contents[k]
    BY <2>2 DEF Without
  <2>4. Staying' = Staying
    BY <2>2, <2>3 DEF Staying, Present
  <2> QED
    BY <1>0, <1>2, <2>1, <2>4 DEF Tallies
<1> QED
  BY <1>3, <1>4, <1>5, <1>6, <1>7 DEF Transfer

-----------------------------------------------------------------------------
(* A clear empties a bin: as many keys go, or are doomed, as it has nodes. *)

KeysOf(h) == {node[m].key : m \in Reach(node, h)}

LEMMA KeysCounted ==
    ASSUME Linked(node), Ranked(node), NEW h \in 0..Len(node),
           \A a, b \in Reach(node, h) : node[a].key = node[b].key => a = b
    PROVE  IsFiniteSet(KeysOf(h)) /\ Cardinality(KeysOf(h)) = Len(Chain(h))
<1> DEFINE s == Chain(h)
           f == [j \in 1..Len(s) |-> node[s[j]].key]
<1>1. Walks(node, h, s)
  BY ChainWalks
<1> HIDE DEF s
<1>2. Len(s) \in Nat /\ \A j \in 1..Len(s) : s[j] \in 1..Len(node)
  BY <1>1, LenProperties, ElementOfSeq DEF Walks
<1>3. \A j \in 1..Len(s) : s[j] \in Reach(node, h)
  BY <1>1, <1>2 DEF Walks
<1>4. Reach(node, h) \subseteq 1..Len(node)
  BY ReachIs
<1>5. \A m \in Reach(node, h) : \E j \in 1..Len(s) : s[j] = m
  BY <1>1, <1>4 DEF Walks
<1>6. f \in [1..Len(s) -> KeysOf(h)]
  BY <1>3 DEF KeysOf
<1>7. ASSUME NEW i \in 1..Len(s), NEW j \in 1..Len(s), f[i] = f[j] PROVE i = j
  <2>1. s[i] = s[j]
    BY <1>3, <1>7
  <2> QED
    BY <1>1, <2>1 DEF Walks
<1>8. ASSUME NEW k \in KeysOf(h) PROVE \E j \in 1..Len(s) : f[j] = k
  BY <1>5, <1>8 DEF KeysOf
<1>9. f \in Bijection(1..Len(s), KeysOf(h))
  <2> HIDE DEF f
  <2>1. f \in Injection(1..Len(s), KeysOf(h))
    BY <1>6, <1>7 DEF Injection, IsInjective
  <2>2. f \in Surjection(1..Len(s), KeysOf(h))
    BY <1>6, <1>8 DEF Surjection
  <2> QED
    BY <2>1, <2>2 DEF Bijection
<1>10. IsFiniteSet(1..Len(s)) /\ Cardinality(1..Len(s)) = Len(s)
  <2> DEFINE n == Len(s)
  <2>1. n \in Nat
    BY <1>2
  <2> HIDE DEF n
  <2>2. 1 \in Int /\ n \in Int
    BY <2>1
  <2>3. IsFiniteSet(1..n) /\ Cardinality(1..n) = IF 1 > n THEN 0 ELSE n - 1 + 1
    BY <2>2, FS_Interval
  <2>4. (IF 1 > n THEN 0 ELSE n - 1 + 1) = n
    BY <2>1
  <2> QED
    BY <2>3, <2>4 DEF n
<1>11. IsFiniteSet(KeysOf(h)) /\ Cardinality(KeysOf(h)) = Cardinality(1..Len(s))
  <2>1. ExistsBijection(1..Len(s), KeysOf(h))
    BY <1>9 DEF ExistsBijection
  <2> QED
    BY <1>10, <2>1, FS_Bijection
<1> QED
  BY <1>10, <1>11 DEF s

(* What a clear's store of an empty bin does to a key *)
LEMMA ClearSpoils ==
    ASSUME MapInv, UNCHANGED <<table, plan, node, idx>>, NEW n \in Caps, NEW i \in 0..(n - 1),
           BinsOver(n, i, 0), bins'[n][i] = 0, NEW u \in Threads, NEW k \in Keys
    PROVE  Spoiled(u, k)' <=>
              \/ Spoiled(u, k)
              \/ /\ Planning(u) /\ n = 2 * table /\ Bini(k, 2 * table) = i
                 /\ plan[u].stage = "moved" \/ (plan[u].stage = "high" /\ Bini(k, 2 * table) = idx[u])
                 /\ ValuesAt(node, plan[u].head, k) # {}
<1> DEFINE j == Bini(k, 2 * table)
<1>1. j' = j /\ (Planning(u)' <=> Planning(u))
  BY DEF Bini, Planning
<1>2. CASE ~Planning(u)
  BY <1>1, <1>2 DEF Spoiled
<1>3. CASE Planning(u)
  <2>1. 2 * table \in Caps
    BY <1>3, PlansKnown DEF PlansHome, PlanHome
  <2>2. j \in 0..(2 * table - 1)
    BY <2>1, BiniTyped
  <2>3. ValuesAt(node, 0, k) = {}
    BY HeldNothing
  <2> HIDE DEF j
  <2>4. bins'[2 * table][j] = IF n = 2 * table /\ j = i THEN 0 ELSE bins[2 * table][j]
    BY <2>1, <2>2 DEF BinsOver
  <2>5. Spoiled(u, k) <=>
           /\ plan[u].stage = "moved" \/ (plan[u].stage = "high" /\ j = idx[u])
           /\ ValuesAt(node, plan[u].head, k) # {}
           /\ ValuesAt(node, bins[2 * table][j], k) = {}
    BY <1>3 DEF Spoiled, j
  <2>6. Spoiled(u, k)' <=>
           /\ plan[u].stage = "moved" \/ (plan[u].stage = "high" /\ j = idx[u])
           /\ ValuesAt(node, plan[u].head, k) # {}
           /\ ValuesAt(node, bins'[2 * table][j], k) = {}
    <3>1. Bini(k, 2 * table)' = Bini(k, 2 * table)
      BY <1>1 DEF j
    <3> QED
      BY <1>1, <1>3, <3>1 DEF Spoiled, j
  <2> QED
    BY <1>3, <2>3, <2>4, <2>5, <2>6 DEF j
<1> QED
  BY <1>2, <1>3

(* The keys of a bin of a table from which it has not moved *)
LEMMA ClearLive ==
    ASSUME MapInv, MapInv', UNCHANGED <<resizeVars, plan, node, locked>>,
           NEW n \in Caps, NEW i \in 0..(n - 1), BinsOver(n, i, 0), bins'[n][i] = 0,
           i \notin moved[n], Live(n, i), bins[n][i] \notin locked, NEW k \in Keys
    PROVE  /\ ValuesAt(node, bins[n][i], k) # {} => k \in Staying
           /\ k \in Staying' <=> k \in Staying /\ ValuesAt(node, bins[n][i], k) = {}
<1>1. HomesFit /\ HomesFit' /\ PlansHome /\ IInv /\ Marks /\ Lists
  BY HomeKnown, HomeKnownNext, PlansKnown, InvParts
<1>2. \A u \in Threads : Spoiled(u, k)' <=> Spoiled(u, k)
  <2>1. ASSUME NEW u \in Threads, Planning(u), n = 2 * table, Bini(k, 2 * table) = i,
               ValuesAt(node, plan[u].head, k) # {}
        PROVE  FALSE
    <3>1. /\ Bini(k, table) = idx[u] /\ table \in Caps /\ 2 * table \in Caps
          /\ idx[u] \in 0..(table - 1) /\ idx[u] \notin moved[table]
      BY <1>1, <2>1 DEF PlansHome, PlanHome
    <3>2. i \in {idx[u], idx[u] + table}
      BY <2>1, <3>1, BiniHalves
    <3> QED
      BY <1>1, <2>1, <3>1, <3>2, NotYetLive
  <2>2. UNCHANGED <<table, plan, node, idx>>
    OBVIOUS
  <2>3. ASSUME NEW u \in Threads PROVE Spoiled(u, k)' <=> Spoiled(u, k)
    <3>1. ~(Planning(u) /\ n = 2 * table /\ Bini(k, 2 * table) = i /\ ValuesAt(node, plan[u].head, k) # {})
      BY <2>1
    <3>2. Spoiled(u, k)' <=>
             \/ Spoiled(u, k)
             \/ /\ Planning(u) /\ n = 2 * table /\ Bini(k, 2 * table) = i
                /\ plan[u].stage = "moved" \/ (plan[u].stage = "high" /\ Bini(k, 2 * table) = idx[u])
                /\ ValuesAt(node, plan[u].head, k) # {}
      BY <2>2, ClearSpoils
    <3> QED
      BY <3>1, <3>2
  <2> QED
    BY <2>3
<1>3. k \in Doomed' <=> k \in Doomed
  BY <1>2, DoomedKnown, DoomedKnownNext DEF DoomedIs
<1>4. ASSUME Bini(k, n) = i
      PROVE  /\ HomeTable(k) = n /\ HomeHead(k) = bins[n][i] /\ HomeHead(k)' = 0 /\ k \notin Doomed
  <2>1. HomeTable(k) = n
    BY <1>1, <1>4, LiveHome
  <2>2. HomeHead(k) = bins[n][i]
    BY <1>4, <2>1 DEF HomeHead, HomeBin
  <2>3. HomeTable(k)' = HomeTable(k) /\ HomeBin(k)' = HomeBin(k)
    BY DEF HomeTable, HomeBin, Bini
  <2>4. HomeHead(k)' = 0
    BY <1>4, <2>1, <2>3 DEF HomeHead, HomeBin
  <2>5. k \notin Doomed
    BY <2>2, KeyFree
  <2> QED
    BY <2>1, <2>2, <2>4, <2>5
<1>5. ASSUME ValuesAt(node, bins[n][i], k) # {} PROVE Bini(k, n) = i
  <2>1. IsList(node, bins[n][i], n, i)
    BY <1>1 DEF Lists, LiveBins
  <2> QED
    BY <1>5, <2>1 DEF ValuesAt, IsList
<1>6. table # Null /\ table' # Null
  <2>1. ASSUME table = Null PROVE FALSE
    <3>1. n # table /\ n # 2 * table
      BY <2>1, NoneBetween
    <3> QED
      BY <3>1 DEF Live
  <2> QED
    BY <2>1
<1>7. ValuesAt(node, HomeHead(k), k) = Only(Contents[k]) /\ ValuesAt(node', HomeHead(k)', k) = Only(Contents'[k])
  BY <1>1, <1>6 DEF HomesFit, HomeFits
<1>8. CASE Bini(k, n) = i
  <2>1. ValuesAt(node, bins[n][i], k) = Only(Contents[k]) /\ k \notin Doomed
    BY <1>4, <1>7, <1>8
  <2>2. ValuesAt(node, 0, k) = {} /\ ValuesAt(node', HomeHead(k)', k) = ValuesAt(node, 0, k)
    BY <1>4, <1>8, HeldNothing
  <2>3. Only(Contents'[k]) = {}
    BY <1>7, <2>2
  <2>4. Contents'[k] = None
    BY <2>3 DEF Only
  <2>5. ValuesAt(node, bins[n][i], k) # {} <=> Contents[k] # None
    BY <2>1 DEF Only
  <2> QED
    BY <1>3, <2>1, <2>4, <2>5 DEF Staying, Present
<1>9. CASE Bini(k, n) # i
  <2>1. HomeTable(k)' = HomeTable(k) /\ HomeBin(k)' = HomeBin(k)
    BY DEF HomeTable, HomeBin, Bini
  <2>2. HomeTable(k) \in Caps /\ HomeBin(k) \in 0..(HomeTable(k) - 1)
    BY <1>1, <1>6 DEF HomesFit, HomeFits
  <2>3. HomeHead(k)' = HomeHead(k)
    BY <1>9, <2>1, <2>2 DEF BinsOver, HomeHead, HomeBin
  <2>4. Contents'[k] = Contents[k]
    BY <1>6, <2>3, ContentsKept
  <2> QED
    BY <1>3, <1>5, <1>9, <2>4 DEF Staying, Present
<1> QED
  BY <1>8, <1>9

(* The keys of a bin of the next table that a transfer has stored: they are
   still in the bin they come from, and doomed. *)
LEMMA ClearDraft ==
    ASSUME MapInv, MapInv', PInv, \A u \in Threads : Unstored(u),
           UNCHANGED <<resizeVars, plan, node, locked>>,
           NEW n \in Caps, NEW i \in 0..(n - 1), BinsOver(n, i, 0), bins'[n][i] = 0,
           ~Live(n, i), NEW k \in Keys
    PROVE  /\ ValuesAt(node, bins[n][i], k) # {} => k \in Staying
           /\ k \in Staying' <=> k \in Staying /\ ValuesAt(node, bins[n][i], k) = {}
<1> DEFINE h == bins[n][i]
<1>1. HomesFit /\ HomesFit' /\ PlansHome /\ MapTyped /\ IInv /\ CInv /\ Lists
  BY HomeKnown, HomeKnownNext, PlansKnown, InvParts
<1>2. Contents'[k] = Contents[k]
  <2>1. CASE table = Null
    BY <1>1, <2>1 DEF HomesFit
  <2>2. CASE table # Null
    <3>1. HomeTable(k)' = HomeTable(k) /\ HomeBin(k)' = HomeBin(k)
      BY DEF HomeTable, HomeBin, Bini
    <3>2. /\ HomeTable(k) \in Caps /\ HomeBin(k) \in 0..(HomeTable(k) - 1)
          /\ Live(HomeTable(k), HomeBin(k))
      BY <1>1, <2>2 DEF HomesFit, HomeFits
    <3>3. HomeHead(k)' = HomeHead(k)
      BY <3>1, <3>2 DEF BinsOver, HomeHead
    <3> QED
      BY <2>2, <3>3, ContentsKept
  <2> QED
    BY <2>1, <2>2
<1>3. Doomed = {j \in Keys : \E u \in Threads : Spoiled(u, j)}
      /\ Doomed' = {j \in Keys : \E u \in Threads : Spoiled(u, j)'}
  BY DoomedKnown, DoomedKnownNext DEF DoomedIs
<1>4. CASE ValuesAt(node, h, k) = {}
  <2>1. ASSUME NEW u \in Threads PROVE Spoiled(u, k)' <=> Spoiled(u, k)
    <3>1. UNCHANGED <<table, plan, node, idx>>
      OBVIOUS
    <3>2. Spoiled(u, k) => Spoiled(u, k)'
      BY <3>1, ClearSpoils
    <3>3. ASSUME Planning(u), n = 2 * table, Bini(k, 2 * table) = i,
                 plan[u].stage = "moved" \/ (plan[u].stage = "high" /\ Bini(k, 2 * table) = idx[u]),
                 ValuesAt(node, plan[u].head, k) # {}
          PROVE  Spoiled(u, k)
      BY <1>4, <3>3 DEF Spoiled
    <3> QED
      BY <3>1, <3>2, <3>3, ClearSpoils
  <2> QED
    BY <1>2, <1>3, <1>4, <2>1 DEF Staying, Present
<1>5. CASE ValuesAt(node, h, k) # {}
  <2>1. h # 0
    BY <1>5, HeldNothing
  <2>2. PICK u \in Threads : Draft(u, n, i, h)
    BY <1>1, <2>1 DEF Lists, OtherBins, Drafts
  <2>3. n = 2 * table /\ IsList(node, h, n, i) /\ RootOf(n, i, idx[u]) /\ Planning(u)
    BY <1>1, <2>2, DraftKnows DEF Draft
  <2>4. Bini(k, n) = i
    BY <1>5, <2>3 DEF ValuesAt, IsList
  <2>5. Bini(k, table) = idx[u]
    BY <2>3, <2>4, RootIndexed
  <2>6. PlanHome(u) /\ PlanWhole(u) /\ Unstored(u) /\ plan[u] \in Plans /\ tab[u] = table
    BY <1>1, <2>3, PlannerKnows DEF PlansHome, PInv, MapTyped, HeapTyped
  <2>7. \/ i = idx[u] /\ h = plan[u].low
        \/ i = idx[u] + table /\ h = plan[u].high /\ i # idx[u]
    <3>1. table \in Nat /\ table > 0 /\ idx[u] \in 0..(table - 1)
      BY <2>6, NoneBetween DEF PlanHome
    <3> QED
      BY <2>2, <2>6, <3>1 DEF Draft
  <2>8. NewHead(u, k) = h
    BY <2>3, <2>4, <2>7 DEF NewHead
  <2>9. ValuesAt(node, plan[u].head, k) = ValuesAt(node, h, k)
    BY <2>3, <2>5, <2>6, <2>8 DEF PlanWhole
  <2>10. plan[u].stage = "moved" \/ (plan[u].stage = "high" /\ i = idx[u])
    <3>1. plan[u].stage \in {"low", "high", "moved"}
      BY <2>3, <2>6 DEF Planning, Plans
    <3> QED
      BY <2>1, <2>3, <2>6, <2>7, <3>1 DEF Unstored
  <2>11. Spoiled(u, k)'
    BY <1>5, <2>3, <2>4, <2>9, <2>10, ClearSpoils
  <2>12. k \in Doomed'
    BY <1>3, <2>11
  <2>13. k \notin Doomed
    BY <1>3, <1>5, <2>3, <2>4 DEF Spoiled
  <2>14. Contents[k] # None
    <3>1. table # Null /\ HomeHead(k) = plan[u].head
      BY <2>5, <2>6 DEF PlanHome
    <3>2. ValuesAt(node, plan[u].head, k) = Only(Contents[k])
      BY <1>1, <3>1 DEF HomesFit, HomeFits
    <3> QED
      BY <1>5, <2>9, <3>2 DEF Only
  <2> QED
    BY <1>5, <2>12, <2>13, <2>14 DEF Staying, Present
<1> QED
  BY <1>4, <1>5

LEMMA SightRemoved ==
    ASSUME MapTyped, NEW t \in Threads, NEW i, NEW r,
           walk' = [walk EXCEPT ![t].at.index = i, ![t].removed = @ + r]
    PROVE  walk'[t].removed = walk[t].removed + r
<1>1. t \in DOMAIN walk /\ IsWalk(walk[t], walk[t].at, walk[t].met, walk[t].removed, walk[t].sight)
  BY PlaceTyped DEF MapTyped, Domains, WalkTyped
<1> DEFINE w == [walk EXCEPT ![t].at.index = i]
           a == [walk[t].at EXCEPT !.index = i]
           s == walk[t].removed + r
<1>2. IsWalk(w[t], a, walk[t].met, walk[t].removed, walk[t].sight) /\ t \in DOMAIN w
  BY <1>1, IndexStored
<1>3. walk' = [w EXCEPT ![t].removed = s]
  <2>1. w[t].removed = walk[t].removed
    BY <1>2 DEF IsWalk
  <2> QED
    BY <2>1
<1> HIDE DEF w, a
<1>4. IsWalk([w EXCEPT ![t].removed = s][t], a, walk[t].met, s, walk[t].sight)
  BY <1>2, RemovedStored
<1>5. IsWalk(walk'[t], a, walk[t].met, s, walk[t].sight)
  BY <1>3, <1>4
<1> QED
  BY <1>5 DEF IsWalk

(* A clear empties its bin, of as many keys as it adds to its account. *)
LEMMA EmptyTallies ==
    ASSUME NEW t \in Threads, Between(t), ClearLocked(t),
           walk[t].at.index \notin moved[tab[t]], bins[tab[t]][walk[t].at.index] = cur[t]
    PROVE  /\ IsFiniteSet(Staying')
           /\ Cardinality(Staying') = Cardinality(Staying) - Len(Chain(cur[t]))
           /\ Cardinality(Staying') \in Nat /\ Len(Chain(cur[t])) \in Nat
<1> DEFINE n == tab[t]
           i == walk[t].at.index
           h == cur[t]
           G == KeysOf(h)
<1>0. /\ MapInv /\ MapInv' /\ MapTyped /\ IInv /\ PInv /\ WalkTyped(walk[t]) /\ ClearCounts(t)
      /\ IsFiniteSet(Staying) /\ Cardinality(Staying) \in Nat
  BY BetweenParts
<1>1. /\ UNCHANGED <<resizeVars, plan, node, locked>> /\ h \notin locked /\ opc[t] = "ClearLock"
      /\ BinSet(n, i, 0) /\ bins[n][i] = h
  BY DEF ClearLocked, At, BinSet
<1>2. HeapTyped /\ Linked(node) /\ Ranked(node) /\ h \in 0..Len(node) /\ Lists
  BY <1>0, InvParts DEF MapTyped, HeapTyped
<1>3. n \in Caps /\ i \in 0..(n - 1)
  <2>1. i \in Nat /\ i < n
    BY <1>0, <1>1 DEF ClearCounts, WalkTyped, AtTyped
  <2>2. n \in Caps \cup {Null} /\ n \in Nat
    BY <1>0, LocalValues DEF IInv, TypeOK
  <2> HIDE DEF n, i
  <2> QED
    BY <2>1, <2>2
<1>4. BinsOver(n, i, 0) /\ bins'[n][i] = 0
  <2>1. BinsOver(n, i, 0)
    BY <1>1, <1>2, BinSetOver
  <2> QED
    BY <1>1, <1>2, <1>3, <2>1 DEF BinSet, HeapTyped
<1>5. \A u \in Threads : Unstored(u)
  BY DEF Between
<1> HIDE DEF n, i
<1>6. ASSUME NEW k \in Keys
      PROVE  /\ ValuesAt(node, h, k) # {} => k \in Staying
             /\ k \in Staying' <=> k \in Staying /\ ValuesAt(node, h, k) = {}
  <2>1. CASE Live(n, i)
    <3>1. i \notin moved[n] /\ bins[n][i] \notin locked
      BY <1>1 DEF n, i
    <3> QED
      BY <1>0, <1>1, <1>3, <1>4, <2>1, <3>1, ClearLive
  <2>2. CASE ~Live(n, i)
    BY <1>0, <1>1, <1>3, <1>4, <1>5, <2>2, ClearDraft
  <2> QED
    BY <2>1, <2>2
<1> HIDE DEF h
<1>7. ASSUME NEW k \in Keys PROVE k \in G <=> ValuesAt(node, h, k) # {}
  <2>1. ValuesAt(node, h, k) = {} <=> \A m \in Reach(node, h) : node[m].key # k
    BY <1>2, HeldNone
  <2> QED
    BY <2>1 DEF KeysOf
<1>8. G \subseteq Keys
  <2>1. ASSUME NEW m \in Reach(node, h) PROVE node[m].key \in Keys
    <3>1. m \in 1..Len(node)
      BY DEF Reach
    <3> QED
      BY <1>2, <3>1 DEF Linked
  <2> QED
    BY <2>1 DEF KeysOf
<1>9. \A a, b \in Reach(node, h) : node[a].key = node[b].key => a = b
  <2>1. IsList(node, h, n, i)
    <3>1. CASE Live(n, i)
      BY <1>1, <1>2, <1>3, <3>1 DEF Lists, LiveBins
    <3>2. CASE ~Live(n, i)
      <4>1. Drafts(n, i, h)
        BY <1>1, <1>2, <1>3, <3>2 DEF Lists, OtherBins
      <4>2. CASE h = 0
        BY <4>2, EmptyList
      <4>3. ASSUME NEW u \in Threads, Draft(u, n, i, h) PROVE IsList(node, h, n, i)
        BY <1>0, <4>3, InvParts, DraftKnows
      <4> QED
        BY <4>1, <4>2, <4>3 DEF Drafts
    <3> QED
      BY <3>1, <3>2
  <2> QED
    BY <2>1 DEF IsList
<1>10. IsFiniteSet(G) /\ Cardinality(G) = Len(Chain(h))
  BY <1>2, <1>9, KeysCounted
<1> DEFINE E == {}
<1>11. G \in SUBSET Staying /\ E \in SUBSET Staying' /\ (Staying \ G) = (Staying' \ E)
  <2>1. Staying \subseteq Keys /\ Staying' \subseteq Keys
    BY DEF Staying, Present
  <2> HIDE DEF G
  <2> QED
    BY <1>6, <1>7, <1>8, <2>1
<1>12. IsFiniteSet(E) /\ Cardinality(E) = 0
  BY FS_EmptySet
<1> HIDE DEF G, E
<1>13. /\ IsFiniteSet(Staying')
       /\ Cardinality(Staying') = Cardinality(Staying) - Cardinality(G) + Cardinality(E)
  BY <1>0, <1>11, <1>12, Exchanged
<1>14. Cardinality(G) \in Nat /\ Cardinality(Staying') \in Nat
  BY <1>10, <1>13, FS_CardinalityType
<1>15. Cardinality(Staying') = Cardinality(Staying) - Cardinality(G)
  BY <1>0, <1>12, <1>13, <1>14
<1> QED
  BY <1>10, <1>13, <1>14, <1>15 DEF h

LEMMA ClearLockedTallies ==
    ASSUME NEW t \in Threads, Between(t), ClearLocked(t)
    PROVE  Tallies(t)
<1>0. /\ MapInv /\ MapTyped /\ PInv /\ SameAddress /\ DOMAIN opc = Threads /\ Control(t)
      /\ count \in Int /\ Cardinality(Staying) \in Nat /\ DOMAIN walk = Threads
      /\ WalkTyped(walk[t])
  BY BetweenParts
<1>1. /\ opc[t] = "ClearLock" /\ opc'[t] = "Clear" /\ UNCHANGED <<call, node, plan, resizeVars>>
  BY <1>0 DEF ClearLocked, At, To, Set
<1>2. call[t].op = "clear" /\ ~Removing(t)
  BY <1>0, <1>1 DEF Control
<1>3. Weight(t) = -walk[t].removed /\ walk[t].removed \in Nat
  <2>1. ~Adding(t) /\ Gone(t) = walk[t].removed
    BY <1>1, <1>2 DEF Adding, Gone
  <2>2. walk[t].removed \in Nat
    BY <1>0 DEF WalkTyped
  <2> QED
    BY <2>1, <2>2 DEF Weight
<1>4. Weight(t)' = -walk'[t].removed /\ walk'[t].removed \in Nat
  <2>1. ~Adding(t)' /\ Gone(t)' = walk'[t].removed
    BY <1>1, <1>2 DEF Adding, Gone
  <2>2. Gone(t)' \in Nat
    BY GoneTypedNext DEF Between
  <2> QED
    BY <2>1, <2>2 DEF Weight
<1>5. CASE walk[t].at.index \in moved[tab[t]] \/ bins[tab[t]][walk[t].at.index] # cur[t]
  <2>1. UNCHANGED <<bins, walk>>
    BY <1>5 DEF ClearLocked
  <2>2. Steady
    BY <1>0, <1>1, <2>1, NothingMeans
  <2> QED
    BY <1>1, <1>3, <1>4, <2>1, <2>2, EvenTallies
<1>6. CASE ~(walk[t].at.index \in moved[tab[t]] \/ bins[tab[t]][walk[t].at.index] # cur[t])
  <2> DEFINE l == Len(Chain(cur[t]))
             i == walk[t].at.index + 1
  <2>1. /\ IsFiniteSet(Staying') /\ Cardinality(Staying') = Cardinality(Staying) - l
        /\ Cardinality(Staying') \in Nat /\ l \in Nat
    BY <1>6, EmptyTallies
  <2>2. walk' = [walk EXCEPT ![t].at.index = i, ![t].removed = @ + l]
    BY <1>6 DEF ClearLocked
  <2> HIDE DEF l, i
  <2>3. walk'[t].removed = walk[t].removed + l
    BY <1>0, <2>2, SightRemoved
  <2> DEFINE r == walk[t].removed
             s == Cardinality(Staying)
             s2 == Cardinality(Staying')
  <2>4. r \in Nat /\ s \in Nat /\ s2 = s - l /\ walk'[t].removed = r + l
    BY <1>0, <1>3, <2>1, <2>3
  <2>5. count' + Weight(t)' - s2 = count + Weight(t) - s
    <3>1. Weight(t) = -r /\ Weight(t)' = -(r + l) /\ count' = count
      BY <1>1, <1>3, <1>4, <2>3
    <3> HIDE DEF r, s, s2
    <3> QED
      BY <1>0, <2>1, <2>4, <3>1
  <2> QED
    BY <1>0, <1>1, <2>1, <2>5 DEF Tallies
<1> QED
  BY <1>5, <1>6

LEMMA StepTallies ==
    ASSUME NEW t \in Threads, Between(t)
    PROVE  Tallies(t)
<1>1. CASE Transfer(t) \/ Routine(t)
  BY <1>1, ResizeTallies
<1>2. CASE \E c : Begin(t, c)
  BY <1>2, SearchTallies
<1>3. CASE OpLoadTable(t) \/ OpNoTable(t) \/ OpMovedBin(t) \/ OpEmptyBin(t) \/ OpListBin(t)
            \/ GetNode(t) \/ LoadValue(t) \/ OpHeadChanged(t) \/ End(t)
  BY <1>3, LoadTableTallies, SearchTallies
<1>4. CASE PutCas(t) \/ PutLocked(t) \/ RemoveLocked(t) \/ ComputeLocked(t)
            \/ PutTreeify(t) \/ OpCount(t)
  BY <1>4, CasTallies, PutTallies, TakeTallies, TreeifyTallies, CountTallies
<1>5. CASE WalkBin(t) \/ WalkOn(t) \/ WalkEnd(t) \/ RetainLook(t) \/ RetainGoOn(t)
            \/ ClearBin(t) \/ ClearLocked(t) \/ ClearEnd(t)
  BY <1>5, WalkTallies, ClearStepTallies, ClearLockedTallies
<1>6. AnyStep(t)
  BY DEF Between
<1> QED
  BY <1>1, <1>2, <1>3, <1>4, <1>5, <1>6 DEF AnyStep, MapStep, Operation

-----------------------------------------------------------------------------
(* What a clear has to its account, and what a transfer has still to store,
   after a step *)

LEMMA RemovedOver ==
    ASSUME MapTyped, NEW t \in Threads, NEW x
    PROVE  /\ [walk EXCEPT ![t].at = x][t].removed = walk[t].removed
           /\ [walk EXCEPT ![t].sight = x][t].removed = walk[t].removed
<1>1. t \in DOMAIN walk /\ IsWalk(walk[t], walk[t].at, walk[t].met, walk[t].removed, walk[t].sight)
  BY PlaceTyped DEF MapTyped, Domains, WalkTyped
<1>2. IsWalk([walk EXCEPT ![t].at = x][t], x, walk[t].met, walk[t].removed, walk[t].sight)
  BY <1>1, AtStored
<1>3. IsWalk([walk EXCEPT ![t].sight = x][t], walk[t].at, walk[t].met, walk[t].removed, x)
  BY <1>1, SightStored
<1> QED
  BY <1>2, <1>3 DEF IsWalk

LEMMA RemovedMeets ==
    ASSUME MapTyped, NEW t \in Threads, NEW p, NEW at, Meets(t, p, at)
    PROVE  walk'[t].removed = walk[t].removed /\ opc'[t] \in {"WalkOn", "Look"}
<1>1. t \in DOMAIN walk /\ IsWalk(walk[t], walk[t].at, walk[t].met, walk[t].removed, walk[t].sight)
  BY PlaceTyped DEF MapTyped, Domains, WalkTyped
<1>2. opc'[t] \in {"WalkOn", "Look"}
  BY SightMeets
<1>3. CASE call[t].op # "iter"
  <2>1. walk' = [walk EXCEPT ![t].at = at]
    BY <1>3 DEF Meets
  <2>2. [walk EXCEPT ![t].at = at][t].removed = walk[t].removed
    BY RemovedOver
  <2> QED
    BY <1>2, <2>1, <2>2
<1>4. CASE call[t].op = "iter"
  <2> DEFINE w == [walk EXCEPT ![t].at = at]
             m == Append(walk[t].met, node[p].key)
  <2>1. IsWalk(w[t], at, walk[t].met, walk[t].removed, walk[t].sight) /\ t \in DOMAIN w
    BY <1>1, AtStored
  <2>2. walk' = [w EXCEPT ![t].met = m]
    <3>1. w[t].met = walk[t].met
      BY <2>1 DEF IsWalk
    <3> QED
      BY <1>4, <3>1 DEF Meets
  <2> HIDE DEF w, m
  <2>3. IsWalk([w EXCEPT ![t].met = m][t], at, m, walk[t].removed, walk[t].sight)
    BY <2>1, MetStored
  <2> QED
    BY <1>2, <2>2, <2>3 DEF IsWalk
<1> QED
  BY <1>3, <1>4

(* Only a clear has entries to its account; the other calls keep it at nothing. *)
LEMMA ClearCountsKept ==
    ASSUME NEW t, ClearCounts(t), call'[t] = call[t], walk'[t].removed = walk[t].removed,
           opc'[t] # "ClearLock", opc'[t] = "Table" => opc[t] = "Table" \/ call[t].op # "clear"
    PROVE  ClearCounts(t)'
  BY DEF ClearCounts

LEMMA SearchCounts ==
    ASSUME NEW t \in Threads, Between(t),
           \/ OpLoadTable(t) \/ OpNoTable(t) \/ OpMovedBin(t) \/ OpEmptyBin(t) \/ OpListBin(t)
           \/ GetNode(t) \/ LoadValue(t) \/ PutCas(t) \/ OpHeadChanged(t) \/ PutLocked(t)
           \/ RemoveLocked(t) \/ ComputeLocked(t) \/ PutTreeify(t) \/ OpCount(t)
    PROVE  ClearCounts(t)'
<1>0. DOMAIN opc = Threads /\ ClearCounts(t) /\ MapTyped
  BY BetweenParts
<1>1. CASE OpLoadTable(t)
  <2>1. opc'[t] \notin {"Table", "ClearLock"} /\ call' = call
    BY <1>0, <1>1 DEF OpLoadTable, Finish, To, Set
  <2>2. walk'[t].removed = walk[t].removed
    BY <1>0, <1>1, RemovedOver DEF OpLoadTable
  <2> QED
    BY <1>0, <2>1, <2>2, ClearCountsKept
<1>2. CASE OpNoTable(t) \/ OpMovedBin(t) \/ OpEmptyBin(t) \/ OpListBin(t)
  <2>1. opc'[t] \notin {"Table", "ClearLock"} /\ UNCHANGED <<call, walk>>
    BY <1>0, <1>2 DEF OpNoTable, OpMovedBin, OpEmptyBin, OpListBin, NextWith, Finish, At, To, Set
  <2> QED
    BY <1>0, <2>1, ClearCountsKept
<1>3. CASE GetNode(t) \/ LoadValue(t) \/ PutCas(t) \/ OpHeadChanged(t)
  <2>1. opc'[t] \notin {"Table", "ClearLock"} /\ UNCHANGED <<call, walk>>
    BY <1>0, <1>3 DEF GetNode, LoadValue, PutCas, OpHeadChanged, NextWith, Finish, To, Set
  <2> QED
    BY <1>0, <2>1, ClearCountsKept
<1>4. CASE PutLocked(t) \/ RemoveLocked(t) \/ ComputeLocked(t) \/ PutTreeify(t) \/ OpCount(t)
  <2>1. opc'[t] \notin {"Table", "ClearLock"} /\ UNCHANGED <<call, walk>>
    BY <1>0, <1>4 DEF PutLocked, RemoveLocked, ComputeLocked, PutTreeify, OpCount, Finish, To, Set
  <2> QED
    BY <1>0, <2>1, ClearCountsKept
<1> QED
  BY <1>1, <1>2, <1>3, <1>4

LEMMA WalkCounts ==
    ASSUME NEW t \in Threads, Between(t),
           WalkBin(t) \/ WalkOn(t) \/ WalkEnd(t) \/ RetainLook(t) \/ RetainGoOn(t)
    PROVE  ClearCounts(t)'
<1>0. DOMAIN opc = Threads /\ ClearCounts(t) /\ MapTyped /\ Control(t)
  BY BetweenParts
<1>1. CASE WalkBin(t) \/ WalkOn(t)
  <2>1. call' = call /\ opc[t] \in {"Walk", "WalkOn"}
    BY <1>1 DEF WalkBin, WalkOn, At
  <2>2. \/ \E p, at : Meets(t, p, at)
        \/ (opc'[t] \in {"Walk", "WalkOn"} /\ (walk' = walk \/ \E at : walk' = [walk EXCEPT ![t].at = at]))
    BY <1>0, <1>1, <2>1 DEF WalkBin, WalkOn, To, Set
  <2>3. ASSUME NEW p, NEW at, Meets(t, p, at)
        PROVE  opc'[t] \in {"Walk", "WalkOn", "Look"} /\ walk'[t].removed = walk[t].removed
    BY <1>0, <2>3, RemovedMeets
  <2>4. ASSUME NEW at, walk' = [walk EXCEPT ![t].at = at]
        PROVE  walk'[t].removed = walk[t].removed
    <3>1. [walk EXCEPT ![t].at = at][t].removed = walk[t].removed
      BY <1>0, RemovedOver
    <3> QED
      BY <2>4, <3>1
  <2>5. opc'[t] \in {"Walk", "WalkOn", "Look"} /\ walk'[t].removed = walk[t].removed
    BY <2>2, <2>3, <2>4
  <2> QED
    BY <1>0, <2>1, <2>5, ClearCountsKept
<1>2. CASE WalkEnd(t) \/ RetainGoOn(t)
  <2>1. call' = call /\ opc'[t] \in {"Done", "WalkOn"}
    BY <1>0, <1>2 DEF WalkEnd, RetainGoOn, To, Set
  <2>2. walk' = walk \/ walk' = [walk EXCEPT ![t].sight = NoSight]
    BY <1>2 DEF WalkEnd, RetainGoOn
  <2>3. [walk EXCEPT ![t].sight = NoSight][t].removed = walk[t].removed
    BY <1>0, RemovedOver
  <2>4. walk'[t].removed = walk[t].removed
    BY <2>2, <2>3
  <2> QED
    BY <1>0, <2>1, <2>4, ClearCountsKept
<1>3. CASE RetainLook(t)
  <2>1. call' = call /\ opc'[t] \in {"Table", "WalkOn"} /\ opc[t] = "Look"
    BY <1>0, <1>3 DEF RetainLook, At, To, Set
  <2>2. walk'[t].removed = walk[t].removed
    <3> DEFINE x == [node |-> cur[t], key |-> node[cur[t]].key,
                     address |-> IF call[t].op = "retain" THEN node[cur[t]].address ELSE 0]
    <3>1. walk' = walk \/ walk' = [walk EXCEPT ![t].sight = x]
      BY <1>3 DEF RetainLook
    <3> HIDE DEF x
    <3>2. [walk EXCEPT ![t].sight = x][t].removed = walk[t].removed
      BY <1>0, RemovedOver
    <3> QED
      BY <3>1, <3>2
  <2>3. call[t].op # "clear"
    BY <1>0, <2>1 DEF Control
  <2> QED
    BY <1>0, <2>1, <2>2, <2>3, ClearCountsKept
<1> QED
  BY <1>1, <1>2, <1>3

LEMMA ClearCountsNext ==
    ASSUME NEW t \in Threads, Between(t), NEW u \in Threads
    PROVE  ClearCounts(u)'
<1>0. /\ DOMAIN opc = Threads /\ DOMAIN call = Threads /\ DOMAIN walk = Threads
      /\ ClearCounts(t) /\ MapTyped /\ IInv /\ Control(t) /\ AnyStep(t) /\ LinInv /\ MapInv
  BY BetweenParts
<1>1. CASE u # t
  <2>1. MapSame(u) /\ Same(u)
    BY <1>0, <1>1, OthersHere
  <2>2. ClearCounts(u)
    BY DEF Between
  <2> QED
    BY <2>1, <2>2 DEF ClearCounts, MapSame, Same
<1>2. ASSUME Transfer(t) \/ Routine(t) PROVE ClearCounts(t)'
  <2>1. UNCHANGED <<call, opc, walk>>
    BY <1>2, SplitLeaves DEF Routine, Transfer, TransferBinMoved, TransferBinForward, TransferEmptyBin,
       TransferStoreLow, TransferStoreHigh, TransferListBin
  <2>2. pc[t] # "idle"
    <3>1. CASE Routine(t)
      BY <3>1, RoutineAt
    <3>2. CASE Transfer(t)
      <4>1. Planning(t) => pc[t] = "TransferBin"
        BY <1>0, InvParts DEF Lists, PlanFits
      <4> QED
        BY <3>2, <4>1, SplitLeaves DEF Transfer, TransferBinMoved, TransferBinForward, TransferEmptyBin,
           TransferStoreLow, TransferStoreHigh, TransferListBin, TransferSkipMoved, TransferForward, Planning
    <3> QED
      BY <1>2, <3>1, <3>2
  <2>3. opc[t] # "ClearLock"
    BY <1>0, <2>2 DEF ClearCounts
  <2> QED
    BY <1>0, <2>1, <2>3, ClearCountsKept
<1>3. ASSUME NEW c, Begin(t, c) PROVE ClearCounts(t)'
  <2>1. opc[t] = "idle" /\ opc'[t] = "Table" /\ walk' = walk
    BY <1>0, <1>3 DEF Begin, At, To, Set
  <2>2. walk[t].removed = 0
    BY <1>0, <2>1 DEF Control, ClearCounts
  <2> QED
    BY <2>1, <2>2 DEF ClearCounts
<1>4. ASSUME ClearBin(t) PROVE ClearCounts(t)'
  <2>1. opc[t] = "Clear" /\ pc[t] = "idle" /\ call[t].op = "clear" /\ call' = call
    BY <1>0, <1>4 DEF ClearBin, At, Control
  <2>2. \/ opc'[t] = "Clear"
        \/ opc'[t] = "ClearLock" /\ walk[t].at.index < tab[t] /\ UNCHANGED <<walk, tab, pc>>
    BY <1>0, <1>4, <2>1 DEF ClearBin, To, Set
  <2> QED
    BY <2>1, <2>2 DEF ClearCounts
<1>5. ASSUME ClearLocked(t) \/ ClearEnd(t) PROVE ClearCounts(t)'
  <2>1. opc[t] \in {"Clear", "ClearLock"} /\ opc'[t] \in {"Clear", "Done", "Count"} /\ call' = call
    BY <1>0, <1>5 DEF ClearLocked, ClearEnd, At, To, Set
  <2>2. call[t].op = "clear"
    BY <1>0, <2>1 DEF Control
  <2> QED
    BY <2>1, <2>2 DEF ClearCounts
<1>6. ASSUME End(t) PROVE ClearCounts(t)'
  <2>1. opc'[t] = "idle" /\ walk'[t] = NoWalk
    BY <1>0, <1>6 DEF End, To, Set
  <2>2. NoWalk.removed = 0
    BY DEF NoWalk
  <2> QED
    BY <2>1, <2>2 DEF ClearCounts
<1>7. CASE u = t
  BY <1>0, <1>2, <1>3, <1>4, <1>5, <1>6, <1>7, SearchCounts, WalkCounts DEF AnyStep, MapStep, Operation
<1> QED
  BY <1>1, <1>7

(* While a transfer has a bin in hand, its table stays, and the bin. *)
LEMMA PlannerStays ==
    ASSUME NEW t \in Threads, Between(t), NEW u \in Threads, Planning(u), plan'[u] = plan[u]
    PROVE  table' = table /\ idx'[u] = idx[u]
<1>0. /\ MapInv /\ MapTyped /\ IInv /\ CInv /\ Lists /\ IInv' /\ AnyStep(t)
  BY BetweenParts, InvParts DEF MapInv
<1>1. /\ pc[u] = "TransferBin" /\ tab[u] = table /\ idx[u] \notin moved[table] /\ table \in Caps
      /\ bins[table][idx[u]] # 0
  BY <1>0, PlannerKnows
<1>2. table' = table
  <2>1. ~FirstStored /\ ~Swapped
    BY <1>1 DEF FirstStored, Swapped
  <2> QED
    BY <1>0, <2>1, MapTableSteps DEF Marked
<1>3. CASE u # t
  BY <1>0, <1>2, <1>3, OthersHere DEF Same
<1>4. CASE u = t
  <2>1. ~Operation(t) /\ ~\E c : Begin(t, c)
    BY <1>1, <1>4, Idle
  <2>2. ~Routine(t)
    BY <1>1, <1>4, RoutineLeaves
  <2>3. ~TransferBinMoved(t) /\ ~TransferEmptyBin(t)
    BY <1>1, <1>4 DEF TransferBinMoved, TransferSkipMoved, TransferEmptyBin, BinAt
  <2>4. ~TransferSplit(t)
    BY <1>4, SplitLeaves DEF Planning, NoPlan
  <2>5. ~TransferListBin(t)
    <3>1. ASSUME TransferListBin(t) PROVE FALSE
      <4>1. plan' = Set(plan, t, NoPlan) /\ t \in DOMAIN plan
        BY <3>1, BetweenParts DEF TransferListBin
      <4>2. plan'[t].stage = "none"
        BY <4>1 DEF Set, NoPlan
      <4> QED
        BY <1>4, <4>2 DEF Planning
    <3> QED
      BY <3>1
  <2>6. TransferBinForward(t) \/ TransferStoreLow(t) \/ TransferStoreHigh(t)
    BY <1>0, <2>1, <2>2, <2>3, <2>4, <2>5 DEF AnyStep, MapStep, Transfer
  <2>7. idx' = idx
    BY <2>6 DEF TransferBinForward, TransferForward, TransferStoreLow, TransferStoreHigh
  <2> QED
    BY <1>2, <2>7
<1> QED
  BY <1>3, <1>4

(* Where a planner will store *)
LEMMA PlannerPlaces ==
    ASSUME MapInv, NEW u \in Threads, Planning(u)
    PROVE  /\ table \in Caps /\ 2 * table \in Caps /\ table \in Nat /\ idx[u] \in 0..(table - 1)
           /\ idx[u] \in 0..(2 * table - 1) /\ idx[u] + table \in 0..(2 * table - 1)
           /\ idx[u] # idx[u] + table /\ tab[u] = table /\ nt[u] = 2 * table
           /\ ~Live(2 * table, idx[u]) /\ ~Live(2 * table, idx[u] + table)
<1>0. MapTyped /\ IInv /\ CInv /\ Lists /\ Marks
  BY InvParts
<1>1. /\ table \in Caps /\ 2 * table \in Caps /\ table \in Nat /\ idx[u] \in 0..(table - 1)
      /\ tab[u] = table /\ nt[u] = 2 * table /\ idx[u] \notin moved[table]
  BY <1>0, PlannerKnows
<1>2. /\ idx[u] \in 0..(2 * table - 1) /\ idx[u] + table \in 0..(2 * table - 1)
      /\ idx[u] # idx[u] + table
  BY <1>1, Places
<1>3. ~Live(2 * table, idx[u]) /\ ~Live(2 * table, idx[u] + table)
  BY <1>0, <1>1, NotYetLive
<1> QED
  BY <1>1, <1>2, <1>3

(* The store is not to a bin of a planner's, or is of nothing. *)
LEMMA UnstoredOver ==
    ASSUME NEW t \in Threads, Between(t), NEW u \in Threads, plan'[u] = plan[u],
           NEW n, NEW i, NEW v, BinsOver(n, i, v),
           v = 0 \/ Live(n, i) \/ (Planning(u) => i \notin {idx[u], idx[u] + table})
    PROVE  Unstored(u)'
<1>1. CASE ~Planning(u)
  BY <1>1 DEF Unstored, Planning
<1>2. CASE Planning(u)
  <2>0. MapInv /\ Unstored(u)
    BY BetweenParts DEF Between
  <2>1. table' = table /\ idx'[u] = idx[u]
    BY <1>2, PlannerStays
  <2>2. /\ table \in Caps /\ 2 * table \in Caps
        /\ idx[u] \in 0..(2 * table - 1) /\ idx[u] + table \in 0..(2 * table - 1)
        /\ ~Live(2 * table, idx[u]) /\ ~Live(2 * table, idx[u] + table)
    BY <1>2, <2>0, PlannerPlaces
  <2>3. ASSUME NEW j \in {idx[u], idx[u] + table}, bins[2 * table][j] = 0
        PROVE  bins'[2 * table][j] = 0
    <3>1. j \in 0..(2 * table - 1)
      BY <2>2
    <3>2. bins'[2 * table][j] = bins[2 * table][j] \/ (2 * table = n /\ j = i /\ bins'[2 * table][j] = v)
      BY <2>2, <3>1 DEF BinsOver
    <3> QED
      BY <1>2, <2>2, <2>3, <3>2
  <2> QED
    BY <2>0, <2>1, <2>3 DEF Unstored
<1> QED
  BY <1>1, <1>2

(* No bin is stored over. *)
LEMMA UnstoredStill ==
    ASSUME NEW t \in Threads, Between(t), NEW u \in Threads, plan'[u] = plan[u], bins' = bins
    PROVE  Unstored(u)'
<1> DEFINE z == 0
<1>1. HeapTyped
  BY BetweenParts, InvParts
<1>2. BinsOver(z, z, z)
  BY <1>1 DEF HeapTyped, BinsOver
<1> QED
  BY <1>2, UnstoredOver

LEMMA UpdateUnstored ==
    ASSUME NEW t \in Threads, Between(t), NEW u \in Threads,
           PutCas(t) \/ RemoveLocked(t) \/ ComputeLocked(t) \/ ClearLocked(t)
    PROVE  Unstored(u)'
<1> DEFINE n == tab[t]
           i == Bini(Key(t), tab[t])
<1>0. MapInv /\ MapTyped /\ IInv /\ HeapTyped
  BY BetweenParts, InvParts
<1>1. CASE PutCas(t)
  <2>1. CASE ThisBin(t) = 0 /\ ~ThisBinMoved(t)
    <3>1. Rewrites(Key(t), call[t].val, tab[t], Bini(Key(t), tab[t]))
      BY <1>0, <1>1, <2>1, PutCasWrites
    <3>2. plan' = plan /\ Live(n, i) /\ BinsOver(n, i, bins'[n][i])
      BY <3>1 DEF Rewrites
    <3> HIDE DEF n, i
    <3> QED
      BY <3>2, UnstoredOver
  <2>2. CASE ~(ThisBin(t) = 0 /\ ~ThisBinMoved(t))
    BY <1>1, <2>2, UnstoredStill DEF PutCas
  <2> QED
    BY <2>1, <2>2
<1>2. CASE RemoveLocked(t) \/ ComputeLocked(t)
  <2>1. /\ plan' = plan /\ CanLock(t) /\ ~HeadChanged(t)
        /\ \/ bins' = bins
           \/ \E v \in 0..Len(node) : BinSet(n, i, v)
    BY <1>0, <1>2, CutsDoes
  <2>2. Live(n, i)
    BY <1>0, <2>1, LockedAt
  <2> HIDE DEF n, i
  <2>3. ASSUME NEW v, BinSet(n, i, v) PROVE Unstored(u)'
    <3>1. BinsOver(n, i, v)
      BY <1>0, <2>3, BinSetOver
    <3> QED
      BY <2>1, <2>2, <3>1, UnstoredOver
  <2> QED
    BY <2>1, <2>3, UnstoredStill
<1>3. CASE ClearLocked(t)
  <2> DEFINE j == walk[t].at.index
             z == 0
  <2>1. plan' = plan /\ (bins' = bins \/ BinSet(n, j, z))
    BY <1>3 DEF ClearLocked, BinSet
  <2>2. z = 0
    OBVIOUS
  <2> HIDE DEF n, j, z
  <2>3. BinsOver(n, j, z)
    BY <1>0, <2>1, BinSetOver
  <2> QED
    BY <2>1, <2>2, <2>3, UnstoredOver
<1> QED
  BY <1>1, <1>2, <1>3

(* A list is stored: the bins of the other planners are not where it goes. *)
LEMMA StoresUnstored ==
    ASSUME NEW t \in Threads, Between(t), NEW u \in Threads,
           TransferStoreLow(t) \/ TransferStoreHigh(t)
    PROVE  Unstored(u)'
<1>0. MapInv /\ HeapTyped /\ plan \in [Threads -> Plans] /\ Unstored(t)
  <2>1. MapInv /\ HeapTyped /\ Unstored(t)
    BY BetweenParts, InvParts DEF Between
  <2> QED
    BY <2>1 DEF HeapTyped
<1>1. Planning(t) /\ UNCHANGED resizeVars
  BY DEF Planning, TransferStoreLow, TransferStoreHigh
<1>2. /\ table \in Caps /\ 2 * table \in Caps /\ table \in Nat /\ idx[t] \in 0..(table - 1)
      /\ idx[t] \in 0..(2 * table - 1) /\ idx[t] + table \in 0..(2 * table - 1)
      /\ idx[t] # idx[t] + table /\ tab[t] = table /\ nt[t] = 2 * table
  BY <1>0, <1>1, PlannerPlaces
<1>3. \E s \in {"high", "moved"} : plan' = [plan EXCEPT ![t].stage = s]
  BY DEF TransferStoreLow, TransferStoreHigh
<1>4. PICK s \in {"high", "moved"} : plan' = [plan EXCEPT ![t].stage = s]
  BY <1>3
<1>5. plan'[t].stage = s /\ \A w \in Threads : w # t => plan'[w] = plan[w]
  <2>1. s \in {"none", "low", "high", "moved"}
    BY <1>4
  <2> QED
    BY <1>0, <1>4, <2>1, StageStored
<1>6. \E j \in {idx[t], idx[t] + table} : \E v : BinSet(2 * table, j, v)
  BY <1>2 DEF TransferStoreLow, TransferStoreHigh, BinSet
<1>7. PICK j \in {idx[t], idx[t] + table} : \E v : BinSet(2 * table, j, v)
  BY <1>6
<1>8. PICK v : BinSet(2 * table, j, v)
  BY <1>7
<1>9. CASE u # t
  <2>1. BinsOver(2 * table, j, v)
    BY <1>0, <1>8, BinSetOver
  <2>2. Planning(u) => j \notin {idx[u], idx[u] + table}
    <3>1. ASSUME Planning(u) PROVE idx[u] \in 0..(table - 1) /\ idx[u] # idx[t]
      BY <1>0, <1>1, <1>9, <3>1, PlannerPlaces, PlannersApart
    <3> QED
      BY <1>2, <1>7, <3>1
  <2>3. plan'[u] = plan[u]
    BY <1>5, <1>9
  <2> QED
    BY <2>1, <2>2, <2>3, UnstoredOver
<1>10. CASE u = t /\ TransferStoreHigh(t)
  <2>1. plan'[t].stage = "moved"
    <3>1. plan' = [plan EXCEPT ![t].stage = "moved"]
      BY <1>10 DEF TransferStoreHigh
    <3> QED
      BY <1>0, <3>1, StageStored
  <2> QED
    BY <1>10, <2>1 DEF Unstored
<1>11. CASE u = t /\ TransferStoreLow(t)
  <2>1. plan'[t].stage = "high" /\ plan[t].stage = "low"
    <3>1. plan' = [plan EXCEPT ![t].stage = "high"] /\ plan[t].stage = "low"
      BY <1>11 DEF TransferStoreLow
    <3> QED
      BY <1>0, <3>1, StageStored
  <2>2. bins[2 * table][idx[t] + table] = 0
    BY <1>0, <2>1 DEF Unstored
  <2>3. BinSet(2 * table, idx[t], plan[t].low)
    BY <1>2, <1>11 DEF TransferStoreLow, BinSet
  <2>4. BinsOver(2 * table, idx[t], plan[t].low)
    BY <1>0, <2>3, BinSetOver
  <2>5. bins'[2 * table][idx[t] + table] = bins[2 * table][idx[t] + table]
    BY <1>2, <2>4 DEF BinsOver
  <2> QED
    BY <1>1, <1>11, <2>1, <2>2, <2>5 DEF Unstored
<1> QED
  BY <1>9, <1>10, <1>11

(* A bin of the next table that no planner has given is empty. *)
LEMMA SplitUnstored ==
    ASSUME NEW t \in Threads, Between(t), NEW u \in Threads, TransferSplit(t)
    PROVE  Unstored(u)'
<1>0. MapInv /\ MapTyped /\ IInv /\ CInv /\ Lists /\ Marks /\ DOMAIN plan = Threads
  BY BetweenParts, InvParts
<1>1. /\ pc[t] = "TransferBin" /\ idx[t] \notin moved[tab[t]] /\ BinAt(t) \notin locked
      /\ UNCHANGED <<resizeVars, bins>> /\ \E p : plan' = Set(plan, t, p)
  BY SplitLeaves
<1>2. CASE u # t
  <2>1. plan'[u] = plan[u]
    BY <1>0, <1>1, <1>2 DEF Set
  <2> QED
    BY <1>1, <2>1, UnstoredStill
<1>3. CASE u = t
  <2>1. /\ tab[t] = table /\ table \in Caps /\ 2 * table \in Caps /\ idx[t] \in 0..(table - 1)
        /\ idx[t] \notin moved[table]
    BY <1>0, <1>1, BinOfTable
  <2>2. idx[t] \in 0..(2 * table - 1) /\ idx[t] + table \in 0..(2 * table - 1)
    BY <2>1, Places
  <2>3. ASSUME NEW j \in {idx[t], idx[t] + table} PROVE bins[2 * table][j] = 0
    <3>1. ~Live(2 * table, j) /\ j \in 0..(2 * table - 1)
      BY <1>0, <2>1, <2>2, NotYetLive
    <3>2. ASSUME NEW w \in Threads, Draft(w, 2 * table, j, bins[2 * table][j]) PROVE FALSE
      <4>1. RootOf(2 * table, j, idx[w]) /\ Planning(w)
        BY <1>0, <3>2, DraftKnows DEF Draft
      <4>2. RootOf(2 * table, j, idx[t])
        BY <2>1 DEF RootOf
      <4>3. idx[w] = idx[t]
        BY <4>1, <4>2, RootUnique
      <4>4. bins[table][idx[w]] \in locked
        BY <1>0, <4>1, PlannerKnows
      <4> QED
        BY <1>1, <2>1, <4>3, <4>4 DEF BinAt
    <3> QED
      BY <1>0, <2>1, <3>1, <3>2, NotGiven
  <2> QED
    BY <1>1, <1>3, <2>3 DEF Unstored
<1> QED
  BY <1>2, <1>3

LEMMA ListBinUnstored ==
    ASSUME NEW t \in Threads, Between(t), NEW u \in Threads, TransferListBin(t)
    PROVE  Unstored(u)'
<1>0. HeapTyped /\ DOMAIN plan = Threads
  BY BetweenParts, InvParts
<1>1. plan' = Set(plan, t, NoPlan) /\ BinSet(tab[t], idx[t], 0)
  BY DEF TransferListBin, BinSet
<1>2. CASE u = t
  <2>1. plan'[t] = NoPlan
    BY <1>0, <1>1 DEF Set
  <2> QED
    BY <1>2, <2>1 DEF Unstored, NoPlan
<1>3. CASE u # t
  <2> DEFINE z == 0
             n == tab[t]
             i == idx[t]
  <2>1. plan'[u] = plan[u] /\ z = 0 /\ BinSet(n, i, z)
    BY <1>0, <1>1, <1>3 DEF Set
  <2> HIDE DEF z, n, i
  <2>2. BinsOver(n, i, z)
    BY <1>0, <2>1, BinSetOver
  <2> QED
    BY <2>1, <2>2, UnstoredOver
<1> QED
  BY <1>2, <1>3

LEMMA UnstoredNext ==
    ASSUME NEW t \in Threads, Between(t), NEW u \in Threads
    PROVE  Unstored(u)'
<1>0. AnyStep(t)
  BY BetweenParts
<1>1. CASE Routine(t)
  BY <1>1, UnstoredStill DEF Routine
<1>2. CASE TransferBinMoved(t) \/ TransferBinForward(t) \/ TransferEmptyBin(t)
  BY <1>2, UnstoredStill DEF TransferBinMoved, TransferBinForward, TransferEmptyBin
<1>3. CASE TransferSplit(t) \/ TransferStoreLow(t) \/ TransferStoreHigh(t) \/ TransferListBin(t)
  BY <1>3, SplitUnstored, StoresUnstored, ListBinUnstored
<1>4. CASE \E c : Begin(t, c)
  <2>1. UNCHANGED <<bins, plan>>
    BY <1>4 DEF Begin
  <2> QED
    BY <2>1, UnstoredStill
<1>5. CASE PutCas(t) \/ RemoveLocked(t) \/ ComputeLocked(t) \/ ClearLocked(t)
  BY <1>5, UpdateUnstored
<1>6. CASE \/ OpLoadTable(t) \/ OpNoTable(t) \/ OpMovedBin(t) \/ OpEmptyBin(t) \/ OpListBin(t)
           \/ GetNode(t) \/ LoadValue(t) \/ OpHeadChanged(t) \/ PutLocked(t)
           \/ PutTreeify(t) \/ OpCount(t) \/ End(t)
           \/ WalkBin(t) \/ WalkOn(t) \/ WalkEnd(t) \/ RetainLook(t) \/ RetainGoOn(t)
           \/ ClearBin(t) \/ ClearEnd(t)
  <2>1. UNCHANGED <<bins, plan>>
    BY <1>6 DEF OpLoadTable, OpNoTable, OpMovedBin, OpEmptyBin, OpListBin, GetNode, LoadValue,
       OpHeadChanged, PutLocked, PutTreeify, OpCount, End, WalkBin, WalkOn, WalkEnd, RetainLook,
       RetainGoOn, ClearBin, ClearEnd
  <2> QED
    BY <2>1, UnstoredStill
<1> QED
  BY <1>0, <1>1, <1>2, <1>3, <1>4, <1>5, <1>6 DEF AnyStep, MapStep, Operation, Transfer

-----------------------------------------------------------------------------
(* The count at rest *)

CountInv == LinInv /\ Balance /\ \A u \in Threads : ClearCounts(u) /\ Unstored(u)

LEMMA InitCount == Init2 => CountInv
<1> SUFFICES ASSUME Init2 PROVE CountInv
  OBVIOUS
<1>1. LinInv
  BY InitLin
<1>2. Contents = [k \in Keys |-> None] /\ Doomed = {}
  BY InitLin DEF Abstract!Init
<1>3. /\ count = 0
      /\ \A u \in Threads : opc[u] = "idle" /\ plan[u].stage = "none" /\ walk[u].removed = 0
  BY NoWalkTyped DEF Init2, Init, NoPlan, NoWalk
<1>4. Staying = {}
  BY <1>2 DEF Staying, Present
<1>5. Uncounted = {} /\ Departed = {}
  BY <1>3 DEF Uncounted, Departed, Adding, Gone
<1>6. Balance
  BY <1>3, <1>4, <1>5, FS_EmptySet DEF Balance
<1>7. ASSUME NEW u \in Threads PROVE ClearCounts(u) /\ Unstored(u)
  BY <1>3 DEF ClearCounts, Unstored
<1> QED
  BY <1>1, <1>6, <1>7 DEF CountInv

LEMMA RestCount ==
    ASSUME CountInv, LinInv', UNCHANGED <<resizeVars, heap, opLocals>>
    PROVE  CountInv'
<1>1. Staying' = Staying
  <2>1. MapInv /\ MapInv' /\ PInv /\ SameAddress
    BY DEF CountInv, LinInv, AInv
  <2> QED
    BY <2>1, NothingMeans, SteadyStays
<1>2. \A u : (Adding(u)' <=> Adding(u)) /\ Gone(u)' = Gone(u)
  BY DEF Adding, Gone, Op, Removing
<1>3. Uncounted' = Uncounted /\ Departed' = Departed
  BY <1>2 DEF Uncounted, Departed
<1>4. Balance'
  BY <1>1, <1>3 DEF CountInv, Balance
<1>5. ASSUME NEW u \in Threads PROVE ClearCounts(u)' /\ Unstored(u)'
  BY DEF CountInv, ClearCounts, Unstored
<1> QED
  BY <1>4, <1>5 DEF CountInv

LEMMA StepCount ==
    ASSUME CountInv, LinInv', NEW t \in Threads, AnyStep(t)
    PROVE  CountInv'
<1>1. Between(t) /\ LinInv
  BY DEF Between, CountInv
<1>2. Tallies(t)
  BY <1>1, StepTallies
<1>3. count \in Int /\ count' \in Int
  BY <1>1, CountTyped, CountTypedNext
<1>4. Gone(t) \in Nat /\ Gone(t)' \in Nat
  BY <1>1, GoneTyped, GoneTypedNext
<1>5. \A u \in Threads : u # t => (Adding(u)' <=> Adding(u)) /\ Gone(u)' = Gone(u)
  BY <1>1, OthersWeigh
<1>6. Balance'
  BY <1>1, <1>2, <1>3, <1>4, <1>5, BalanceNext DEF Between, Tallies
<1> QED
  BY <1>1, <1>6, ClearCountsNext, UnstoredNext DEF CountInv

LEMMA NextCount ==
    ASSUME CountInv, [MapNext /\ JoinsMatch]_vars
    PROVE  CountInv'
<1>1. LinInv'
  BY NextLin DEF CountInv
<1>2. CASE UNCHANGED vars
  BY <1>1, <1>2, RestCount DEF vars
<1>3. CASE MapNext
  <2>1. CASE Rest
    BY <1>1, <2>1, RestCount DEF Rest
  <2>2. CASE \E t \in Threads :
                \/ MapStep(t)
                \/ \E c \in (Abstract!Calls \cup {[op |-> "iter"]}) \cap Explored : Begin(t, c)
    <3>1. \E t \in Threads : AnyStep(t)
      BY <2>2 DEF AnyStep
    <3> QED
      BY <1>1, <3>1, StepCount
  <2> QED
    BY <1>3, <2>1, <2>2 DEF MapNext
<1> QED
  BY <1>2, <1>3

LEMMA RestCounted == CountInv => CountAtRest
<1> SUFFICES ASSUME CountInv, \A t \in Threads : At(t, "idle")
             PROVE  count = Cardinality(Present)
  BY DEF CountAtRest, Present
<1>1. \A u \in Threads : opc[u] = "idle" /\ pc[u] = "idle"
  BY DEF At
<1>2. Uncounted = {} /\ Departed = {}
  BY <1>1 DEF Uncounted, Departed, Adding, Gone
<1>3. Doomed = {}
  <2>1. MapInv /\ Lists
    BY InvParts DEF CountInv, LinInv
  <2>2. \A u \in Threads : ~Planning(u)
    BY <1>1, <2>1 DEF Lists, PlanFits
  <2> QED
    BY <2>2 DEF Doomed, Planning
<1>4. Staying = Present
  BY <1>3 DEF Staying
<1>5. /\ IsFiniteSet(Present)
      /\ count + Cardinality(Uncounted) = Cardinality(Present) + Cardinality(Departed)
  BY <1>4 DEF CountInv, Balance
<1>6. count + 0 = Cardinality(Present) + 0
  BY <1>2, <1>5, FS_EmptySet
<1>7. count \in Int /\ Cardinality(Present) \in Int
  BY <1>5, CountTyped, FS_CardinalityType DEF CountInv
<1> QED
  BY <1>6, <1>7

(* With no call in progress, len() is the number of keys present, however the
   puts, removals, clears and resizes before it were interleaved: each is
   counted once, and a clear takes off what it took.  This holds until a thread
   joins a resize late. *)
THEOREM CountAtRestCorrect == MapSpec => [](lateJoin \/ CountAtRest)
<1>1. (lateJoin \/ CountInv) /\ [MapNext]_vars => (lateJoin \/ CountInv)'
  BY NextCount, MapStepsMatch
<1> QED
  BY <1>1, InitCount, RestCounted, PTL DEF MapSpec

=============================================================================
