--------------------------- MODULE CHashMap_proofs ---------------------------
(***************************************************************************)
(* The bins of the map for any threads, keys, hashes, tables and number of *)
(* calls.  First the lists, as sets of nodes that follow one another, and  *)
(* what the stores of the code do to them; then what each step leaves of   *)
(* the types (MapTypeOK); then, until a thread joins a resize with a stamp *)
(* that is not its table's (lateJoin), in which table the entries of a bin *)
(* are, what a thread that transfers has made of it, and that no operation *)
(* in the other threads disturbs it (KeysOnce); last where the entries of  *)
(* a key are to be found.                                                  *)
(***************************************************************************)
EXTENDS CHashMap, ResizeCtl_proofs, SequenceTheorems

(* A heap of nodes: every next node is 0 or allocated *)
Fields(n) == n = [key |-> n.key, val |-> n.val, address |-> n.address, next |-> n.next]

Linked(nd) ==
    /\ \E U : nd \in Seq(U)
    /\ \A j \in 1..Len(nd) :
          /\ Fields(nd[j])
          /\ nd[j].key \in Keys /\ nd[j].val \in Values
          /\ nd[j].next \in 0..Len(nd)

(* No list comes back to a node: the nodes can be numbered so that the numbers
   fall along every list. *)
Falls(nd, r) == \A j \in 1..Len(nd) : nd[j].next # 0 => r[nd[j].next] < r[j]
Ranked(nd) == \E top \in Nat : \E r \in [1..Len(nd) -> 0..top] : Falls(nd, r)

(* The nodes of the list that starts at h: the smallest set with h and, with
   each node, the next *)
Closed(nd, S) == \A j \in S : nd[j].next \in S \cup {0}
Reach(nd, h) ==
    {m \in 1..Len(nd) :
        \A S \in SUBSET (1..Len(nd)) : h \in S \cup {0} /\ Closed(nd, S) => m \in S}

-----------------------------------------------------------------------------
(* Lists *)

LEMMA LinkedIs ==
    ASSUME NEW nd, Linked(nd)
    PROVE  Len(nd) \in Nat /\ DOMAIN nd = 1..Len(nd)
<1>1. PICK U : nd \in Seq(U)
  BY DEF Linked
<1> QED
  BY <1>1, LenProperties

LEMMA ReachLeast ==
    ASSUME NEW nd, NEW h, NEW S \in SUBSET (1..Len(nd)), h \in S \cup {0}, Closed(nd, S)
    PROVE  Reach(nd, h) \subseteq S
  BY DEF Reach

LEMMA ReachIs ==
    ASSUME NEW nd, Linked(nd), NEW h \in 0..Len(nd)
    PROVE  /\ Reach(nd, h) \subseteq 1..Len(nd)
           /\ h # 0 => h \in Reach(nd, h)
           /\ Closed(nd, Reach(nd, h))
<1>1. Reach(nd, h) \subseteq 1..Len(nd)
  BY DEF Reach
<1>2. h # 0 => h \in Reach(nd, h)
  BY LinkedIs DEF Reach
<1>3. ASSUME NEW j \in Reach(nd, h) PROVE nd[j].next \in Reach(nd, h) \cup {0}
  <2>1. j \in 1..Len(nd) /\ nd[j].next \in 0..Len(nd)
    BY <1>1, <1>3 DEF Linked
  <2>2. ASSUME nd[j].next # 0, NEW S \in SUBSET (1..Len(nd)), h \in S \cup {0}, Closed(nd, S)
        PROVE  nd[j].next \in S
    <3>1. j \in S
      BY <1>3, <2>2 DEF Reach
    <3> QED
      BY <2>2, <3>1 DEF Closed
  <2>3. nd[j].next # 0 => nd[j].next \in 1..Len(nd)
    BY <2>1, LinkedIs
  <2> QED
    BY <2>2, <2>3 DEF Reach
<1> QED
  BY <1>1, <1>2, <1>3 DEF Closed

LEMMA ReachNothing ==
    ASSUME NEW nd
    PROVE  Reach(nd, 0) = {}
  BY ReachLeast DEF Closed

LEMMA ReachFrom ==
    ASSUME NEW nd, Linked(nd), NEW h \in 0..Len(nd), NEW m \in Reach(nd, h) \cup {0}
    PROVE  Reach(nd, m) \subseteq Reach(nd, h)
  BY ReachIs, ReachLeast

(* A list is its first node and the list of the next. *)
LEMMA ReachFirst ==
    ASSUME NEW nd, Linked(nd), NEW h \in 1..Len(nd)
    PROVE  /\ nd[h].next \in 0..Len(nd)
           /\ Reach(nd, h) = {h} \cup Reach(nd, nd[h].next)
<1>1. nd[h].next \in 0..Len(nd) /\ h \in 0..Len(nd) /\ h # 0
  BY LinkedIs DEF Linked
<1>2. h \in Reach(nd, h) /\ nd[h].next \in Reach(nd, h) \cup {0}
  BY <1>1, ReachIs DEF Closed
<1>3. Reach(nd, nd[h].next) \subseteq Reach(nd, h)
  BY <1>1, <1>2, ReachFrom
<1> DEFINE S == {h} \cup Reach(nd, nd[h].next)
<1>4. S \subseteq 1..Len(nd) /\ Closed(nd, S)
  BY <1>1, ReachIs DEF Closed
<1>5. Reach(nd, h) \subseteq S
  BY <1>4, ReachLeast
<1> QED
  BY <1>1, <1>2, <1>3, <1>5

(* A set with 0 and with every node whose next node it has is all nodes. *)
LEMMA RankInduction ==
    ASSUME NEW nd, Linked(nd), Ranked(nd), NEW S, 0 \in S,
           \A m \in 1..Len(nd) : nd[m].next \in S => m \in S
    PROVE  \A m \in 0..Len(nd) : m \in S
<1>0. PICK top \in Nat : \E r \in [1..Len(nd) -> 0..top] : Falls(nd, r)
  BY DEF Ranked
<1>1. PICK r \in [1..Len(nd) -> 0..top] : Falls(nd, r)
  BY <1>0
<1> DEFINE Bad == {b \in Nat : \E m \in 1..Len(nd) : m \notin S /\ r[m] = b}
<1>2. Bad = {}
  <2> SUFFICES ASSUME Bad # {} PROVE FALSE
    OBVIOUS
  <2>1. PICK b \in Bad : \A c \in Bad : b <= c
    <3>1. Bad \in SUBSET Nat
      OBVIOUS
    <3> HIDE DEF Bad
    <3> QED
      BY <3>1, LeastNat
  <2>2. PICK m \in 1..Len(nd) : m \notin S /\ r[m] = b
    OBVIOUS
  <2>3. nd[m].next \in 0..Len(nd) /\ nd[m].next \notin S
    BY <2>2 DEF Linked
  <2>4. nd[m].next \in 1..Len(nd) /\ r[nd[m].next] < r[m] /\ r[nd[m].next] \in Nat
    BY <1>1, <2>3, LinkedIs DEF Falls
  <2>5. r[nd[m].next] \in Bad /\ b \in Nat
    BY <2>3, <2>4
  <2> HIDE DEF Bad
  <2> QED
    BY <2>1, <2>2, <2>4, <2>5
<1>3. \A m \in 1..Len(nd) : r[m] \in Nat
  BY <1>1
<1> QED
  BY <1>2, <1>3, LinkedIs

(* The recursion of Chain has a solution, since no list comes back to a node, *)
LEMMA ChainExists ==
    ASSUME NEW nd, Linked(nd), Ranked(nd)
    PROVE  \E f : f = [m \in 0..Len(nd) |-> IF m = 0 THEN <<>> ELSE <<m>> \o f[nd[m].next]]
<1>1. PICK top \in Nat : \E r \in [1..Len(nd) -> 0..top] : Falls(nd, r)
  BY DEF Ranked
<1>2. PICK r \in [1..Len(nd) -> 0..top] : Falls(nd, r)
  BY <1>1
<1>r. ASSUME NEW m \in 1..Len(nd)
      PROVE  /\ r[m] \in Int /\ 0 <= r[m] /\ r[m] <= top /\ m # 0 /\ m \in 0..Len(nd)
             /\ nd[m].next \in 0..Len(nd)
             /\ nd[m].next # 0 => nd[m].next \in 1..Len(nd) /\ r[nd[m].next] < r[m]
  BY <1>2, LinkedIs DEF Linked, Falls
<1>n. \A m \in 0..Len(nd) : m # 0 => m \in 1..Len(nd)
  BY LinkedIs
<1> DEFINE Upto(f, b) == \A m \in 0..Len(nd) : (m # 0 => r[m] < b) => f[m] = IF m = 0 THEN <<>> ELSE <<m>> \o f[nd[m].next]
           Bad == {b \in Nat : ~\E f : Upto(f, b)}
<1>3. Bad = {}
  <2> SUFFICES ASSUME Bad # {} PROVE FALSE
    OBVIOUS
  <2>1. PICK b \in Bad : \A c \in Bad : b <= c
    <3>1. Bad \in SUBSET Nat
      OBVIOUS
    <3> HIDE DEF Bad
    <3> QED
      BY <3>1, LeastNat
  <2>2. b \in Nat /\ ~\E f : Upto(f, b)
    OBVIOUS
  <2>3. \E f : \A m \in 0..Len(nd) : (m # 0 => r[m] < b - 1) => f[m] = IF m = 0 THEN <<>> ELSE <<m>> \o f[nd[m].next]
    <3>1. CASE b = 0
      <4> DEFINE f == [m \in 0..0 |-> <<>>]
      <4>1. \A m \in 0..Len(nd) : (m # 0 => r[m] < b - 1) => m = 0
        <5>1. ASSUME NEW m \in 1..Len(nd) PROVE ~(r[m] < b - 1)
          <6> HIDE DEF Bad, Upto
          <6> QED
            BY <1>r, <3>1
        <5> QED
          BY <1>n, <5>1
      <4>2. f[0] = <<>>
        OBVIOUS
      <4> QED
        BY <4>1, <4>2
    <3>2. CASE b # 0
      <4>1. b - 1 \in Nat /\ ~(b <= b - 1)
        <5> HIDE DEF Bad, Upto
        <5> QED
          BY <2>2, <3>2
      <4>2. b - 1 \notin Bad
        <5> HIDE DEF Bad
        <5> QED
          BY <2>1, <4>1
      <4> QED
        BY <4>1, <4>2
    <3> QED
      BY <3>1, <3>2
  <2>4. PICK f : \A m \in 0..Len(nd) : (m # 0 => r[m] < b - 1) => f[m] = IF m = 0 THEN <<>> ELSE <<m>> \o f[nd[m].next]
    BY <2>3
  <2> DEFINE g == [m \in 0..Len(nd) |-> IF m = 0 THEN <<>> ELSE <<m>> \o f[nd[m].next]]
  <2>5. \A m \in 0..Len(nd) : (m # 0 => r[m] < b - 1) => g[m] = f[m]
    BY <2>4
  <2>6. ASSUME NEW m \in 0..Len(nd), m # 0 => r[m] < b, m # 0
        PROVE  g[nd[m].next] = f[nd[m].next]
    <3>1. m \in 1..Len(nd) /\ nd[m].next \in 0..Len(nd)
      BY <1>r, <1>n, <2>6
    <3>2. nd[m].next # 0 => r[nd[m].next] < r[m] /\ r[nd[m].next] \in Int /\ r[m] \in Int
      BY <1>r, <3>1
    <3>3. nd[m].next # 0 => r[nd[m].next] < b - 1
      <4>1. b \in Int /\ r[m] < b
        BY <2>2, <2>6
      <4> HIDE DEF Bad, Upto, g
      <4> QED
        BY <3>2, <4>1
    <3> QED
      BY <2>5, <3>1, <3>3
  <2>7. Upto(g, b)
    BY <2>6
  <2> QED
    BY <2>2, <2>7
<1>4. PICK f : Upto(f, top + 1)
  <2>1. top + 1 \in Nat /\ top + 1 \notin Bad
    <3> HIDE DEF Bad
    <3> QED
      BY <1>3
  <2> HIDE DEF Upto
  <2> QED
    BY <2>1
<1>5. \A m \in 0..Len(nd) : f[m] = IF m = 0 THEN <<>> ELSE <<m>> \o f[nd[m].next]
  <2>1. \A m \in 0..Len(nd) : m # 0 => r[m] < top + 1
    BY <1>r, <1>n
  <2> QED
    BY <1>4, <2>1
<1> DEFINE g == [m \in 0..Len(nd) |-> IF m = 0 THEN <<>> ELSE <<m>> \o f[nd[m].next]]
<1>6. \A m \in 0..Len(nd) : g[m] = f[m]
  BY <1>5
<1>7. \A m \in 0..Len(nd) : m # 0 => g[nd[m].next] = f[nd[m].next]
  BY <1>r, <1>n, <1>6
<1>8. g = [m \in 0..Len(nd) |-> IF m = 0 THEN <<>> ELSE <<m>> \o g[nd[m].next]]
  BY <1>7
<1> QED
  BY <1>8

(* and so has that of ChainHolding. *)
LEMMA HoldingExists ==
    ASSUME NEW nd, Linked(nd), Ranked(nd), NEW k
    PROVE  \E f : f = [m \in 0..Len(nd) |-> IF m = 0 \/ nd[m].key = k THEN m ELSE f[nd[m].next]]
<1>1. PICK top \in Nat : \E r \in [1..Len(nd) -> 0..top] : Falls(nd, r)
  BY DEF Ranked
<1>2. PICK r \in [1..Len(nd) -> 0..top] : Falls(nd, r)
  BY <1>1
<1>r. ASSUME NEW m \in 1..Len(nd)
      PROVE  /\ r[m] \in Int /\ 0 <= r[m] /\ r[m] <= top /\ m # 0 /\ m \in 0..Len(nd)
             /\ nd[m].next \in 0..Len(nd)
             /\ nd[m].next # 0 => nd[m].next \in 1..Len(nd) /\ r[nd[m].next] < r[m]
  BY <1>2, LinkedIs DEF Linked, Falls
<1>n. \A m \in 0..Len(nd) : m # 0 => m \in 1..Len(nd)
  BY LinkedIs
<1> DEFINE Upto(f, b) == \A m \in 0..Len(nd) : (m # 0 => r[m] < b) => f[m] = IF m = 0 \/ nd[m].key = k THEN m ELSE f[nd[m].next]
           Bad == {b \in Nat : ~\E f : Upto(f, b)}
<1>3. Bad = {}
  <2> SUFFICES ASSUME Bad # {} PROVE FALSE
    OBVIOUS
  <2>1. PICK b \in Bad : \A c \in Bad : b <= c
    <3>1. Bad \in SUBSET Nat
      OBVIOUS
    <3> HIDE DEF Bad
    <3> QED
      BY <3>1, LeastNat
  <2>2. b \in Nat /\ ~\E f : Upto(f, b)
    OBVIOUS
  <2>3. \E f : \A m \in 0..Len(nd) : (m # 0 => r[m] < b - 1) => f[m] = IF m = 0 \/ nd[m].key = k THEN m ELSE f[nd[m].next]
    <3>1. CASE b = 0
      <4> DEFINE f == [m \in 0..0 |-> m]
      <4>1. \A m \in 0..Len(nd) : (m # 0 => r[m] < b - 1) => m = 0
        <5>1. ASSUME NEW m \in 1..Len(nd) PROVE ~(r[m] < b - 1)
          <6> HIDE DEF Bad, Upto
          <6> QED
            BY <1>r, <3>1
        <5> QED
          BY <1>n, <5>1
      <4>2. f[0] = 0
        OBVIOUS
      <4> QED
        BY <4>1, <4>2
    <3>2. CASE b # 0
      <4>1. b - 1 \in Nat /\ ~(b <= b - 1)
        <5> HIDE DEF Bad, Upto
        <5> QED
          BY <2>2, <3>2
      <4>2. b - 1 \notin Bad
        <5> HIDE DEF Bad
        <5> QED
          BY <2>1, <4>1
      <4> QED
        BY <4>1, <4>2
    <3> QED
      BY <3>1, <3>2
  <2>4. PICK f : \A m \in 0..Len(nd) : (m # 0 => r[m] < b - 1) => f[m] = IF m = 0 \/ nd[m].key = k THEN m ELSE f[nd[m].next]
    BY <2>3
  <2> DEFINE g == [m \in 0..Len(nd) |-> IF m = 0 \/ nd[m].key = k THEN m ELSE f[nd[m].next]]
  <2>5. \A m \in 0..Len(nd) : (m # 0 => r[m] < b - 1) => g[m] = f[m]
    BY <2>4
  <2>6. ASSUME NEW m \in 0..Len(nd), m # 0 => r[m] < b, m # 0
        PROVE  g[nd[m].next] = f[nd[m].next]
    <3>1. m \in 1..Len(nd) /\ nd[m].next \in 0..Len(nd)
      BY <1>r, <1>n, <2>6
    <3>2. nd[m].next # 0 => r[nd[m].next] < r[m] /\ r[nd[m].next] \in Int /\ r[m] \in Int
      BY <1>r, <3>1
    <3>3. nd[m].next # 0 => r[nd[m].next] < b - 1
      <4>1. b \in Int /\ r[m] < b
        BY <2>2, <2>6
      <4> HIDE DEF Bad, Upto, g
      <4> QED
        BY <3>2, <4>1
    <3> QED
      BY <2>5, <3>1, <3>3
  <2>7. Upto(g, b)
    BY <2>6
  <2> QED
    BY <2>2, <2>7
<1>4. PICK f : Upto(f, top + 1)
  <2>1. top + 1 \in Nat /\ top + 1 \notin Bad
    <3> HIDE DEF Bad
    <3> QED
      BY <1>3
  <2> HIDE DEF Upto
  <2> QED
    BY <2>1
<1>5. \A m \in 0..Len(nd) : f[m] = IF m = 0 \/ nd[m].key = k THEN m ELSE f[nd[m].next]
  <2>1. \A m \in 0..Len(nd) : m # 0 => r[m] < top + 1
    BY <1>r, <1>n
  <2> QED
    BY <1>4, <2>1
<1> DEFINE g == [m \in 0..Len(nd) |-> IF m = 0 \/ nd[m].key = k THEN m ELSE f[nd[m].next]]
<1>6. \A m \in 0..Len(nd) : g[m] = f[m]
  BY <1>5
<1>7. \A m \in 0..Len(nd) : m # 0 => g[nd[m].next] = f[nd[m].next]
  BY <1>r, <1>n, <1>6
<1>8. g = [m \in 0..Len(nd) |-> IF m = 0 \/ nd[m].key = k THEN m ELSE g[nd[m].next]]
  BY <1>7
<1> QED
  BY <1>8

(* A node is not in the list behind it. *)
LEMMA NotAgain ==
    ASSUME NEW nd, Linked(nd), Ranked(nd), NEW m \in 1..Len(nd)
    PROVE  m \notin Reach(nd, nd[m].next)
<1>1. PICK top \in Nat : \E r \in [1..Len(nd) -> 0..top] : Falls(nd, r)
  BY DEF Ranked
<1>2. PICK r \in [1..Len(nd) -> 0..top] : Falls(nd, r)
  BY <1>1
<1> DEFINE S == {x \in 1..Len(nd) : r[x] < r[m]}
<1>3. ASSUME NEW x \in S \cup {m} PROVE nd[x].next \in S \cup {0}
  <2>1. x \in 1..Len(nd) /\ nd[x].next \in 0..Len(nd)
    BY <1>3 DEF Linked
  <2>2. nd[x].next # 0 => nd[x].next \in 1..Len(nd) /\ r[nd[x].next] < r[x]
    BY <1>2, <2>1, LinkedIs DEF Falls
  <2>3. \A y \in 1..Len(nd) : r[y] \in Int
    BY <1>2
  <2> QED
    BY <1>3, <2>1, <2>2, <2>3
<1>4. Reach(nd, nd[m].next) \subseteq S
  <2>1. S \in SUBSET (1..Len(nd)) /\ Closed(nd, S) /\ nd[m].next \in S \cup {0}
    BY <1>3 DEF Closed
  <2> HIDE DEF S
  <2> QED
    BY <2>1, ReachLeast
<1>5. m \notin S
  BY <1>2
<1> QED
  BY <1>4, <1>5

LEMMA ChainIs ==
    ASSUME Linked(node), Ranked(node)
    PROVE  /\ Chain(0) = <<>>
           /\ \A h \in 1..Len(node) : Chain(h) = <<h>> \o Chain(node[h].next)
<1> DEFINE f == CHOOSE f : f = [m \in 0..Len(node) |->
                                   IF m = 0 THEN <<>> ELSE <<m>> \o f[node[m].next]]
<1>1. f = [m \in 0..Len(node) |-> IF m = 0 THEN <<>> ELSE <<m>> \o f[node[m].next]]
  BY ChainExists
<1>2. \A h : Chain(h) = f[h]
  BY DEF Chain
<1> HIDE DEF f
<1>3. 0 \in 0..Len(node) /\ \A h \in 1..Len(node) : h \in 0..Len(node) /\ h # 0
  BY LinkedIs
<1>4. f[0] = <<>> /\ \A h \in 1..Len(node) : f[h] = <<h>> \o f[node[h].next]
  BY <1>1, <1>3
<1> QED
  BY <1>2, <1>4

LEMMA HoldingIs ==
    ASSUME Linked(node), Ranked(node), NEW k
    PROVE  /\ ChainHolding(k, 0) = 0
           /\ \A h \in 1..Len(node) :
                 ChainHolding(k, h) = IF node[h].key = k THEN h
                                      ELSE ChainHolding(k, node[h].next)
<1> DEFINE f == CHOOSE f : f = [m \in 0..Len(node) |->
                                   IF m = 0 \/ node[m].key = k THEN m ELSE f[node[m].next]]
<1>1. f = [m \in 0..Len(node) |-> IF m = 0 \/ node[m].key = k THEN m ELSE f[node[m].next]]
  <2>1. \E g : g = [m \in 0..Len(node) |->
                       IF m = 0 \/ node[m].key = k THEN m ELSE g[node[m].next]]
    BY HoldingExists
  <2> QED
    BY <2>1
<1>2. \A h : ChainHolding(k, h) = f[h]
  BY DEF ChainHolding
<1> HIDE DEF f
<1>3. 0 \in 0..Len(node) /\ \A h \in 1..Len(node) : h \in 0..Len(node) /\ h # 0
  BY LinkedIs
<1>4. /\ f[0] = 0
      /\ \A h \in 1..Len(node) : f[h] = IF node[h].key = k THEN h ELSE f[node[h].next]
  BY <1>1, <1>3
<1> QED
  BY <1>2, <1>4

(* What a walk down a list meets: its nodes, each once, in their order *)
Walks(nd, h, s) ==
    /\ s \in Seq(1..Len(nd))
    /\ h = 0 => s = <<>>
    /\ h # 0 => /\ Len(s) > 0 /\ s[1] = h
                /\ nd[s[Len(s)]].next = 0
    /\ \A j \in 1..(Len(s) - 1) : nd[s[j]].next = s[j + 1]
    /\ \A m \in 1..Len(nd) : m \in Reach(nd, h) <=> \E j \in 1..Len(s) : s[j] = m
    /\ \A i, j \in 1..Len(s) : s[i] = s[j] => i = j

LEMMA ChainWalks ==
    ASSUME Linked(node), Ranked(node), NEW h \in 0..Len(node)
    PROVE  Walks(node, h, Chain(h))
<1> DEFINE S == {m \in 0..Len(node) : Walks(node, m, Chain(m))}
<1>1. 0 \in S
  <2>1. Chain(0) = <<>> /\ Reach(node, 0) = {} /\ 0 \in 0..Len(node)
    BY ChainIs, ReachNothing, LinkedIs
  <2>2. <<>> \in Seq(1..Len(node)) /\ Len(<<>>) = 0
    BY EmptySeq
  <2>3. 1..Len(<<>>) = {} /\ 1..(Len(<<>>) - 1) = {}
    BY <2>2
  <2>4. Walks(node, 0, <<>>)
    BY <2>1, <2>2, <2>3 DEF Walks
  <2> QED
    BY <2>1, <2>4
<1>2. ASSUME NEW m \in 1..Len(node), node[m].next \in S PROVE m \in S
  <2> DEFINE n == node[m].next
             s == Chain(n)
             t == Chain(m)
  <2>1. Walks(node, n, s)
    BY <1>2
  <2>2. /\ t = <<m>> \o s
        /\ Reach(node, m) = {m} \cup Reach(node, n)
        /\ m \notin Reach(node, n) /\ m # 0 /\ m \in 0..Len(node) /\ n \in 0..Len(node)
    BY ChainIs, ReachFirst, NotAgain, LinkedIs
  <2> HIDE DEF n, s, t
  <2>3. s \in Seq(1..Len(node)) /\ Len(s) \in Nat
    BY <2>1, LenProperties DEF Walks
  <2>4. <<m>> \in Seq(1..Len(node)) /\ Len(<<m>>) = 1
    OBVIOUS
  <2>5. /\ t \in Seq(1..Len(node)) /\ Len(t) = 1 + Len(s)
        /\ \A j \in 1..(1 + Len(s)) : t[j] = IF j <= 1 THEN <<m>>[j] ELSE s[j - 1]
    BY <2>2, <2>3, <2>4, ConcatProperties
  <2>6. t[1] = m /\ \A j \in 2..(1 + Len(s)) : j - 1 \in 1..Len(s) /\ t[j] = s[j - 1]
    BY <2>3, <2>5
  <2>7. ASSUME NEW x \in 1..Len(node)
        PROVE  x \in Reach(node, m) <=> \E j \in 1..Len(t) : t[j] = x
    <3>1. ASSUME x \in Reach(node, m) PROVE \E j \in 1..Len(t) : t[j] = x
      <4>1. CASE x = m
        BY <2>3, <2>5, <2>6, <4>1
      <4>2. CASE x \in Reach(node, n)
        <5>1. PICK j \in 1..Len(s) : s[j] = x
          BY <2>1, <4>2 DEF Walks
        <5>2. j + 1 \in 2..(1 + Len(s)) /\ j + 1 \in 1..Len(t) /\ (j + 1) - 1 = j
          BY <2>3, <2>5
        <5> QED
          BY <2>6, <5>1, <5>2
      <4> QED
        BY <2>2, <3>1, <4>1, <4>2
    <3>2. ASSUME NEW j \in 1..Len(t), t[j] = x PROVE x \in Reach(node, m)
      <4>1. CASE j = 1
        BY <2>2, <2>6, <3>2, <4>1
      <4>2. CASE j # 1
        <5>1. j \in 2..(1 + Len(s))
          BY <2>3, <2>5, <4>2
        <5> QED
          BY <2>1, <2>2, <2>6, <3>2, <5>1 DEF Walks
      <4> QED
        BY <4>1, <4>2
    <3> QED
      BY <3>1, <3>2
  <2>8. ASSUME NEW i \in 1..Len(t), NEW j \in 1..Len(t), t[i] = t[j] PROVE i = j
    <3>1. \A a \in 1..Len(t) : a = 1 \/ a \in 2..(1 + Len(s))
      BY <2>3, <2>5
    <3>2. \A a \in 2..(1 + Len(s)) : t[a] # m
      <4> SUFFICES ASSUME NEW a \in 2..(1 + Len(s)) PROVE t[a] # m
        OBVIOUS
      <4>1. a - 1 \in 1..Len(s) /\ t[a] = s[a - 1] /\ s[a - 1] \in 1..Len(node)
        BY <2>3, <2>6, ElementOfSeq
      <4>2. t[a] \in Reach(node, n)
        BY <2>1, <4>1 DEF Walks
      <4> QED
        BY <2>2, <4>2
    <3>3. CASE i # 1 /\ j # 1
      <4>1. i - 1 \in 1..Len(s) /\ j - 1 \in 1..Len(s) /\ s[i - 1] = s[j - 1]
        BY <2>6, <2>8, <3>1, <3>3
      <4>2. i - 1 = j - 1
        BY <2>1, <4>1 DEF Walks
      <4> QED
        BY <4>2
    <3> QED
      BY <2>6, <2>8, <3>1, <3>2, <3>3
  <2>9. ASSUME NEW j \in 1..(Len(t) - 1) PROVE node[t[j]].next = t[j + 1]
    <3>1. Len(s) > 0 /\ j + 1 \in 2..(1 + Len(s)) /\ t[j + 1] = s[j] /\ j \in 1..Len(s)
      BY <2>3, <2>5, <2>6
    <3>2. n # 0 /\ s[1] = n
      <4>1. n = 0 => Len(s) = 0
        BY <2>1, EmptySeq DEF Walks
      <4> QED
        BY <2>1, <3>1, <4>1 DEF Walks
    <3>3. CASE j = 1
      BY <2>6, <3>1, <3>2, <3>3 DEF n
    <3>4. CASE j # 1
      <4>1. j \in 2..(1 + Len(s)) /\ j - 1 \in 1..(Len(s) - 1) /\ (j - 1) + 1 = j
        BY <2>3, <3>1, <3>4
      <4>2. t[j] = s[j - 1] /\ node[s[j - 1]].next = s[(j - 1) + 1]
        BY <2>1, <2>6, <4>1 DEF Walks
      <4> QED
        BY <3>1, <4>1, <4>2
    <3> QED
      BY <3>3, <3>4
  <2>10. node[t[Len(t)]].next = 0
    <3>1. CASE n = 0
      <4>1. Len(s) = 0
        BY <2>1, <3>1, EmptySeq DEF Walks
      <4> QED
        BY <2>5, <2>6, <3>1, <4>1 DEF n
    <3>2. CASE n # 0
      <4>1. Len(t) \in 2..(1 + Len(s)) /\ Len(t) - 1 = Len(s)
        BY <2>1, <2>3, <2>5, <3>2 DEF Walks
      <4> QED
        BY <2>1, <2>6, <3>2, <4>1 DEF Walks
    <3> QED
      BY <3>1, <3>2
  <2>11. Walks(node, m, t)
    <3>1. t \in Seq(1..Len(node)) /\ m # 0 /\ Len(t) > 0 /\ t[1] = m
      BY <2>2, <2>3, <2>5, <2>6
    <3> QED
      BY <3>1, <2>7, <2>8, <2>9, <2>10 DEF Walks
  <2> QED
    BY <2>2, <2>11 DEF t
<1>3. \A m \in 0..Len(node) : m \in S
  <2> HIDE DEF S
  <2> QED
    BY <1>1, <1>2, RankInduction
<1> QED
  BY <1>3

(* A search down a list finds the node of the key, or the key is not there. *)
LEMMA HoldingFinds ==
    ASSUME Linked(node), Ranked(node), NEW k, NEW h \in 0..Len(node)
    PROVE  /\ ChainHolding(k, h) \in Reach(node, h) \cup {0}
           /\ ChainHolding(k, h) # 0 => node[ChainHolding(k, h)].key = k
           /\ ChainHolding(k, h) = 0 => \A m \in Reach(node, h) : node[m].key # k
<1> DEFINE P(m) == /\ ChainHolding(k, m) \in Reach(node, m) \cup {0}
                   /\ ChainHolding(k, m) # 0 => node[ChainHolding(k, m)].key = k
                   /\ ChainHolding(k, m) = 0 => \A x \in Reach(node, m) : node[x].key # k
           S == {m \in 0..Len(node) : P(m)}
<1>1. 0 \in S
  BY HoldingIs, ReachNothing, LinkedIs
<1>2. ASSUME NEW m \in 1..Len(node), node[m].next \in S PROVE m \in S
  <2>1. /\ m \in 0..Len(node) /\ m # 0 /\ Reach(node, m) = {m} \cup Reach(node, node[m].next)
        /\ ChainHolding(k, m) = IF node[m].key = k THEN m ELSE ChainHolding(k, node[m].next)
    BY HoldingIs, ReachFirst, LinkedIs
  <2> QED
    BY <1>2, <2>1
<1>3. \A m \in 0..Len(node) : m \in S
  <2> HIDE DEF S
  <2> QED
    BY <1>1, <1>2, RankInduction
<1> QED
  BY <1>3

-----------------------------------------------------------------------------
(* What the stores of an update do to the lists *)

StoresValue(nd, p, v, a, nd2) == nd2 = [nd EXCEPT ![p].val = v, ![p].address = a]
StoresNext(nd, p, x, nd2) == nd2 = [nd EXCEPT ![p].next = x]
StoresNode(nd, k, v, a, nd2) == nd2 = Append(nd, NewNode(k, v, a, 0))
StoresBehind(nd, p, k, v, a, nd2) ==
    nd2 = Append([nd EXCEPT ![p].next = Len(nd) + 1], NewNode(k, v, a, 0))

LEMMA Replaced ==
    ASSUME NEW U, NEW s \in Seq(U), NEW i \in 1..Len(s), NEW e
    PROVE  /\ [s EXCEPT ![i] = e] \in Seq(U \cup {e})
           /\ Len([s EXCEPT ![i] = e]) = Len(s)
           /\ \A j \in 1..Len(s) : [s EXCEPT ![i] = e][j] = IF j = i THEN e ELSE s[j]
<1>1. s \in Seq(U \cup {e})
  BY SeqMonotonic
<1> QED
  BY <1>1, ExceptSeq, LenProperties

LEMMA Lengthened ==
    ASSUME NEW U, NEW s \in Seq(U), NEW e
    PROVE  /\ Append(s, e) \in Seq(U \cup {e})
           /\ Len(s) \in Nat /\ Len(Append(s, e)) = Len(s) + 1
           /\ \A j \in 1..Len(s) : Append(s, e)[j] = s[j]
           /\ Append(s, e)[Len(s) + 1] = e
<1>1. s \in Seq(U \cup {e}) /\ Len(s) \in Nat
  BY SeqMonotonic, LenProperties
<1> QED
  BY <1>1, AppendProperties

(* Another next node changes no other field. *)
LEMMA FieldsKept ==
    ASSUME NEW n, Fields(n), NEW x
    PROVE  [n EXCEPT !.next = x] =
               [key |-> n.key, val |-> n.val, address |-> n.address, next |-> x]
<1>1. n = [key |-> n.key, val |-> n.val, address |-> n.address, next |-> n.next]
  BY DEF Fields
<1> QED
  BY <1>1

(* A new value *)
LEMMA ValueStored ==
    ASSUME NEW nd, Linked(nd), NEW p \in 1..Len(nd), NEW v \in Values, NEW a, NEW nd2,
           StoresValue(nd, p, v, a, nd2)
    PROVE  /\ Linked(nd2) /\ Len(nd2) = Len(nd)
           /\ \A j \in 1..Len(nd) :
                 /\ nd2[j].key = nd[j].key /\ nd2[j].next = nd[j].next
                 /\ nd2[j].val = IF j = p THEN v ELSE nd[j].val
                 /\ nd2[j].address = IF j = p THEN a ELSE nd[j].address
<1> DEFINE e == [nd[p] EXCEPT !.val = v, !.address = a]
<1>1. PICK U : nd \in Seq(U)
  BY DEF Linked
<1>2. nd2 = [nd EXCEPT ![p] = e]
  BY <1>1, LenProperties DEF StoresValue
<1>3. Fields(e) /\ e.key = nd[p].key /\ e.next = nd[p].next /\ e.val = v /\ e.address = a
  <2>1. e = [key |-> nd[p].key, val |-> v, address |-> a, next |-> nd[p].next]
    <3> DEFINE n == nd[p]
               m == [n EXCEPT !.val = v]
    <3>1. n = [key |-> n.key, val |-> n.val, address |-> n.address, next |-> n.next]
      BY DEF Linked, Fields
    <3>2. e = [m EXCEPT !.address = a]
      OBVIOUS
    <3> HIDE DEF n
    <3>3. m = [key |-> n.key, val |-> v, address |-> n.address, next |-> n.next]
      BY <3>1
    <3> HIDE DEF m, e
    <3>4. e = [key |-> n.key, val |-> v, address |-> a, next |-> n.next]
      BY <3>2, <3>3
    <3> QED
      BY <3>4 DEF n
  <2> HIDE DEF e
  <2> QED
    BY <2>1 DEF Fields
<1> HIDE DEF e
<1>4. /\ nd2 \in Seq(U \cup {e}) /\ Len(nd2) = Len(nd)
      /\ \A j \in 1..Len(nd) : nd2[j] = IF j = p THEN e ELSE nd[j]
  BY <1>1, <1>2, Replaced
<1> QED
  BY <1>3, <1>4 DEF Linked

(* A new next node *)
LEMMA NextStored ==
    ASSUME NEW nd, Linked(nd), NEW p \in 1..Len(nd), NEW x \in 0..Len(nd), NEW nd2,
           StoresNext(nd, p, x, nd2)
    PROVE  /\ Linked(nd2) /\ Len(nd2) = Len(nd)
           /\ \A j \in 1..Len(nd) : /\ nd2[j].key = nd[j].key /\ nd2[j].val = nd[j].val
                                    /\ nd2[j].address = nd[j].address
                                    /\ nd2[j].next = IF j = p THEN x ELSE nd[j].next
<1> DEFINE e == [nd[p] EXCEPT !.next = x]
<1>1. PICK U : nd \in Seq(U)
  BY DEF Linked
<1>2. nd2 = [nd EXCEPT ![p] = e]
  BY <1>1, LenProperties DEF StoresNext
<1>3. Fields(e) /\ e.key = nd[p].key /\ e.next = x /\ e.val = nd[p].val /\ e.address = nd[p].address
  <2>1. e = [key |-> nd[p].key, val |-> nd[p].val, address |-> nd[p].address, next |-> x]
    BY FieldsKept DEF Linked
  <2> HIDE DEF e
  <2> QED
    BY <2>1 DEF Fields
<1> HIDE DEF e
<1>4. /\ nd2 \in Seq(U \cup {e}) /\ Len(nd2) = Len(nd)
      /\ \A j \in 1..Len(nd) : nd2[j] = IF j = p THEN e ELSE nd[j]
  BY <1>1, <1>2, Replaced
<1> QED
  BY <1>3, <1>4 DEF Linked

(* A new node that nothing points at *)
LEMMA NodeStored ==
    ASSUME NEW nd, Linked(nd), NEW k \in Keys, NEW v \in Values, NEW a, NEW nd2,
           StoresNode(nd, k, v, a, nd2)
    PROVE  /\ Linked(nd2) /\ Len(nd2) = Len(nd) + 1
           /\ nd2[Len(nd) + 1].key = k /\ nd2[Len(nd) + 1].next = 0
           /\ nd2[Len(nd) + 1].val = v /\ nd2[Len(nd) + 1].address = a
           /\ \A j \in 1..Len(nd) : nd2[j] = nd[j]
<1> DEFINE e == NewNode(k, v, a, 0)
<1>1. PICK U : nd \in Seq(U)
  BY DEF Linked
<1>3. Fields(e) /\ e.key = k /\ e.next = 0 /\ e.val = v /\ e.address = a
  BY DEF Fields, NewNode
<1> HIDE DEF e
<1>4. /\ nd2 \in Seq(U \cup {e}) /\ Len(nd2) = Len(nd) + 1 /\ Len(nd) \in Nat
      /\ \A j \in 1..Len(nd) : nd2[j] = nd[j]
      /\ nd2[Len(nd) + 1] = e
  <2>1. nd2 = Append(nd, e)
    BY DEF StoresNode, e
  <2> QED
    BY <1>1, <2>1, Lengthened
<1>5. \A j \in 1..Len(nd2) : j \in 1..Len(nd) \/ j = Len(nd) + 1
  BY <1>4
<1>6. 0..Len(nd) \subseteq 0..Len(nd2) /\ 0 \in 0..Len(nd2)
  BY <1>4
<1> QED
  BY <1>3, <1>4, <1>5, <1>6 DEF Linked

(* A new node at the end of a list *)
LEMMA NodeLinked ==
    ASSUME NEW nd, Linked(nd), NEW p \in 1..Len(nd), NEW k \in Keys, NEW v \in Values, NEW a,
           NEW nd2, StoresBehind(nd, p, k, v, a, nd2)
    PROVE  /\ Linked(nd2) /\ Len(nd2) = Len(nd) + 1
           /\ nd2[Len(nd) + 1].key = k /\ nd2[Len(nd) + 1].next = 0
           /\ nd2[Len(nd) + 1].val = v /\ nd2[Len(nd) + 1].address = a
           /\ \A j \in 1..Len(nd) :
                 /\ nd2[j].key = nd[j].key /\ nd2[j].val = nd[j].val
                 /\ nd2[j].address = nd[j].address
                 /\ nd2[j].next = IF j = p THEN Len(nd) + 1 ELSE nd[j].next
<1> DEFINE d == [nd[p] EXCEPT !.next = Len(nd) + 1]
           e == NewNode(k, v, a, 0)
           mid == [nd EXCEPT ![p].next = Len(nd) + 1]
<1>1. PICK U : nd \in Seq(U)
  BY DEF Linked
<1>2. mid = [nd EXCEPT ![p] = d]
  BY <1>1, LenProperties
<1>3. Fields(e) /\ e.key = k /\ e.next = 0 /\ e.val = v /\ e.address = a
  BY DEF Fields, NewNode
<1>4. Fields(d) /\ d.key = nd[p].key /\ d.next = Len(nd) + 1 /\ d.val = nd[p].val
      /\ d.address = nd[p].address
  <2>1. d = [key |-> nd[p].key, val |-> nd[p].val, address |-> nd[p].address, next |-> Len(nd) + 1]
    BY FieldsKept DEF Linked
  <2> HIDE DEF d
  <2> QED
    BY <2>1 DEF Fields
<1>5. nd2 = Append(mid, e)
  BY DEF StoresBehind
<1> HIDE DEF d, e, mid
<1>6. /\ mid \in Seq(U \cup {d}) /\ Len(mid) = Len(nd)
      /\ \A j \in 1..Len(nd) : mid[j] = IF j = p THEN d ELSE nd[j]
  BY <1>1, <1>2, Replaced
<1>7. /\ nd2 \in Seq((U \cup {d}) \cup {e}) /\ Len(nd2) = Len(nd) + 1 /\ Len(nd) \in Nat
      /\ \A j \in 1..Len(nd) : nd2[j] = IF j = p THEN d ELSE nd[j]
      /\ nd2[Len(nd) + 1] = e
  <2> DEFINE W == U \cup {d}
  <2>1. mid \in Seq(W)
    BY <1>6
  <2> HIDE DEF W
  <2>2. /\ nd2 \in Seq(W \cup {e}) /\ Len(nd2) = Len(mid) + 1 /\ Len(mid) \in Nat
        /\ \A j \in 1..Len(mid) : nd2[j] = mid[j]
        /\ nd2[Len(mid) + 1] = e
    <3>1. /\ Append(mid, e) \in Seq(W \cup {e}) /\ Len(mid) \in Nat
          /\ Len(Append(mid, e)) = Len(mid) + 1
          /\ \A j \in 1..Len(mid) : Append(mid, e)[j] = mid[j]
          /\ Append(mid, e)[Len(mid) + 1] = e
      BY <2>1, Lengthened
    <3> QED
      BY <1>5, <3>1
  <2> QED
    BY <1>6, <2>2 DEF W
<1>8. \A j \in 1..Len(nd2) : j \in 1..Len(nd) \/ j = Len(nd) + 1
  BY <1>7
<1>9. 0..Len(nd) \subseteq 0..Len(nd2) /\ 0 \in 0..Len(nd2) /\ Len(nd) + 1 \in 0..Len(nd2)
  BY <1>7
<1> QED
  <2>1. ASSUME NEW j \in 1..Len(nd2)
        PROVE  /\ Fields(nd2[j]) /\ nd2[j].key \in Keys /\ nd2[j].val \in Values
               /\ nd2[j].next \in 0..Len(nd2)
    <3>1. CASE j = Len(nd) + 1
      BY <1>3, <1>7, <1>9, <3>1
    <3>2. CASE j = p
      BY <1>4, <1>7, <1>9, <3>2 DEF Linked
    <3>3. CASE j \in 1..Len(nd) /\ j # p
      BY <1>7, <1>9, <3>3 DEF Linked
    <3> QED
      BY <1>8, <3>1, <3>2, <3>3
  <2>2. Linked(nd2)
    BY <1>7, <2>1 DEF Linked
  <2> QED
    BY <1>3, <1>4, <1>7, <2>2

(* Copies of the nodes c[1] to c[n], copy j in front of link[j] *)
Copied(nd, n, c, link, nd2) ==
    nd2 = nd \o [j \in 1..n |-> [nd[c[j]] EXCEPT !.next = link[j]]]

HasCopies(nd, n, c, link, nd2) ==
    /\ Linked(nd2) /\ Len(nd2) = Len(nd) + n
    /\ \A j \in 1..Len(nd) : nd2[j] = nd[j]
    /\ \A j \in 1..n : /\ nd2[Len(nd) + j].key = nd[c[j]].key
                       /\ nd2[Len(nd) + j].val = nd[c[j]].val
                       /\ nd2[Len(nd) + j].address = nd[c[j]].address
                       /\ nd2[Len(nd) + j].next = link[j]

LEMMA NodesCopied ==
    ASSUME NEW nd, Linked(nd), NEW n \in Nat, NEW c \in [1..n -> 1..Len(nd)],
           NEW link \in [1..n -> 0..(Len(nd) + n)], NEW nd2, Copied(nd, n, c, link, nd2)
    PROVE  HasCopies(nd, n, c, link, nd2)
<1> DEFINE copies == [j \in 1..n |-> [nd[c[j]] EXCEPT !.next = link[j]]]
<1>1. PICK U : nd \in Seq(U)
  BY DEF Linked
<1> DEFINE W == U \cup {copies[j] : j \in 1..n}
<1>2. \A j \in 1..n : /\ Fields(copies[j])
                      /\ copies[j].key = nd[c[j]].key /\ copies[j].val = nd[c[j]].val
                      /\ copies[j].address = nd[c[j]].address
                      /\ copies[j].next = link[j]
  <2> SUFFICES ASSUME NEW j \in 1..n
               PROVE  /\ Fields(copies[j])
                      /\ copies[j].key = nd[c[j]].key /\ copies[j].val = nd[c[j]].val
                      /\ copies[j].address = nd[c[j]].address
                      /\ copies[j].next = link[j]
    OBVIOUS
  <2>1. c[j] \in 1..Len(nd) /\ Fields(nd[c[j]])
    BY DEF Linked
  <2>2. copies[j] = [nd[c[j]] EXCEPT !.next = link[j]]
    OBVIOUS
  <2>3. copies[j] = [key |-> nd[c[j]].key, val |-> nd[c[j]].val,
                     address |-> nd[c[j]].address, next |-> link[j]]
    BY <2>1, <2>2, FieldsKept
  <2> HIDE DEF copies
  <2> QED
    BY <2>3 DEF Fields
<1>3. copies \in [1..n -> W] /\ nd2 = nd \o copies
  BY DEF Copied
<1> HIDE DEF copies
<1>4. nd \in Seq(W) /\ copies \in Seq(W) /\ Len(copies) = n /\ Len(nd) \in Nat
  <2>1. copies \in Seq(W)
    <3>1. copies \in [1..n -> W] /\ n \in Nat
      BY <1>3
    <3> HIDE DEF W
    <3>2. copies \in UNION {[1..m -> W] : m \in Nat}
      BY <3>1
    <3> QED
      BY <3>2, SeqDef
  <2>2. Len(copies) = n
    BY <1>3, <2>1, LenProperties
  <2> QED
    BY <1>1, <2>1, <2>2, SeqMonotonic, LenProperties
<1> HIDE DEF W
<1>5. /\ nd2 \in Seq(W) /\ Len(nd2) = Len(nd) + n
      /\ \A j \in 1..(Len(nd) + n) : nd2[j] = IF j <= Len(nd) THEN nd[j] ELSE copies[j - Len(nd)]
  <2>1. /\ nd \o copies \in Seq(W) /\ Len(nd \o copies) = Len(nd) + Len(copies)
        /\ \A j \in 1..(Len(nd) + Len(copies)) :
              (nd \o copies)[j] = IF j <= Len(nd) THEN nd[j] ELSE copies[j - Len(nd)]
    BY <1>4, ConcatProperties
  <2> QED
    BY <1>3, <1>4, <2>1
<1>6. \A j \in 1..Len(nd) : nd2[j] = nd[j]
  BY <1>4, <1>5
<1>7. ASSUME NEW j \in 1..n
      PROVE  nd2[Len(nd) + j] = copies[j]
  <2>1. Len(nd) + j \in 1..(Len(nd) + n) /\ ~(Len(nd) + j <= Len(nd)) /\ (Len(nd) + j) - Len(nd) = j
    BY <1>4
  <2> QED
    BY <1>5, <2>1
<1>8. ASSUME NEW i \in 1..Len(nd2)
      PROVE  i \in 1..Len(nd) \/ \E j \in 1..n : i = Len(nd) + j
  <2>1. i \in 1..Len(nd) \/ (i - Len(nd) \in 1..n /\ i = Len(nd) + (i - Len(nd)))
    BY <1>4, <1>5
  <2> QED
    BY <2>1
<1>9. 0..Len(nd) \subseteq 0..Len(nd2) /\ 0..(Len(nd) + n) = 0..Len(nd2)
  BY <1>4, <1>5
<1>10. ASSUME NEW i \in 1..Len(nd2)
       PROVE  /\ Fields(nd2[i]) /\ nd2[i].key \in Keys /\ nd2[i].val \in Values
              /\ nd2[i].next \in 0..Len(nd2)
  <2>1. CASE i \in 1..Len(nd)
    BY <1>6, <1>9, <2>1 DEF Linked
  <2>2. ASSUME NEW j \in 1..n, i = Len(nd) + j
        PROVE  /\ Fields(nd2[i]) /\ nd2[i].key \in Keys /\ nd2[i].val \in Values
               /\ nd2[i].next \in 0..Len(nd2)
    <3>1. nd2[i] = copies[j] /\ c[j] \in 1..Len(nd) /\ link[j] \in 0..Len(nd2)
      BY <1>7, <1>9, <2>2
    <3>2. nd[c[j]].key \in Keys /\ nd[c[j]].val \in Values
      BY <3>1 DEF Linked
    <3>3. Fields(copies[j]) /\ copies[j].key \in Keys /\ copies[j].val \in Values
      BY <1>2, <3>2
    <3>4. copies[j].next = link[j]
      BY <1>2
    <3> QED
      BY <3>1, <3>3, <3>4
  <2> QED
    BY <1>8, <2>1, <2>2
<1> QED
  BY <1>2, <1>5, <1>6, <1>7, <1>10 DEF Linked, HasCopies

-----------------------------------------------------------------------------
(* What these stores do to the lists: each keeps to the nodes it had, but for
   the one that gets the new node. *)

LEMMA ReachWithin ==
    ASSUME NEW nd, Linked(nd), NEW nd2, Len(nd2) \in Nat, Len(nd) <= Len(nd2),
           NEW h \in 0..Len(nd),
           \A j \in Reach(nd, h) : nd2[j].next \in Reach(nd, h) \cup {0}
    PROVE  Reach(nd2, h) \subseteq Reach(nd, h)
<1>1. Reach(nd, h) \in SUBSET (1..Len(nd2)) /\ h \in Reach(nd, h) \cup {0}
  BY ReachIs, LinkedIs
<1>2. Closed(nd2, Reach(nd, h))
  BY DEF Closed
<1> QED
  BY <1>1, <1>2, ReachLeast

(* A node is left out, or nothing is. *)
LEMMA NodesSkipped ==
    ASSUME NEW nd, Linked(nd), Ranked(nd), NEW nd2, Len(nd2) = Len(nd),
           \A j \in 1..Len(nd) : \/ nd2[j].next = nd[j].next
                                 \/ nd[j].next # 0 /\ nd2[j].next = nd[nd[j].next].next
    PROVE  /\ Ranked(nd2)
           /\ \A h \in 0..Len(nd) : Reach(nd2, h) \subseteq Reach(nd, h)
<1>1. PICK top \in Nat : \E r \in [1..Len(nd) -> 0..top] : Falls(nd, r)
  BY DEF Ranked
<1>2. PICK r \in [1..Len(nd) -> 0..top] : Falls(nd, r)
  BY <1>1
<1>3. \A j \in 1..Len(nd) :
         /\ r[j] \in Int /\ nd[j].next \in 0..Len(nd)
         /\ nd[j].next # 0 => nd[j].next \in 1..Len(nd) /\ r[nd[j].next] < r[j]
  BY <1>2, LinkedIs DEF Linked, Falls
<1>4. ASSUME NEW j \in 1..Len(nd), nd2[j].next # 0 PROVE r[nd2[j].next] < r[j]
  <2>1. CASE nd2[j].next = nd[j].next
    BY <1>3, <1>4, <2>1
  <2>2. CASE nd[j].next # 0 /\ nd2[j].next = nd[nd[j].next].next
    <3>1. nd[j].next \in 1..Len(nd) /\ r[nd[j].next] < r[j] /\ r[j] \in Int
      BY <1>3, <2>2
    <3>2. r[nd2[j].next] < r[nd[j].next] /\ r[nd[j].next] \in Int /\ r[nd2[j].next] \in Int
      BY <1>3, <1>4, <2>2, <3>1
    <3> QED
      BY <3>1, <3>2
  <2> QED
    BY <2>1, <2>2
<1>5. Ranked(nd2)
  BY <1>2, <1>4 DEF Ranked, Falls
<1>6. ASSUME NEW h \in 0..Len(nd) PROVE Reach(nd2, h) \subseteq Reach(nd, h)
  <2>1. Reach(nd, h) \subseteq 1..Len(nd)
    BY ReachIs
  <2>2. ASSUME NEW j \in Reach(nd, h) PROVE nd2[j].next \in Reach(nd, h) \cup {0}
    BY <2>1, ReachIs DEF Closed
  <2> QED
    BY <2>2, ReachWithin, LinkedIs
<1> QED
  BY <1>5, <1>6

(* A new node by itself *)
LEMMA NodeApart ==
    ASSUME NEW nd, Linked(nd), Ranked(nd), NEW nd2, Len(nd2) = Len(nd) + 1,
           nd2[Len(nd) + 1].next = 0,
           \A j \in 1..Len(nd) : nd2[j].next = nd[j].next
    PROVE  /\ Ranked(nd2)
           /\ Reach(nd2, Len(nd) + 1) \subseteq {Len(nd) + 1}
           /\ \A h \in 0..Len(nd) : Reach(nd2, h) \subseteq Reach(nd, h)
<1>1. PICK top \in Nat : \E r \in [1..Len(nd) -> 0..top] : Falls(nd, r)
  BY DEF Ranked
<1>2. PICK r \in [1..Len(nd) -> 0..top] : Falls(nd, r)
  BY <1>1
<1> DEFINE id == Len(nd) + 1
           q == [j \in 1..id |-> IF j = id THEN 0 ELSE r[j]]
<1>3. id \in Nat /\ Len(nd) \in Nat /\ \A j \in 1..id : j = id \/ (j \in 1..Len(nd) /\ j # id)
  BY LinkedIs
<1>4. \A j \in 1..Len(nd) : j \in 1..id /\ j # id /\ nd[j].next \in 0..Len(nd)
  BY <1>3 DEF Linked
<1>5. q \in [1..id -> 0..top]
  BY <1>2, <1>3
<1>6. Falls(nd2, q)
  <2> SUFFICES ASSUME NEW j \in 1..id, nd2[j].next # 0
               PROVE  q[nd2[j].next] < q[j]
    BY DEF Falls
  <2>1. j \in 1..Len(nd) /\ nd2[j].next = nd[j].next /\ nd[j].next # 0
    BY <1>3
  <2>2. nd[j].next \in 1..Len(nd)
    BY <1>4, <2>1, LinkedIs
  <2> QED
    BY <1>2, <1>4, <2>1, <2>2 DEF Falls
<1>7. Ranked(nd2)
  BY <1>5, <1>6 DEF Ranked
<1>8. Reach(nd2, id) \subseteq {id}
  <2>1. {id} \in SUBSET (1..Len(nd2)) /\ Closed(nd2, {id})
    BY <1>3 DEF Closed
  <2> QED
    BY <2>1, ReachLeast
<1>9. ASSUME NEW h \in 0..Len(nd) PROVE Reach(nd2, h) \subseteq Reach(nd, h)
  <2>1. Reach(nd, h) \subseteq 1..Len(nd)
    BY ReachIs
  <2>2. ASSUME NEW j \in Reach(nd, h) PROVE nd2[j].next \in Reach(nd, h) \cup {0}
    BY <2>1, ReachIs DEF Closed
  <2>3. Len(nd2) \in Nat /\ Len(nd) <= Len(nd2)
    <3> HIDE DEF q
    <3> QED
      BY <1>3
  <2> QED
    BY <2>2, <2>3, ReachWithin
<1> QED
  BY <1>7, <1>8, <1>9

(* A new node behind node p *)
LEMMA NodeBehind ==
    ASSUME NEW nd, Linked(nd), Ranked(nd), NEW p \in 1..Len(nd),
           NEW nd2, Len(nd2) = Len(nd) + 1, nd2[Len(nd) + 1].next = 0,
           \A j \in 1..Len(nd) : nd2[j].next = IF j = p THEN Len(nd) + 1 ELSE nd[j].next
    PROVE  /\ Ranked(nd2)
           /\ \A h \in 0..Len(nd) :
                 /\ Reach(nd2, h) \subseteq Reach(nd, h) \cup {Len(nd) + 1}
                 /\ p \notin Reach(nd, h) => Reach(nd2, h) \subseteq Reach(nd, h)
<1>1. PICK top \in Nat : \E r \in [1..Len(nd) -> 0..top] : Falls(nd, r)
  BY DEF Ranked
<1>2. PICK r \in [1..Len(nd) -> 0..top] : Falls(nd, r)
  BY <1>1
<1> DEFINE id == Len(nd) + 1
           q == [j \in 1..id |-> IF j = id THEN 0 ELSE r[j] + 1]
<1>3. id \in Nat /\ Len(nd) \in Nat /\ \A j \in 1..id : j = id \/ (j \in 1..Len(nd) /\ j # id)
  <2> HIDE DEF q
  <2>1. Len(nd) \in Nat
    BY LinkedIs
  <2> QED
    BY <2>1
<1>4. \A j \in 1..Len(nd) : j \in 1..id /\ j # id /\ nd[j].next \in 0..Len(nd) /\ r[j] \in 0..top
  BY <1>2, <1>3 DEF Linked
<1>5. q \in [1..id -> 0..(top + 1)]
  BY <1>3, <1>4
<1>6. Falls(nd2, q)
  <2> SUFFICES ASSUME NEW j \in 1..id, nd2[j].next # 0
               PROVE  q[nd2[j].next] < q[j]
    BY DEF Falls
  <2>1. j \in 1..Len(nd) /\ j # id
    BY <1>3
  <2>2. CASE j = p
    BY <1>3, <1>4, <2>1, <2>2
  <2>3. CASE j # p
    <3>1. nd2[j].next = nd[j].next /\ nd[j].next \in 1..Len(nd)
      BY <1>4, <2>1, <2>3, LinkedIs
    <3>2. r[nd[j].next] < r[j] /\ nd[j].next # id
      BY <1>2, <1>4, <2>1, <2>3, <3>1 DEF Falls
    <3> QED
      BY <1>4, <2>1, <3>1, <3>2
  <2> QED
    BY <2>2, <2>3
<1>7. Ranked(nd2)
  <2>1. top + 1 \in Nat
    OBVIOUS
  <2> HIDE DEF q
  <2> QED
    BY <1>5, <1>6, <2>1 DEF Ranked
<1>8. ASSUME NEW h \in 0..Len(nd)
      PROVE  /\ Reach(nd2, h) \subseteq Reach(nd, h) \cup {id}
             /\ p \notin Reach(nd, h) => Reach(nd2, h) \subseteq Reach(nd, h)
  <2>1. Reach(nd, h) \subseteq 1..Len(nd)
    BY ReachIs
  <2>2. ASSUME NEW j \in Reach(nd, h)
        PROVE  nd2[j].next \in (IF j = p THEN {id} ELSE Reach(nd, h) \cup {0})
    BY <2>1, ReachIs DEF Closed
  <2>3. p \notin Reach(nd, h) => Reach(nd2, h) \subseteq Reach(nd, h)
    BY <1>3, <2>2, ReachWithin
  <2> DEFINE S == Reach(nd, h) \cup {id}
  <2>4. S \in SUBSET (1..Len(nd2)) /\ Closed(nd2, S) /\ h \in S \cup {0}
    BY <1>3, <2>1, <2>2, ReachIs DEF Closed
  <2>5. Reach(nd2, h) \subseteq S
    <3> HIDE DEF S
    <3> QED
      BY <2>4, ReachLeast
  <2> QED
    BY <2>3, <2>5
<1> QED
  BY <1>7, <1>8

-----------------------------------------------------------------------------
(* The list that is split: s are its nodes, half[m] the half node m goes to,
   run where its last run begins, link[j] what the copy of s[j] is put in front
   of, first[b] the first node of the new list of half b: the first of the
   list of a half when the nodes before s[j] are copied is in front of what
   was there. *)
InFront(nd, s, half, run, b, j, x) ==
    \/ \E m \in 1..(j - 1) :
          /\ half[s[m]] = b /\ x = Len(nd) + m
          /\ \A l \in 1..(j - 1) : half[s[l]] = b => l <= m
    \/ /\ \A l \in 1..(j - 1) : half[s[l]] # b
       /\ x = IF half[s[run]] = b THEN s[run] ELSE 0

IsSplit(nd, s, half, run, link, nd2, first) ==
    /\ run \in 1..Len(s)
    /\ \A m \in run..Len(s) : half[s[m]] = half[s[run]]
    /\ link \in [1..(run - 1) -> 0..(Len(nd) + (run - 1))]
    /\ \A j \in 1..(run - 1) : InFront(nd, s, half, run, half[s[j]], j, link[j])
    /\ Copied(nd, run - 1, s, link, nd2)
    /\ \A b \in {0, 1} : InFront(nd, s, half, run, b, run, first[b])

LEMMA SplitNodes ==
    ASSUME NEW nd, Linked(nd), NEW h \in 1..Len(nd), NEW s, Walks(nd, h, s),
           NEW half, NEW run, NEW link, NEW nd2, NEW first,
           IsSplit(nd, s, half, run, link, nd2, first)
    PROVE  /\ Linked(nd2) /\ run - 1 \in Nat /\ Len(nd2) = Len(nd) + (run - 1)
           /\ \A j \in 1..Len(nd) : nd2[j] = nd[j]
           /\ \A j \in 1..(run - 1) : /\ s[j] \in 1..Len(nd)
                                      /\ nd2[Len(nd) + j].key = nd[s[j]].key
                                      /\ nd2[Len(nd) + j].val = nd[s[j]].val
                                      /\ nd2[Len(nd) + j].address = nd[s[j]].address
                                      /\ nd2[Len(nd) + j].next = link[j]
<1> DEFINE n == run - 1
           c == [j \in 1..n |-> s[j]]
<1>1. run \in 1..Len(s) /\ s \in Seq(1..Len(nd)) /\ Len(s) \in Nat
  BY LenProperties DEF IsSplit, Walks
<1>2. n \in Nat /\ \A j \in 1..n : j \in 1..Len(s)
  BY <1>1
<1>3. \A j \in 1..n : s[j] \in 1..Len(nd)
  BY <1>1, <1>2, ElementOfSeq
<1>4. c \in [1..n -> 1..Len(nd)] /\ \A j \in 1..n : c[j] = s[j]
  BY <1>3
<1>5. link \in [1..n -> 0..(Len(nd) + n)]
  BY DEF IsSplit
<1>6. Copied(nd, n, c, link, nd2)
  BY <1>4 DEF IsSplit, Copied
<1> HIDE DEF n, c
<1>7. HasCopies(nd, n, c, link, nd2)
  BY <1>2, <1>4, <1>5, <1>6, NodesCopied
<1> QED
  BY <1>2, <1>3, <1>4, <1>7 DEF n, HasCopies

LEMMA SplitRanked ==
    ASSUME NEW nd, Linked(nd), Ranked(nd), NEW h \in 1..Len(nd), NEW s, Walks(nd, h, s),
           NEW half, NEW run, NEW link, NEW nd2, NEW first,
           IsSplit(nd, s, half, run, link, nd2, first)
    PROVE  /\ Ranked(nd2)
           /\ \A x \in 0..Len(nd) : Reach(nd2, x) \subseteq Reach(nd, x)
<1>1. PICK top \in Nat : \E r \in [1..Len(nd) -> 0..top] : Falls(nd, r)
  BY DEF Ranked
<1>2. PICK r \in [1..Len(nd) -> 0..top] : Falls(nd, r)
  BY <1>1
<1> DEFINE n == run - 1
           base == Len(nd)
           q == [j \in 1..(base + n) |-> IF j <= base THEN r[j] ELSE top + (j - base)]
<1>3. /\ n \in Nat /\ base \in Nat /\ Len(nd2) = base + n
      /\ \A j \in 1..base : nd2[j].next = nd[j].next
      /\ \A j \in 1..n : nd2[base + j].next = link[j]
  <2> HIDE DEF q
  <2> QED
    BY SplitNodes, LinkedIs
<1>l. \A j \in 1..n :
         \/ link[j] = 0
         \/ link[j] \in 1..base
         \/ \E m \in 1..(j - 1) : link[j] = base + m
  <2>1. run \in 1..Len(s) /\ s \in Seq(1..base)
    BY DEF IsSplit, Walks
  <2>2. s[run] \in 1..base
    BY <2>1, ElementOfSeq
  <2> HIDE DEF q
  <2>3. ASSUME NEW j \in 1..n
        PROVE  \/ link[j] = 0 \/ link[j] \in 1..base
               \/ \E m \in 1..(j - 1) : link[j] = base + m
    <3>1. InFront(nd, s, half, run, half[s[j]], j, link[j])
      BY DEF IsSplit
    <3>2. \/ link[j] = 0 \/ link[j] = s[run]
          \/ \E m \in 1..(j - 1) : link[j] = Len(nd) + m
      BY <3>1 DEF InFront
    <3> QED
      BY <2>2, <3>2
  <2> QED
    BY <2>3
<1> HIDE DEF n, base
<1>4. \A j \in 1..(base + n) : j \in 1..base \/ (j - base \in 1..n /\ ~(j <= base) /\ j = base + (j - base))
  <2> HIDE DEF q
  <2> QED
    BY <1>3
<1>5. \A j \in 1..base : j \in 1..(base + n) /\ j <= base /\ r[j] \in 0..top /\ q[j] = r[j]
  <2>1. \A j \in 1..base : j \in 1..(base + n) /\ j <= base
    <3> HIDE DEF q
    <3> QED
      BY <1>3
  <2> QED
    BY <1>2, <2>1 DEF base
<1>6. \A j \in 1..n : base + j \in 1..(base + n) /\ q[base + j] = top + j
  <2>1. \A j \in 1..n : base + j \in 1..(base + n) /\ ~(base + j <= base) /\ (base + j) - base = j
    <3> HIDE DEF q
    <3> QED
      BY <1>3
  <2> QED
    BY <2>1
<1>7. q \in [1..(base + n) -> 0..(top + n)]
  <2>1. ASSUME NEW j \in 1..(base + n) PROVE q[j] \in 0..(top + n)
    <3> HIDE DEF q
    <3>1. CASE j \in 1..base
      BY <1>3, <1>5, <3>1
    <3>2. CASE j - base \in 1..n /\ j = base + (j - base)
      <4>1. q[j] = top + (j - base)
        BY <1>6, <3>2
      <4> QED
        BY <1>3, <3>2, <4>1
    <3> QED
      BY <1>4, <3>1, <3>2
  <2> QED
    BY <2>1
<1> HIDE DEF q
<1>8. Falls(nd2, q)
  <2> SUFFICES ASSUME NEW j \in 1..(base + n), nd2[j].next # 0
               PROVE  q[nd2[j].next] < q[j]
    BY <1>3 DEF Falls
  <2>1. CASE j \in 1..base
    <3>1. nd2[j].next = nd[j].next /\ nd[j].next \in 0..base
      BY <1>3, <2>1 DEF Linked, base
    <3>2. nd[j].next \in 1..base
      BY <1>3, <3>1
    <3>3. r[nd[j].next] < r[j]
      BY <1>2, <2>1, <3>1 DEF Falls, base
    <3> QED
      BY <1>5, <2>1, <3>1, <3>2, <3>3
  <2>2. CASE j - base \in 1..n /\ j = base + (j - base)
    <3> DEFINE i == j - base
    <3>1. i \in 1..n /\ j = base + i
      BY <2>2
    <3> HIDE DEF i
    <3>2. nd2[j].next = link[i] /\ q[j] = top + i /\ i >= 1 /\ i \in Int
      BY <1>3, <1>6, <3>1
    <3>3. CASE link[i] \in 1..base
      <4>1. q[link[i]] \in 0..top
        BY <1>5, <3>3
      <4> QED
        BY <3>2, <4>1
    <3>4. ASSUME NEW m \in 1..(i - 1), link[i] = base + m
          PROVE  q[nd2[j].next] < q[j]
      <4>1. m \in 1..n /\ m < i /\ m \in Int
        BY <1>3, <3>1, <3>4
      <4>2. q[link[i]] = top + m
        BY <1>6, <3>4, <4>1
      <4> QED
        BY <3>2, <4>1, <4>2
    <3> QED
      BY <1>l, <3>1, <3>2, <3>3, <3>4
  <2> QED
    BY <1>4, <2>1, <2>2
<1>9. Ranked(nd2)
  <2>1. top + n \in Nat
    BY <1>3
  <2> QED
    BY <1>3, <1>7, <1>8, <2>1 DEF Ranked
<1>10. ASSUME NEW x \in 0..Len(nd) PROVE Reach(nd2, x) \subseteq Reach(nd, x)
  <2>1. Reach(nd, x) \subseteq 1..base
    BY ReachIs DEF base
  <2>2. ASSUME NEW j \in Reach(nd, x) PROVE nd2[j].next \in Reach(nd, x) \cup {0}
    BY <1>3, <2>1, ReachIs DEF Closed
  <2>3. Len(nd2) \in Nat /\ Len(nd) <= Len(nd2)
    BY <1>3 DEF base
  <2> QED
    BY <2>2, <2>3, ReachWithin
<1> QED
  BY <1>9, <1>10

(* Each of the two lists has, of every node that goes to its half and to no
   other, the node or its copy. *)
LEMMA SplitLists ==
    ASSUME NEW nd, Linked(nd), Ranked(nd), NEW h \in 1..Len(nd), NEW s, Walks(nd, h, s),
           NEW half, NEW run, NEW link, NEW nd2, NEW first,
           IsSplit(nd, s, half, run, link, nd2, first),
           \A a, b \in Reach(nd, h) : nd[a].key = nd[b].key => a = b
    PROVE  /\ \A b \in {0, 1} : first[b] \in 0..Len(nd2)
           /\ \A b \in {0, 1} : \A a \in Reach(nd2, first[b]) :
                 /\ a \in Reach(nd, h) \/ (a \in Nat /\ a > Len(nd))
                 /\ \E m \in Reach(nd, h) :
                       /\ nd2[a].key = nd[m].key /\ nd2[a].val = nd[m].val /\ half[m] = b
           /\ \A b, c \in {0, 1} : \A a \in Reach(nd2, first[b]), d \in Reach(nd2, first[c]) :
                 nd2[a].key = nd2[d].key => a = d /\ b = c
<1> DEFINE n == run - 1
           base == Len(nd)
           Suffix == {s[m] : m \in run..Len(s)}
           Part(b) == {a \in 1..(base + n) :
                          \/ a \in Suffix /\ half[s[run]] = b
                          \/ \E m \in 1..n : a = base + m /\ half[s[m]] = b}
<1>1. /\ n \in Nat /\ base \in Nat /\ Len(nd2) = base + n
      /\ \A j \in 1..base : nd2[j] = nd[j]
      /\ \A j \in 1..n : /\ nd2[base + j].key = nd[s[j]].key /\ nd2[base + j].val = nd[s[j]].val
                         /\ nd2[base + j].next = link[j]
  BY SplitNodes, LinkedIs
<1>2. /\ run \in 1..Len(s) /\ Len(s) \in Nat /\ n < run /\ n + 1 = run
      /\ \A j \in 1..n : j \in 1..Len(s) /\ j < run
      /\ \A j \in run..Len(s) : j \in 1..Len(s)
  <2>1. run \in 1..Len(s) /\ Len(s) \in Nat
    BY LenProperties DEF IsSplit, Walks
  <2> QED
    BY <2>1
<1>3. \A j \in 1..Len(s) : s[j] \in 1..base /\ s[j] \in Reach(nd, h)
  BY ElementOfSeq DEF Walks
<1>4. \A i, j \in 1..Len(s) : s[i] = s[j] => i = j
  BY DEF Walks
<1>5. /\ \A m \in run..Len(s) : half[s[m]] = half[s[run]]
      /\ \A j \in 1..n : \/ link[j] = 0
                         \/ half[s[j]] = half[s[run]] /\ link[j] = s[run]
                         \/ \E m \in 1..(j - 1) : half[s[m]] = half[s[j]] /\ link[j] = base + m
      /\ \A b \in {0, 1} : \/ first[b] = 0
                           \/ half[s[run]] = b /\ first[b] = s[run]
                           \/ \E m \in 1..n : half[s[m]] = b /\ first[b] = base + m
  <2>1. \A m \in run..Len(s) : half[s[m]] = half[s[run]]
    BY DEF IsSplit
  <2>2. ASSUME NEW j \in 1..n
        PROVE  \/ link[j] = 0
               \/ half[s[j]] = half[s[run]] /\ link[j] = s[run]
               \/ \E m \in 1..(j - 1) : half[s[m]] = half[s[j]] /\ link[j] = base + m
    <3>1. InFront(nd, s, half, run, half[s[j]], j, link[j])
      BY DEF IsSplit
    <3>2. \/ link[j] = 0
          \/ half[s[run]] = half[s[j]] /\ link[j] = s[run]
          \/ \E m \in 1..(j - 1) : half[s[m]] = half[s[j]] /\ link[j] = Len(nd) + m
      BY <3>1 DEF InFront
    <3> QED
      BY <3>2
  <2>3. ASSUME NEW b \in {0, 1}
        PROVE  \/ first[b] = 0
               \/ half[s[run]] = b /\ first[b] = s[run]
               \/ \E m \in 1..n : half[s[m]] = b /\ first[b] = base + m
    <3>1. InFront(nd, s, half, run, b, run, first[b])
      BY DEF IsSplit
    <3>2. \/ first[b] = 0
          \/ half[s[run]] = b /\ first[b] = s[run]
          \/ \E m \in 1..(run - 1) : half[s[m]] = b /\ first[b] = Len(nd) + m
      BY <3>1 DEF InFront
    <3> QED
      BY <3>2
  <2> QED
    BY <2>1, <2>2, <2>3
<1>6. \A a \in Suffix : a \in 1..base /\ nd[a].next \in Suffix \cup {0}
  <2> SUFFICES ASSUME NEW m \in run..Len(s)
               PROVE  s[m] \in 1..base /\ nd[s[m]].next \in Suffix \cup {0}
    OBVIOUS
  <2>1. s[m] \in 1..base
    BY <1>2, <1>3
  <2>2. CASE m = Len(s)
    BY <2>1, <2>2 DEF Walks
  <2>3. CASE m # Len(s)
    <3>1. m \in 1..(Len(s) - 1) /\ m + 1 \in run..Len(s)
      BY <1>2, <2>3
    <3>2. nd[s[m]].next = s[m + 1]
      BY <3>1 DEF Walks
    <3> QED
      BY <2>1, <3>1, <3>2
  <2> QED
    BY <2>2, <2>3
<1>7. s[run] \in Suffix
  BY <1>2
<1> HIDE DEF n, base, Suffix
<1>8. \A a \in 1..base : a \in 1..(base + n)
  BY <1>1
<1>9. \A m \in 1..n : base + m \in 1..(base + n) /\ base + m > base /\ base + m \in Nat
  BY <1>1
<1>10. ASSUME NEW b \in {0, 1} PROVE Reach(nd2, first[b]) \subseteq Part(b)
  <2>1. first[b] \in Part(b) \cup {0}
    BY <1>5, <1>6, <1>7, <1>8, <1>9
  <2>2. ASSUME NEW a \in Part(b) PROVE nd2[a].next \in Part(b) \cup {0}
    <3>1. CASE a \in Suffix /\ half[s[run]] = b
      BY <1>1, <1>6, <1>8, <3>1
    <3>2. ASSUME NEW m \in 1..n, a = base + m, half[s[m]] = b
          PROVE  nd2[a].next \in Part(b) \cup {0}
      <4>1. nd2[a].next = link[m]
        BY <1>1, <3>2
      <4>2. \A l \in 1..(m - 1) : l \in 1..n
        BY <1>1
      <4>3. CASE half[s[m]] = half[s[run]] /\ link[m] = s[run]
        BY <1>6, <1>7, <1>8, <3>2, <4>1, <4>3
      <4>4. CASE \E l \in 1..(m - 1) : half[s[l]] = half[s[m]] /\ link[m] = base + l
        BY <1>9, <3>2, <4>1, <4>2, <4>4
      <4> QED
        BY <1>5, <4>1, <4>3, <4>4
    <3> QED
      BY <2>2, <3>1, <3>2
  <2>3. Part(b) \in SUBSET (1..Len(nd2)) /\ Closed(nd2, Part(b))
    BY <1>1, <2>2 DEF Closed
  <2> HIDE DEF Part
  <2> QED
    BY <2>1, <2>3, ReachLeast
<1>11. ASSUME NEW b \in {0, 1}, NEW a \in Part(b)
       PROVE  \E j \in 1..Len(s) : /\ nd2[a].key = nd[s[j]].key /\ half[s[j]] = b
                                   /\ nd2[a].val = nd[s[j]].val
                                   /\ (a = s[j] /\ j >= run) \/ (a = base + j /\ j < run)
  <2>1. CASE a \in Suffix /\ half[s[run]] = b
    <3>1. PICK m \in run..Len(s) : a = s[m]
      BY <2>1 DEF Suffix
    <3>2. m \in 1..Len(s) /\ m >= run /\ half[s[m]] = b
      BY <1>2, <1>5, <2>1
    <3> QED
      BY <1>1, <1>3, <3>1, <3>2
  <2>2. ASSUME NEW m \in 1..n, a = base + m, half[s[m]] = b
        PROVE  m \in 1..Len(s) /\ m < run /\ nd2[a].key = nd[s[m]].key /\ nd2[a].val = nd[s[m]].val
    BY <1>1, <1>2, <2>2
  <2> QED
    BY <1>11, <2>1, <2>2
<1>12. ASSUME NEW b \in {0, 1}, NEW a \in Reach(nd2, first[b])
       PROVE  /\ a \in Reach(nd, h) \/ (a \in Nat /\ a > Len(nd))
              /\ \E m \in Reach(nd, h) :
                    /\ nd2[a].key = nd[m].key /\ nd2[a].val = nd[m].val /\ half[m] = b
  <2>1. PICK j \in 1..Len(s) : /\ nd2[a].key = nd[s[j]].key /\ half[s[j]] = b
                               /\ nd2[a].val = nd[s[j]].val
                               /\ (a = s[j] /\ j >= run) \/ (a = base + j /\ j < run)
    BY <1>10, <1>11
  <2>2. s[j] \in Reach(nd, h)
    BY <1>3
  <2>3. a = base + j => a \in Nat /\ a > base
    BY <1>1
  <2>4. a \in Reach(nd, h) \/ (a \in Nat /\ a > base)
    BY <2>1, <2>2, <2>3
  <2>5. \E m \in Reach(nd, h) :
           /\ nd2[a].key = nd[m].key /\ nd2[a].val = nd[m].val /\ half[m] = b
    BY <2>1, <2>2
  <2> QED
    BY <2>4, <2>5 DEF base
<1>13. ASSUME NEW b \in {0, 1}, NEW c \in {0, 1}, NEW a \in Reach(nd2, first[b]),
              NEW d \in Reach(nd2, first[c]), nd2[a].key = nd2[d].key
       PROVE  a = d /\ b = c
  <2>1. PICK i \in 1..Len(s) : /\ nd2[a].key = nd[s[i]].key /\ half[s[i]] = b
                               /\ (a = s[i] /\ i >= run) \/ (a = base + i /\ i < run)
    BY <1>10, <1>11
  <2>2. PICK j \in 1..Len(s) : /\ nd2[d].key = nd[s[j]].key /\ half[s[j]] = c
                               /\ (d = s[j] /\ j >= run) \/ (d = base + j /\ j < run)
    BY <1>10, <1>11
  <2>3. s[i] = s[j]
    BY <1>3, <1>13, <2>1, <2>2
  <2>4. i = j
    BY <1>4, <2>3
  <2>5. ~(i >= run /\ i < run)
    BY <1>2
  <2> QED
    BY <2>1, <2>2, <2>4, <2>5
<1>14. ASSUME NEW b \in {0, 1} PROVE first[b] \in 0..Len(nd2)
  <2>1. s[run] \in 1..(base + n)
    BY <1>6, <1>7, <1>8
  <2> QED
    BY <1>1, <1>5, <1>9, <2>1
<1> QED
  BY <1>12, <1>13, <1>14

-----------------------------------------------------------------------------
(* The values of a key in the list that starts at h *)
ValuesAt(nd, h, k) == {v \in Values : \E p \in Reach(nd, h) : nd[p].key = k /\ nd[p].val = v}

-----------------------------------------------------------------------------
(* What the stores leave in the lists *)

(* Whoever was reached along next nodes that were not stored over still is. *)
LEMMA ReachKept ==
    ASSUME NEW nd, Linked(nd), NEW nd2, Linked(nd2), Len(nd) <= Len(nd2), NEW h \in 0..Len(nd),
           \A j \in Reach(nd, h) : nd2[j].next = nd[j].next \/ nd[j].next = 0
    PROVE  Reach(nd, h) \subseteq Reach(nd2, h)
<1> DEFINE S == Reach(nd2, h) \cap Reach(nd, h)
<1>1. Len(nd) \in Nat /\ Len(nd2) \in Nat /\ h \in 0..Len(nd2)
  BY LinkedIs
<1>2. S \in SUBSET (1..Len(nd)) /\ h \in S \cup {0}
  BY <1>1, ReachIs
<1>3. ASSUME NEW j \in S PROVE nd[j].next \in S \cup {0}
  <2>1. nd[j].next \in Reach(nd, h) \cup {0} /\ nd2[j].next \in Reach(nd2, h) \cup {0}
    BY <1>1, ReachIs DEF Closed
  <2> QED
    BY <2>1
<1> HIDE DEF S
<1>4. Reach(nd, h) \subseteq S
  BY <1>2, <1>3, ReachLeast DEF Closed
<1> QED
  BY <1>4 DEF S

LEMMA ReachSame ==
    ASSUME NEW nd, Linked(nd), NEW nd2, Linked(nd2), Len(nd) <= Len(nd2), NEW h \in 0..Len(nd),
           \A j \in Reach(nd, h) : nd2[j].next = nd[j].next
    PROVE  Reach(nd2, h) = Reach(nd, h)
<1>1. Reach(nd, h) \subseteq Reach(nd2, h)
  BY ReachKept
<1>2. \A j \in Reach(nd, h) : nd2[j].next \in Reach(nd, h) \cup {0}
  BY ReachIs DEF Closed
<1>3. Reach(nd2, h) \subseteq Reach(nd, h)
  BY <1>2, LinkedIs, ReachWithin
<1> QED
  BY <1>1, <1>3

(* A node of a list is behind one node only, and never is its first. *)
LEMMA OneBefore ==
    ASSUME NEW nd, Linked(nd), NEW h \in 1..Len(nd), NEW s, Walks(nd, h, s),
           NEW a \in Reach(nd, h), NEW b \in Reach(nd, h), nd[a].next # 0, nd[a].next = nd[b].next
    PROVE  a = b
<1>1. s \in Seq(1..Len(nd)) /\ Len(s) \in Nat /\ h # 0 /\ h \in 0..Len(nd)
  BY LinkedIs, LenProperties DEF Walks
<1>2. a \in 1..Len(nd) /\ b \in 1..Len(nd)
  BY <1>1, ReachIs
<1>3. PICK i \in 1..Len(s) : s[i] = a
  BY <1>2 DEF Walks
<1>4. PICK j \in 1..Len(s) : s[j] = b
  BY <1>2 DEF Walks
<1>5. nd[s[Len(s)]].next = 0
  BY <1>1 DEF Walks
<1>6. i \in 1..(Len(s) - 1) /\ j \in 1..(Len(s) - 1)
  BY <1>1, <1>3, <1>4, <1>5
<1>7. s[i + 1] = s[j + 1]
  BY <1>3, <1>4, <1>6 DEF Walks
<1>8. i + 1 = j + 1
  <2>1. i + 1 \in 1..Len(s) /\ j + 1 \in 1..Len(s)
    BY <1>1, <1>6
  <2> QED
    BY <1>7, <2>1 DEF Walks
<1> QED
  BY <1>3, <1>4, <1>6, <1>8

(* A node that is taken out is the only one that is, *)
LEMMA UnlinkedOnly ==
    ASSUME NEW nd, Linked(nd), Ranked(nd), NEW nd2, Linked(nd2), Len(nd2) = Len(nd),
           NEW q \in 1..Len(nd), NEW p \in 1..Len(nd), nd[q].next = p,
           \A j \in 1..Len(nd) : nd2[j].next = IF j = q THEN nd[p].next ELSE nd[j].next,
           NEW x \in 0..Len(nd)
    PROVE  Reach(nd, x) \subseteq Reach(nd2, x) \cup {p}
<1>1. p # q /\ nd[p].next \in 0..Len(nd)
  <2>1. p \in 0..Len(nd) /\ p # 0
    BY LinkedIs
  <2>2. p \in Reach(nd, p)
    BY <2>1, ReachIs
  <2> QED
    BY <2>2, NotAgain DEF Linked
<1> DEFINE R == Reach(nd2, x)
           S == IF q \in R THEN R \cup {p} ELSE R
<1>2. R \subseteq 1..Len(nd) /\ x \in R \cup {0} /\ Closed(nd2, R)
  BY ReachIs
<1> HIDE DEF R
<1>3. ASSUME NEW j \in S PROVE nd[j].next \in S \cup {0}
  <2>1. CASE j = q
    BY <1>1, <1>2, <1>3, <2>1
  <2>2. CASE j \in R /\ j # q
    <3>1. nd2[j].next = nd[j].next /\ nd2[j].next \in R \cup {0}
      BY <1>2, <2>2 DEF Closed
    <3> QED
      BY <3>1
  <2>3. CASE j = p /\ q \in R
    <3>1. nd2[q].next = nd[p].next /\ nd2[q].next \in R \cup {0}
      BY <1>2, <2>3 DEF Closed
    <3> QED
      BY <2>3, <3>1
  <2> QED
    BY <1>3, <2>1, <2>2, <2>3
<1>4. S \in SUBSET (1..Len(nd)) /\ x \in S \cup {0}
  BY <1>2
<1>5. Reach(nd, x) \subseteq S
  <2> HIDE DEF S
  <2> QED
    BY <1>3, <1>4, ReachLeast DEF Closed
<1> QED
  BY <1>5 DEF R

(* and is out of the list it was in. *)
LEMMA UnlinkedGone ==
    ASSUME NEW nd, Linked(nd), Ranked(nd), NEW nd2, Linked(nd2), Len(nd2) = Len(nd),
           NEW h \in 1..Len(nd), NEW s, Walks(nd, h, s),
           NEW q \in Reach(nd, h), NEW p \in 1..Len(nd), nd[q].next = p, p # h,
           \A j \in 1..Len(nd) : nd2[j].next = IF j = q THEN nd[p].next ELSE nd[j].next
    PROVE  p \notin Reach(nd2, h)
<1>1. h \in 0..Len(nd) /\ h # 0 /\ p # 0
  BY LinkedIs
<1>2. q \in 1..Len(nd) /\ p \in Reach(nd, h) /\ nd[p].next \in Reach(nd, h) \cup {0}
  BY <1>1, ReachIs DEF Closed
<1>3. nd[p].next # p
  <2>1. p \in 0..Len(nd)
    BY LinkedIs
  <2>2. p \in Reach(nd, p)
    BY <1>1, <2>1, ReachIs
  <2> QED
    BY <2>2, NotAgain
<1> DEFINE S == Reach(nd, h) \ {p}
<1>4. ASSUME NEW j \in S PROVE nd2[j].next \in S \cup {0}
  <2>1. j \in 1..Len(nd) /\ nd[j].next \in Reach(nd, h) \cup {0}
    BY <1>1, ReachIs DEF Closed
  <2>2. CASE j = q
    BY <1>2, <1>3, <2>1, <2>2
  <2>3. CASE j # q
    <3>1. nd[j].next # p
      BY <1>1, <1>4, <2>3, OneBefore
    <3> QED
      BY <2>1, <2>3, <3>1
  <2> QED
    BY <2>2, <2>3
<1>5. S \in SUBSET (1..Len(nd2)) /\ h \in S \cup {0}
  BY <1>1, ReachIs
<1>6. Reach(nd2, h) \subseteq S
  <2> HIDE DEF S
  <2> QED
    BY <1>4, <1>5, ReachLeast DEF Closed
<1> QED
  BY <1>6

(* A node put behind the last of a list is in it. *)
LEMMA BehindReached ==
    ASSUME NEW nd, Linked(nd), NEW nd2, Linked(nd2), Len(nd2) = Len(nd) + 1,
           NEW p \in 1..Len(nd), nd[p].next = 0,
           \A j \in 1..Len(nd) : nd2[j].next = IF j = p THEN Len(nd) + 1 ELSE nd[j].next,
           NEW x \in 0..Len(nd)
    PROVE  /\ Reach(nd, x) \subseteq Reach(nd2, x)
           /\ p \in Reach(nd, x) => Len(nd) + 1 \in Reach(nd2, x)
<1>1. Len(nd) \in Nat /\ Len(nd) <= Len(nd2) /\ x \in 0..Len(nd2) /\ Len(nd) + 1 # 0
  BY LinkedIs
<1>2. Reach(nd, x) \subseteq 1..Len(nd)
  BY ReachIs
<1>3. Reach(nd, x) \subseteq Reach(nd2, x)
  BY <1>1, <1>2, ReachKept
<1>4. p \in Reach(nd, x) => Len(nd) + 1 \in Reach(nd2, x)
  BY <1>1, <1>3, ReachIs DEF Closed
<1> QED
  BY <1>3, <1>4

-----------------------------------------------------------------------------
(* The two lists of a split have, between them, every node of the list or its
   copy. *)

(* The last run of the list is kept as it is. *)
LEMMA RunKept ==
    ASSUME NEW nd, Linked(nd), NEW h \in 1..Len(nd), NEW s, Walks(nd, h, s),
           NEW half, NEW run, NEW link, NEW nd2, NEW first,
           IsSplit(nd, s, half, run, link, nd2, first),
           NEW m \in run..Len(s)
    PROVE  s[m] \in Reach(nd2, s[run])
<1>1. /\ Linked(nd2) /\ Len(nd) \in Nat /\ Len(nd2) \in Nat /\ Len(nd) <= Len(nd2)
      /\ \A j \in 1..Len(nd) : nd2[j] = nd[j]
  BY SplitNodes, LinkedIs
<1>2. run \in 1..Len(s) /\ Len(s) \in Nat
  BY LenProperties DEF IsSplit, Walks
<1>3. \A j \in 1..Len(s) : s[j] \in 1..Len(nd)
  BY ElementOfSeq DEF Walks
<1> DEFINE Bad == {j \in run..Len(s) : s[j] \notin Reach(nd2, s[run])}
<1>4. SUFFICES ASSUME Bad # {} PROVE FALSE
  OBVIOUS
<1>5. Bad \in SUBSET Nat
  BY <1>2
<1>6. PICK j \in Bad : \A i \in Bad : j <= i
  BY <1>4, <1>5, LeastNat
<1>7. s[run] \in 0..Len(nd2) /\ s[run] # 0
  BY <1>1, <1>2, <1>3
<1>8. j # run
  BY <1>1, <1>6, <1>7, ReachIs
<1>9. j - 1 \in run..Len(s) /\ ~(j <= j - 1) /\ j - 1 \in 1..(Len(s) - 1) /\ j - 1 + 1 = j
  BY <1>2, <1>6, <1>8
<1>10. s[j - 1] \in Reach(nd2, s[run])
  BY <1>6, <1>9
<1>11. nd2[s[j - 1]].next = s[j]
  <2>1. nd[s[j - 1]].next = s[j]
    BY <1>9 DEF Walks
  <2> QED
    BY <1>1, <1>3, <1>9, <2>1
<1>12. s[j] \in Reach(nd2, s[run]) \cup {0}
  BY <1>1, <1>7, <1>10, <1>11, ReachIs DEF Closed
<1>13. s[j] # 0
  BY <1>2, <1>3, <1>6
<1> QED
  BY <1>6, <1>12, <1>13

(* What is put in front of the copies of a half leads to all of them and to the
   last run, if that is of the half. *)
LEMMA FrontLeads ==
    ASSUME NEW nd, Linked(nd), NEW h \in 1..Len(nd), NEW s, Walks(nd, h, s),
           NEW half, NEW run, NEW link, NEW nd2, NEW first,
           IsSplit(nd, s, half, run, link, nd2, first), NEW b,
           NEW j \in 1..run, NEW x, InFront(nd, s, half, run, b, j, x)
    PROVE  /\ \A l \in 1..(j - 1) : half[s[l]] = b => Len(nd) + l \in Reach(nd2, x)
           /\ half[s[run]] = b => s[run] \in Reach(nd2, x)
<1> DEFINE Leads(i, y) == /\ \A l \in 1..(i - 1) : half[s[l]] = b => Len(nd) + l \in Reach(nd2, y)
                          /\ half[s[run]] = b => s[run] \in Reach(nd2, y)
           Good(i) == \A y : InFront(nd, s, half, run, b, i, y) => Leads(i, y)
           Bad == {i \in 1..run : ~Good(i)}
<1>1. /\ Linked(nd2) /\ Len(nd) \in Nat /\ Len(nd2) = Len(nd) + (run - 1)
      /\ \A i \in 1..(run - 1) : nd2[Len(nd) + i].next = link[i]
  BY SplitNodes, LinkedIs
<1>2. run \in 1..Len(s) /\ Len(s) \in Nat
  BY LenProperties DEF IsSplit, Walks
<1>3. s[run] \in 1..Len(nd2)
  <2>1. s[run] \in 1..Len(nd)
    BY <1>2, ElementOfSeq DEF Walks
  <2> QED
    BY <1>1, <1>2, <2>1
<1>4. SUFFICES ASSUME Bad # {} PROVE FALSE
  OBVIOUS
<1>5. Bad \in SUBSET Nat
  BY <1>2
<1> HIDE DEF Bad
<1>6. PICK i \in Bad : \A g \in Bad : i <= g
  BY <1>4, <1>5, LeastNat
<1>7. i \in 1..run /\ ~Good(i)
  BY <1>6 DEF Bad
<1>8. \A g \in 1..(i - 1) : g \in 1..(run - 1) /\ Good(g)
  <2> SUFFICES ASSUME NEW g \in 1..(i - 1) PROVE g \in 1..(run - 1) /\ Good(g)
    OBVIOUS
  <2>1. g \in 1..run /\ g \in 1..(run - 1) /\ ~(i <= g)
    BY <1>2, <1>7
  <2>2. g \notin Bad
    BY <1>6, <2>1
  <2> QED
    BY <2>1, <2>2 DEF Bad
<1>9. PICK y : InFront(nd, s, half, run, b, i, y) /\ ~Leads(i, y)
  BY <1>7
<1>10. CASE /\ \A l \in 1..(i - 1) : half[s[l]] # b
            /\ y = IF half[s[run]] = b THEN s[run] ELSE 0
  <2>1. half[s[run]] = b => s[run] \in Reach(nd2, y)
    BY <1>1, <1>2, <1>3, <1>10, ReachIs
  <2> QED
    BY <1>9, <1>10, <2>1
<1>11. ASSUME NEW m \in 1..(i - 1), half[s[m]] = b, y = Len(nd) + m,
              \A l \in 1..(i - 1) : half[s[l]] = b => l <= m
       PROVE  FALSE
  <2>1. InFront(nd, s, half, run, b, m, link[m])
    <3>1. InFront(nd, s, half, run, half[s[m]], m, link[m])
      BY <1>8 DEF IsSplit
    <3> QED
      BY <1>11, <3>1
  <2>2. Leads(m, link[m])
    BY <1>8, <2>1
  <2>3. y \in 1..Len(nd2) /\ nd2[y].next = link[m]
    BY <1>1, <1>2, <1>8, <1>11
  <2>4. Reach(nd2, y) = {y} \cup Reach(nd2, link[m])
    BY <1>1, <2>3, ReachFirst
  <2>5. ASSUME NEW l \in 1..(i - 1), half[s[l]] = b PROVE Len(nd) + l \in Reach(nd2, y)
    <3>1. CASE l = m
      BY <1>11, <2>4, <3>1
    <3>2. CASE l # m
      <4>1. l <= m
        BY <1>11, <2>5
      <4>2. l \in 1..(m - 1)
        BY <1>7, <1>11, <3>2, <4>1
      <4> QED
        BY <2>2, <2>4, <2>5, <4>2
    <3> QED
      BY <3>1, <3>2
  <2> QED
    BY <1>9, <2>2, <2>4, <2>5
<1> QED
  BY <1>9, <1>10, <1>11 DEF InFront

LEMMA SplitWhole ==
    ASSUME NEW nd, Linked(nd), Ranked(nd), NEW h \in 1..Len(nd), NEW s, Walks(nd, h, s),
           NEW half, NEW run, NEW link, NEW nd2, NEW first,
           IsSplit(nd, s, half, run, link, nd2, first),
           NEW b \in {0, 1}, NEW m \in Reach(nd, h), half[m] = b
    PROVE  \E a \in Reach(nd2, first[b]) : nd2[a].key = nd[m].key /\ nd2[a].val = nd[m].val
<1>1. /\ Linked(nd2) /\ Len(nd) \in Nat /\ Len(nd2) \in Nat /\ Len(nd) <= Len(nd2)
      /\ \A j \in 1..Len(nd) : nd2[j] = nd[j]
      /\ \A j \in 1..(run - 1) : /\ nd2[Len(nd) + j].key = nd[s[j]].key
                                 /\ nd2[Len(nd) + j].val = nd[s[j]].val
  BY SplitNodes, LinkedIs
<1>2. run \in 1..Len(s) /\ Len(s) \in Nat /\ run \in 1..run
  <2>1. run \in 1..Len(s) /\ Len(s) \in Nat
    BY LenProperties DEF IsSplit, Walks
  <2> QED
    BY <2>1
<1>3. InFront(nd, s, half, run, b, run, first[b])
  BY DEF IsSplit
<1>4. /\ \A l \in 1..(run - 1) : half[s[l]] = b => Len(nd) + l \in Reach(nd2, first[b])
      /\ half[s[run]] = b => s[run] \in Reach(nd2, first[b])
  BY <1>2, <1>3, FrontLeads
<1>5. m \in 1..Len(nd)
  <2>1. h \in 0..Len(nd)
    BY <1>1
  <2> QED
    BY <2>1, ReachIs
<1>6. PICK i \in 1..Len(s) : s[i] = m
  BY <1>5 DEF Walks
<1>7. CASE i < run
  <2>1. i \in 1..(run - 1)
    BY <1>2, <1>7
  <2> QED
    BY <1>1, <1>4, <1>6, <2>1
<1>8. CASE i >= run
  <2>1. i \in run..Len(s)
    BY <1>2, <1>8
  <2>2. half[s[run]] = b
    BY <1>6, <2>1 DEF IsSplit
  <2>3. m \in Reach(nd2, s[run])
    BY <1>6, <2>1, RunKept
  <2>4. first[b] \in 0..Len(nd2)
    <3>1. s[run] \in 1..Len(nd)
      BY <1>2, ElementOfSeq DEF Walks
    <3>2. \A l \in 1..(run - 1) : Len(nd) + l \in 0..Len(nd2)
      BY <1>1, <1>2, SplitNodes
    <3>3. \/ \E l \in 1..(run - 1) : first[b] = Len(nd) + l
          \/ first[b] = s[run]
          \/ first[b] = 0
      BY <1>3 DEF InFront
    <3> QED
      BY <1>1, <3>1, <3>2, <3>3
  <2>5. Reach(nd2, s[run]) \subseteq Reach(nd2, first[b])
    BY <1>1, <1>4, <2>2, <2>4, ReachFrom
  <2> QED
    BY <1>1, <1>5, <2>3, <2>5
<1> QED
  BY <1>2, <1>7, <1>8

-----------------------------------------------------------------------------
(* What an update leaves for readers: another value v of key k (None, if it took
   the key out of a list), and what there was for every other key *)

Alters(nd, nd2, k, v) ==
    /\ \A x \in 0..Len(nd) : \A j \in Keys :
          IF j # k THEN ValuesAt(nd2, x, j) = ValuesAt(nd, x, j)
          ELSE /\ ValuesAt(nd2, x, j) \subseteq ValuesAt(nd, x, j) \cup {v}
               /\ ValuesAt(nd2, x, j) = {} => ValuesAt(nd, x, j) = {} \/ v = None
    /\ \A p \in 1..Len(nd) :
          /\ nd2[p].key = nd[p].key
          /\ nd2[p].val = nd[p].val \/ (nd[p].key = k /\ nd2[p].val = v)

LEMMA HeldSome ==
    ASSUME NEW nd, Linked(nd), NEW h \in 0..Len(nd), NEW p \in Reach(nd, h)
    PROVE  nd[p].val \in ValuesAt(nd, h, nd[p].key)
<1>1. p \in 1..Len(nd)
  BY ReachIs
<1>2. nd[p].val \in Values
  BY <1>1 DEF Linked
<1> QED
  BY <1>2 DEF ValuesAt

LEMMA HeldNone ==
    ASSUME NEW nd, Linked(nd), NEW h \in 0..Len(nd), NEW k
    PROVE  ValuesAt(nd, h, k) = {} <=> \A p \in Reach(nd, h) : nd[p].key # k
<1>1. ASSUME NEW p \in Reach(nd, h), nd[p].key = k PROVE ValuesAt(nd, h, k) # {}
  BY <1>1, HeldSome
<1>2. ASSUME NEW v \in ValuesAt(nd, h, k) PROVE \E p \in Reach(nd, h) : nd[p].key = k
  BY DEF ValuesAt
<1> QED
  BY <1>1, <1>2

(* A list with a key once has one value of it. *)
LEMMA HeldOnce ==
    ASSUME NEW nd, Linked(nd), NEW h \in 0..Len(nd), NEW p \in Reach(nd, h),
           \A q \in Reach(nd, h) : nd[q].key = nd[p].key => q = p
    PROVE  ValuesAt(nd, h, nd[p].key) = {nd[p].val}
<1>1. nd[p].val \in ValuesAt(nd, h, nd[p].key)
  BY HeldSome
<1>2. ASSUME NEW v \in ValuesAt(nd, h, nd[p].key) PROVE v = nd[p].val
  BY DEF ValuesAt
<1> QED
  BY <1>1, <1>2

LEMMA AltersBy ==
    ASSUME NEW nd, Linked(nd), NEW nd2, Linked(nd2), Len(nd) <= Len(nd2), NEW k, NEW v,
           \A p \in 1..Len(nd) :
              /\ nd2[p].key = nd[p].key
              /\ nd2[p].val = nd[p].val \/ (nd[p].key = k /\ nd2[p].val = v),
           \A x \in 0..Len(nd) : \A p \in Reach(nd2, x) :
              p \in Reach(nd, x) \/ (nd2[p].key = k /\ nd2[p].val = v),
           \A x \in 0..Len(nd) : \A p \in Reach(nd, x) :
              p \in Reach(nd2, x) \/ (nd[p].key = k /\ v = None)
    PROVE  Alters(nd, nd2, k, v)
<1> SUFFICES ASSUME NEW x \in 0..Len(nd), NEW j \in Keys
             PROVE  IF j # k THEN ValuesAt(nd2, x, j) = ValuesAt(nd, x, j)
                    ELSE /\ ValuesAt(nd2, x, j) \subseteq ValuesAt(nd, x, j) \cup {v}
                         /\ ValuesAt(nd2, x, j) = {} => ValuesAt(nd, x, j) = {} \/ v = None
  BY DEF Alters
<1>1. Len(nd) \in Nat /\ Len(nd2) \in Nat /\ x \in 0..Len(nd2)
  BY LinkedIs
<1>2. Reach(nd, x) \subseteq 1..Len(nd) /\ Reach(nd2, x) \subseteq 1..Len(nd2)
  BY <1>1, ReachIs
<1>3. CASE j # k
  <2>1. ASSUME NEW w \in ValuesAt(nd2, x, j) PROVE w \in ValuesAt(nd, x, j)
    <3>1. PICK p \in Reach(nd2, x) : nd2[p].key = j /\ nd2[p].val = w
      BY DEF ValuesAt
    <3>2. p \in Reach(nd, x)
      BY <1>3, <3>1
    <3>3. nd[p].key = j /\ nd[p].val = w
      BY <1>2, <1>3, <3>1, <3>2
    <3> QED
      BY <3>2, <3>3 DEF ValuesAt
  <2>2. ASSUME NEW w \in ValuesAt(nd, x, j) PROVE w \in ValuesAt(nd2, x, j)
    <3>1. PICK p \in Reach(nd, x) : nd[p].key = j /\ nd[p].val = w
      BY DEF ValuesAt
    <3>2. p \in Reach(nd2, x)
      BY <1>3, <3>1
    <3>3. nd2[p].key = j /\ nd2[p].val = w
      BY <1>2, <1>3, <3>1
    <3> QED
      BY <3>2, <3>3 DEF ValuesAt
  <2> QED
    <3>1. ValuesAt(nd2, x, j) = ValuesAt(nd, x, j)
      BY <2>1, <2>2
    <3> QED
      BY <1>3, <3>1
<1>4. CASE j = k
  <2>1. ASSUME NEW w \in ValuesAt(nd2, x, j), w # v PROVE w \in ValuesAt(nd, x, j)
    <3>1. PICK p \in Reach(nd2, x) : nd2[p].key = j /\ nd2[p].val = w
      BY DEF ValuesAt
    <3>2. p \in Reach(nd, x)
      BY <2>1, <3>1
    <3>3. nd[p].key = j /\ nd[p].val = w
      BY <1>2, <2>1, <3>1, <3>2
    <3> QED
      BY <3>2, <3>3 DEF ValuesAt
  <2>2. ASSUME ValuesAt(nd2, x, j) = {}, v # None PROVE ValuesAt(nd, x, j) = {}
    <3> SUFFICES ASSUME NEW p \in Reach(nd, x), nd[p].key = j PROVE FALSE
      BY HeldNone
    <3>1. p \in Reach(nd2, x) /\ nd2[p].key = j
      BY <1>2, <2>2
    <3> QED
      BY <1>1, <2>2, <3>1, HeldNone
  <2> QED
    BY <1>4, <2>1, <2>2
<1> QED
  BY <1>3, <1>4

(* A value stored *)
LEMMA ValueAlters ==
    ASSUME NEW nd, Linked(nd), NEW p \in 1..Len(nd), NEW v \in Values, NEW a, NEW nd2,
           StoresValue(nd, p, v, a, nd2)
    PROVE  /\ Alters(nd, nd2, nd[p].key, v)
           /\ \A x \in 0..Len(nd) : Reach(nd2, x) = Reach(nd, x)
           /\ \A x \in 0..Len(nd) :
                 p \in Reach(nd, x) /\ (\A q \in Reach(nd, x) : nd[q].key = nd[p].key => q = p)
                    => ValuesAt(nd2, x, nd[p].key) = {v}
<1>1. /\ Linked(nd2) /\ Len(nd2) = Len(nd) /\ Len(nd) \in Nat /\ Len(nd) <= Len(nd2)
      /\ \A j \in 1..Len(nd) : /\ nd2[j].key = nd[j].key /\ nd2[j].next = nd[j].next
                               /\ nd2[j].val = IF j = p THEN v ELSE nd[j].val
  BY ValueStored, LinkedIs
<1>2. ASSUME NEW x \in 0..Len(nd) PROVE Reach(nd2, x) = Reach(nd, x) /\ Reach(nd, x) \subseteq 1..Len(nd)
  BY <1>1, ReachIs, ReachSame
<1>3. Alters(nd, nd2, nd[p].key, v)
  BY <1>1, <1>2, AltersBy
<1>4. ASSUME NEW x \in 0..Len(nd), p \in Reach(nd, x),
             \A q \in Reach(nd, x) : nd[q].key = nd[p].key => q = p
      PROVE  ValuesAt(nd2, x, nd[p].key) = {v}
  <2>1. x \in 0..Len(nd2) /\ p \in Reach(nd2, x) /\ nd2[p].key = nd[p].key /\ nd2[p].val = v
    BY <1>1, <1>2, <1>4
  <2>2. \A q \in Reach(nd2, x) : nd2[q].key = nd2[p].key => q = p
    BY <1>1, <1>2, <1>4
  <2> QED
    <3>1. ValuesAt(nd2, x, nd2[p].key) = {nd2[p].val}
      BY <1>1, <2>1, <2>2, HeldOnce
    <3> QED
      BY <2>1, <3>1
<1> QED
  BY <1>2, <1>3, <1>4

(* A node taken out from behind node q *)
LEMMA UnlinkAlters ==
    ASSUME NEW nd, Linked(nd), Ranked(nd), NEW h \in 1..Len(nd), NEW s, Walks(nd, h, s),
           NEW q \in Reach(nd, h), NEW p \in 1..Len(nd), nd[q].next = p, p # h, NEW nd2,
           StoresNext(nd, q, nd[p].next, nd2),
           \A m \in Reach(nd, h) : nd[m].key = nd[p].key => m = p
    PROVE  /\ Linked(nd2) /\ Len(nd2) = Len(nd)
           /\ Alters(nd, nd2, nd[p].key, None) /\ ValuesAt(nd2, h, nd[p].key) = {}
<1>1. Len(nd) \in Nat /\ h \in 0..Len(nd)
  BY LinkedIs
<1>2. q \in 1..Len(nd) /\ nd[p].next \in 0..Len(nd)
  BY <1>1, ReachIs DEF Linked
<1>3. /\ Linked(nd2) /\ Len(nd2) = Len(nd) /\ Len(nd) <= Len(nd2)
      /\ \A j \in 1..Len(nd) : /\ nd2[j].key = nd[j].key /\ nd2[j].val = nd[j].val
                               /\ nd2[j].next = IF j = q THEN nd[p].next ELSE nd[j].next
  BY <1>1, <1>2, NextStored
<1>4. \A x \in 0..Len(nd) : Reach(nd2, x) \subseteq Reach(nd, x)
  <2>1. \A j \in 1..Len(nd) : \/ nd2[j].next = nd[j].next
                              \/ nd[j].next # 0 /\ nd2[j].next = nd[nd[j].next].next
    BY <1>1, <1>3
  <2> QED
    BY <1>3, <2>1, NodesSkipped
<1>5. \A x \in 0..Len(nd) : Reach(nd, x) \subseteq Reach(nd2, x) \cup {p}
  BY <1>2, <1>3, UnlinkedOnly
<1>6. p \notin Reach(nd2, h)
  BY <1>3, UnlinkedGone
<1>7. Alters(nd, nd2, nd[p].key, None)
  BY <1>3, <1>4, <1>5, AltersBy
<1>8. ValuesAt(nd2, h, nd[p].key) = {}
  <2> SUFFICES ASSUME NEW m \in Reach(nd2, h), nd2[m].key = nd[p].key PROVE FALSE
    BY <1>1, <1>3, HeldNone
  <2>1. m \in Reach(nd, h) /\ m \in 1..Len(nd)
    BY <1>1, <1>4, ReachIs
  <2>2. m = p
    BY <1>3, <2>1
  <2> QED
    BY <1>6, <2>2
<1> QED
  BY <1>3, <1>7, <1>8

(* The list behind its first node p *)
LEMMA FirstAlters ==
    ASSUME NEW nd, Linked(nd), Ranked(nd), NEW p \in 1..Len(nd),
           \A m \in Reach(nd, p) : nd[m].key = nd[p].key => m = p
    PROVE  /\ nd[p].next \in 0..Len(nd)
           /\ ValuesAt(nd, nd[p].next, nd[p].key) = {}
           /\ \A j \in Keys \ {nd[p].key} : ValuesAt(nd, nd[p].next, j) = ValuesAt(nd, p, j)
<1>1. nd[p].next \in 0..Len(nd) /\ Reach(nd, p) = {p} \cup Reach(nd, nd[p].next)
  BY ReachFirst
<1>2. p \notin Reach(nd, nd[p].next)
  BY NotAgain
<1>3. ValuesAt(nd, nd[p].next, nd[p].key) = {}
  <2>1. \A m \in Reach(nd, nd[p].next) : nd[m].key # nd[p].key
    BY <1>1, <1>2
  <2> QED
    BY <1>1, <2>1, HeldNone
<1>4. \A j \in Keys \ {nd[p].key} : ValuesAt(nd, nd[p].next, j) = ValuesAt(nd, p, j)
  BY <1>1 DEF ValuesAt
<1> QED
  BY <1>1, <1>3, <1>4

(* A node put behind the last of a list *)
LEMMA BehindAlters ==
    ASSUME NEW nd, Linked(nd), Ranked(nd), NEW p \in 1..Len(nd), nd[p].next = 0,
           NEW k \in Keys, NEW v \in Values, v # None, NEW a, NEW nd2,
           StoresBehind(nd, p, k, v, a, nd2)
    PROVE  /\ Linked(nd2) /\ Len(nd2) = Len(nd) + 1 /\ Alters(nd, nd2, k, v)
           /\ \A x \in 0..Len(nd) : p \in Reach(nd, x) /\ ValuesAt(nd, x, k) = {} => ValuesAt(nd2, x, k) = {v}
<1>1. Len(nd) \in Nat
  BY LinkedIs
<1>2. /\ Linked(nd2) /\ Len(nd2) = Len(nd) + 1 /\ Len(nd) <= Len(nd2)
      /\ nd2[Len(nd) + 1].key = k /\ nd2[Len(nd) + 1].next = 0 /\ nd2[Len(nd) + 1].val = v
      /\ \A j \in 1..Len(nd) : /\ nd2[j].key = nd[j].key /\ nd2[j].val = nd[j].val
                               /\ nd2[j].next = IF j = p THEN Len(nd) + 1 ELSE nd[j].next
  BY <1>1, NodeLinked
<1>3. \A x \in 0..Len(nd) : Reach(nd2, x) \subseteq Reach(nd, x) \cup {Len(nd) + 1}
  BY <1>2, NodeBehind
<1>4. \A x \in 0..Len(nd) : /\ Reach(nd, x) \subseteq Reach(nd2, x)
                            /\ p \in Reach(nd, x) => Len(nd) + 1 \in Reach(nd2, x)
  BY <1>2, BehindReached
<1>5. Alters(nd, nd2, k, v)
  BY <1>2, <1>3, <1>4, AltersBy
<1>6. ASSUME NEW x \in 0..Len(nd), p \in Reach(nd, x), ValuesAt(nd, x, k) = {}
      PROVE  ValuesAt(nd2, x, k) = {v}
  <2>1. x \in 0..Len(nd2) /\ Len(nd) + 1 \in Reach(nd2, x)
    BY <1>1, <1>2, <1>4, <1>6
  <2>2. ASSUME NEW m \in Reach(nd2, x), nd2[m].key = nd2[Len(nd) + 1].key PROVE m = Len(nd) + 1
    <3>1. CASE m \in Reach(nd, x)
      <4>1. m \in 1..Len(nd)
        BY <3>1, ReachIs
      <4> QED
        <5>1. nd[m].key = k
          BY <1>2, <2>2, <4>1
        <5>2. \A q \in Reach(nd, x) : nd[q].key # k
          BY <1>6, HeldNone
        <5> QED
          BY <3>1, <5>1, <5>2
    <3> QED
      BY <1>3, <3>1
  <2> QED
    <3> DEFINE id == Len(nd) + 1
    <3>1. id \in Reach(nd2, x) /\ \A m \in Reach(nd2, x) : nd2[m].key = nd2[id].key => m = id
      BY <2>1, <2>2
    <3>2. nd2[id].key = k /\ nd2[id].val = v
      BY <1>2
    <3> HIDE DEF id
    <3>3. ValuesAt(nd2, x, nd2[id].key) = {nd2[id].val}
      <4>1. Linked(nd2) /\ x \in 0..Len(nd2)
        BY <1>2, <2>1
      <4> QED
        BY <3>1, <4>1, HeldOnce
    <3> QED
      BY <3>2, <3>3
<1> QED
  BY <1>2, <1>5, <1>6

(* A node by itself *)
LEMMA ApartAlters ==
    ASSUME NEW nd, Linked(nd), Ranked(nd), NEW k \in Keys, NEW v \in Values, NEW a, NEW nd2,
           StoresNode(nd, k, v, a, nd2)
    PROVE  /\ Linked(nd2) /\ Len(nd2) = Len(nd) + 1 /\ Alters(nd, nd2, k, v)
           /\ ValuesAt(nd2, Len(nd) + 1, k) = {v}
           /\ \A j \in Keys \ {k} : ValuesAt(nd2, Len(nd) + 1, j) = {}
<1>1. Len(nd) \in Nat
  BY LinkedIs
<1>2. /\ Linked(nd2) /\ Len(nd2) = Len(nd) + 1 /\ Len(nd) <= Len(nd2)
      /\ nd2[Len(nd) + 1].key = k /\ nd2[Len(nd) + 1].next = 0 /\ nd2[Len(nd) + 1].val = v
      /\ \A j \in 1..Len(nd) : nd2[j] = nd[j]
  BY <1>1, NodeStored
<1>3. ASSUME NEW x \in 0..Len(nd) PROVE Reach(nd2, x) = Reach(nd, x)
  <2>1. Reach(nd, x) \subseteq 1..Len(nd)
    BY ReachIs
  <2> QED
    BY <1>2, <2>1, ReachSame
<1>4. Alters(nd, nd2, k, v)
  BY <1>2, <1>3, AltersBy
<1>5. Len(nd) + 1 \in 0..Len(nd2) /\ Len(nd) + 1 # 0
  BY <1>1, <1>2
<1>6. Len(nd) + 1 \in Reach(nd2, Len(nd) + 1) /\ Reach(nd2, Len(nd) + 1) \subseteq {Len(nd) + 1}
  <2>1. Reach(nd2, Len(nd) + 1) \subseteq {Len(nd) + 1}
    BY <1>2, NodeApart
  <2> QED
    BY <1>2, <1>5, <2>1, ReachIs
<1>7. ValuesAt(nd2, Len(nd) + 1, k) = {v}
  BY <1>2, <1>5, <1>6, HeldOnce
<1>8. \A j \in Keys \ {k} : ValuesAt(nd2, Len(nd) + 1, j) = {}
  BY <1>2, <1>6 DEF ValuesAt
<1> QED
  BY <1>2, <1>4, <1>7, <1>8

-----------------------------------------------------------------------------
(* Where an iteration may stand *)
Level == [table : Caps \cup {Null}, index : Nat]

IsAt(a, n, i, b, z, s) ==
    a = [table |-> n, index |-> i, base |-> b, size |-> z, stack |-> s]

AtTyped(a) ==
    /\ IsAt(a, a.table, a.index, a.base, a.size, a.stack)
    /\ a.table \in Caps \cup {Null} /\ a.index \in Nat /\ a.base \in Nat /\ a.size \in Nat
    /\ a.stack \in Seq(Level)

LEMMA AtIndex ==
    ASSUME NEW a, NEW n, NEW i, NEW b, NEW z, NEW s, IsAt(a, n, i, b, z, s), NEW x
    PROVE  IsAt([a EXCEPT !.index = x], n, x, b, z, s)
  BY DEF IsAt

LEMMA AtTable ==
    ASSUME NEW a, NEW n, NEW i, NEW b, NEW z, NEW s, IsAt(a, n, i, b, z, s), NEW x
    PROVE  IsAt([a EXCEPT !.table = x], x, i, b, z, s)
  BY DEF IsAt

LEMMA AtBase ==
    ASSUME NEW a, NEW n, NEW i, NEW b, NEW z, NEW s, IsAt(a, n, i, b, z, s), NEW x
    PROVE  IsAt([a EXCEPT !.base = x], n, i, x, z, s)
  BY DEF IsAt

LEMMA AtStack ==
    ASSUME NEW a, NEW n, NEW i, NEW b, NEW z, NEW s, IsAt(a, n, i, b, z, s), NEW x
    PROVE  IsAt([a EXCEPT !.stack = x], n, i, b, z, x)
  BY DEF IsAt

LEMMA AtIs ==
    ASSUME NEW a, NEW n \in Caps \cup {Null}, NEW i \in Nat, NEW b \in Nat, NEW z \in Nat,
           NEW s \in Seq(Level), IsAt(a, n, i, b, z, s)
    PROVE  AtTyped(a)
  BY DEF AtTyped, IsAt

LEMMA WalkFromTyped ==
    ASSUME NEW n \in Caps \cup {Null}
    PROVE  AtTyped(WalkFrom(n))
<1>1. n \in Nat /\ <<>> \in Seq(Level) /\ 0 \in Nat
  BY Arithmetic, EmptySeq
<1>2. IsAt(WalkFrom(n), n, 0, 0, n, <<>>)
  BY DEF IsAt, WalkFrom
<1> QED
  BY <1>1, <1>2, AtIs

LEMMA IndexTyped ==
    ASSUME NEW a, AtTyped(a), NEW i \in Nat
    PROVE  AtTyped([a EXCEPT !.index = i])
<1>1. IsAt([a EXCEPT !.index = i], a.table, i, a.base, a.size, a.stack)
  BY AtIndex DEF AtTyped
<1> QED
  BY <1>1, AtIs DEF AtTyped

(* The levels an iteration has come down through, from where it is *)
LEMMA LevelsTyped ==
    ASSUME NEW n \in Caps \cup {Null}, NEW i \in Nat, NEW s \in Seq(Level)
    PROVE  <<[table |-> n, index |-> i]>> \o s \in Seq(Level)
<1> DEFINE e == [table |-> n, index |-> i]
<1>1. e \in Level
  BY DEF Level
<1> HIDE DEF e
<1>2. <<e>> \in Seq(Level)
  BY <1>1
<1>3. <<e>> \o s \in Seq(Level)
  BY <1>2, ConcatProperties
<1> QED
  BY <1>3 DEF e

LEMMA DescendTyped ==
    ASSUME NEW a, AtTyped(a), NEW next \in Caps \cup {Null}
    PROVE  AtTyped(Descend(a, next))
<1> DEFINE s == <<[table |-> a.table, index |-> a.index]>> \o a.stack
           c == [a EXCEPT !.table = next]
<1>1. s \in Seq(Level)
  BY LevelsTyped DEF AtTyped
<1>2. IsAt(c, next, a.index, a.base, a.size, a.stack)
  BY AtTable DEF AtTyped
<1>3. Descend(a, next) = [c EXCEPT !.stack = s]
  BY DEF Descend
<1> HIDE DEF c, s
<1>4. IsAt([c EXCEPT !.stack = s], next, a.index, a.base, a.size, s)
  BY <1>2, AtStack
<1> QED
  BY <1>1, <1>3, <1>4, AtIs DEF AtTyped

LEMMA AdvanceTyped ==
    ASSUME NEW a, AtTyped(a)
    PROVE  AtTyped(Advance(a))
<1> DEFINE levels == <<[table |-> a.table, index |-> a.index]>> \o a.stack
           Shorter(j) == IF j = Len(levels) THEN a.size ELSE levels[j + 1].table
           Next0(j) == levels[j].index + Shorter(j)
           open == {j \in DOMAIN levels : Next0(j) < levels[j].table}
           j0 == Min(open)
           c == [a EXCEPT !.table = levels[Len(levels)].table, !.stack = <<>>,
                          !.base = @ + 1, !.index = a.base + 1]
           d == [a EXCEPT !.table = levels[j0].table, !.index = Next0(j0),
                          !.stack = SubSeq(levels, j0 + 1, Len(levels))]
<1>1. Advance(a) = IF open = {} THEN c ELSE d
  BY DEF Advance
<1>2. levels \in Seq(Level)
  BY LevelsTyped DEF AtTyped
<1>3. Len(levels) \in Nat /\ Len(levels) > 0
  <2> DEFINE e == [table |-> a.table, index |-> a.index]
  <2>1. e \in Level
    BY DEF Level, AtTyped
  <2> HIDE DEF e
  <2>2. <<e>> \in Seq(Level) /\ Len(<<e>>) = 1 /\ a.stack \in Seq(Level)
    BY <2>1 DEF AtTyped
  <2>3. Len(<<e>> \o a.stack) = 1 + Len(a.stack) /\ Len(a.stack) \in Nat
    BY <2>2, ConcatProperties, LenProperties
  <2>4. 1 + Len(a.stack) \in Nat /\ 1 + Len(a.stack) > 0
    BY <2>3
  <2> QED
    BY <2>3, <2>4 DEF e
<1>4. DOMAIN levels = 1..Len(levels)
  BY <1>2, LenProperties
<1> HIDE DEF levels
<1>5. \A j \in 1..Len(levels) : levels[j].table \in Caps \cup {Null} /\ levels[j].index \in Nat
  <2> SUFFICES ASSUME NEW j \in 1..Len(levels)
               PROVE  levels[j].table \in Caps \cup {Null} /\ levels[j].index \in Nat
    OBVIOUS
  <2>1. levels[j] \in Level
    BY <1>2, ElementOfSeq
  <2> HIDE DEF Shorter, Next0, open, j0, c, d
  <2> QED
    BY <2>1 DEF Level
<1>6. CASE open = {}
  <2> DEFINE n == levels[Len(levels)].table
             c1 == [a EXCEPT !.table = n]
             c2 == [c1 EXCEPT !.stack = <<>>]
             c3 == [c2 EXCEPT !.base = a.base + 1]
  <2>1. n \in Caps \cup {Null}
    BY <1>3, <1>5
  <2>2. c = [c3 EXCEPT !.index = a.base + 1]
    <3>1. c2.base = a.base
      BY DEF AtTyped, IsAt
    <3> QED
      BY <3>1
  <2>3. IsAt(c1, n, a.index, a.base, a.size, a.stack)
    BY AtTable DEF AtTyped
  <2> HIDE DEF c1, n
  <2>4. IsAt(c2, n, a.index, a.base, a.size, <<>>)
    BY <2>3, AtStack
  <2> HIDE DEF c2
  <2>5. IsAt(c3, n, a.index, a.base + 1, a.size, <<>>)
    BY <2>4, AtBase
  <2> HIDE DEF c3, c
  <2>6. IsAt(c, n, a.base + 1, a.base + 1, a.size, <<>>)
    <3>1. IsAt([c3 EXCEPT !.index = a.base + 1], n, a.base + 1, a.base + 1, a.size, <<>>)
      BY <2>5, AtIndex
    <3> QED
      BY <2>2, <3>1
  <2>7. <<>> \in Seq(Level) /\ a.base + 1 \in Nat /\ a.size \in Nat
    BY EmptySeq DEF AtTyped
  <2> QED
    BY <1>1, <1>6, <2>1, <2>6, <2>7, AtIs
<1>7. CASE open # {}
  <2>1. open \in SUBSET Nat
    BY <1>4
  <2>2. j0 \in open
    <3>1. \E x \in open : \A y \in open : x <= y
      BY <1>7, <2>1, LeastNat
    <3> QED
      BY <3>1 DEF Min
  <2>3. j0 \in 1..Len(levels)
    BY <1>4, <2>2
  <2> HIDE DEF open, j0
  <2>4. Next0(j0) \in Nat
    <3>1. Shorter(j0) \in Nat
      <4>1. j0 # Len(levels) => j0 + 1 \in 1..Len(levels)
        BY <1>3, <2>3
      <4>2. j0 # Len(levels) => levels[j0 + 1].table \in Nat
        BY <1>5, <4>1, Arithmetic
      <4> QED
        BY <4>2 DEF AtTyped
    <3> HIDE DEF Shorter
    <3> QED
      BY <1>5, <2>3, <3>1
  <2> DEFINE n == levels[j0].table
             i == Next0(j0)
             s == SubSeq(levels, j0 + 1, Len(levels))
             c1 == [a EXCEPT !.table = n]
             c2 == [c1 EXCEPT !.index = i]
  <2>5. d = [c2 EXCEPT !.stack = s]
    OBVIOUS
  <2>6. n \in Caps \cup {Null} /\ i \in Nat
    BY <1>5, <2>3, <2>4
  <2>7. s \in Seq(Level)
    <3>1. \A j \in (j0 + 1)..Len(levels) : levels[j] \in Level
      <4>1. \A j \in (j0 + 1)..Len(levels) : j \in 1..Len(levels)
        BY <1>3, <2>3
      <4> QED
        BY <1>2, <4>1, ElementOfSeq
    <3>2. j0 + 1 \in Nat /\ j0 + 1 >= 1 /\ Len(levels) <= Len(levels)
      BY <1>3, <2>3
    <3> QED
      BY <1>2, <1>3, <3>1, <3>2, SubSeqProperties
  <2>8. IsAt(c1, n, a.index, a.base, a.size, a.stack)
    BY AtTable DEF AtTyped
  <2> HIDE DEF c1, n, i, s
  <2>9. IsAt(c2, n, i, a.base, a.size, a.stack)
    BY <2>8, AtIndex
  <2> HIDE DEF c2, d
  <2>10. IsAt(d, n, i, a.base, a.size, s)
    <3>1. IsAt([c2 EXCEPT !.stack = s], n, i, a.base, a.size, s)
      BY <2>9, AtStack
    <3> QED
      BY <2>5, <3>1
  <2>11. a.base \in Nat /\ a.size \in Nat
    BY DEF AtTyped
  <2>12. Advance(a) = d
    BY <1>1, <1>7
  <2> QED
    BY <2>6, <2>7, <2>10, <2>11, <2>12, AtIs
<1> QED
  BY <1>6, <1>7

-----------------------------------------------------------------------------
(* What a thread has of an iteration, or of a clear or retain *)
IsWalk(w, a, m, r, s) == w = [at |-> a, met |-> m, removed |-> r, sight |-> s]

LEMMA AtStored ==
    ASSUME NEW wk, NEW t \in DOMAIN wk, NEW a, NEW m, NEW r, NEW s, IsWalk(wk[t], a, m, r, s),
           NEW x
    PROVE  IsWalk([wk EXCEPT ![t].at = x][t], x, m, r, s)
<1> DEFINE w == wk[t]
<1>1. w = [at |-> a, met |-> m, removed |-> r, sight |-> s]
  BY DEF IsWalk
<1>2. [wk EXCEPT ![t].at = x][t] = [w EXCEPT !.at = x]
  OBVIOUS
<1> HIDE DEF w
<1> QED
  BY <1>1, <1>2 DEF IsWalk

LEMMA MetStored ==
    ASSUME NEW wk, NEW t \in DOMAIN wk, NEW a, NEW m, NEW r, NEW s, IsWalk(wk[t], a, m, r, s),
           NEW x
    PROVE  IsWalk([wk EXCEPT ![t].met = x][t], a, x, r, s)
<1> DEFINE w == wk[t]
<1>1. w = [at |-> a, met |-> m, removed |-> r, sight |-> s]
  BY DEF IsWalk
<1>2. [wk EXCEPT ![t].met = x][t] = [w EXCEPT !.met = x]
  OBVIOUS
<1> HIDE DEF w
<1> QED
  BY <1>1, <1>2 DEF IsWalk

LEMMA RemovedStored ==
    ASSUME NEW wk, NEW t \in DOMAIN wk, NEW a, NEW m, NEW r, NEW s, IsWalk(wk[t], a, m, r, s),
           NEW x
    PROVE  IsWalk([wk EXCEPT ![t].removed = x][t], a, m, x, s)
<1> DEFINE w == wk[t]
<1>1. w = [at |-> a, met |-> m, removed |-> r, sight |-> s]
  BY DEF IsWalk
<1>2. [wk EXCEPT ![t].removed = x][t] = [w EXCEPT !.removed = x]
  OBVIOUS
<1> HIDE DEF w
<1> QED
  BY <1>1, <1>2 DEF IsWalk

LEMMA SightStored ==
    ASSUME NEW wk, NEW t \in DOMAIN wk, NEW a, NEW m, NEW r, NEW s, IsWalk(wk[t], a, m, r, s),
           NEW x
    PROVE  IsWalk([wk EXCEPT ![t].sight = x][t], a, m, r, x)
<1> DEFINE w == wk[t]
<1>1. w = [at |-> a, met |-> m, removed |-> r, sight |-> s]
  BY DEF IsWalk
<1>2. [wk EXCEPT ![t].sight = x][t] = [w EXCEPT !.sight = x]
  OBVIOUS
<1> HIDE DEF w
<1> QED
  BY <1>1, <1>2 DEF IsWalk

LEMMA IndexStored ==
    ASSUME NEW wk, NEW t \in DOMAIN wk, NEW a, NEW m, NEW r, NEW s, IsWalk(wk[t], a, m, r, s),
           NEW x
    PROVE  IsWalk([wk EXCEPT ![t].at.index = x][t], [a EXCEPT !.index = x], m, r, s)
<1> DEFINE b == [a EXCEPT !.index = x]
<1>1. wk[t].at = a
  BY DEF IsWalk
<1>2. [wk EXCEPT ![t].at.index = x] = [wk EXCEPT ![t].at = b]
  BY <1>1
<1> HIDE DEF b
<1>3. IsWalk([wk EXCEPT ![t].at = b][t], b, m, r, s)
  BY AtStored
<1> QED
  BY <1>2, <1>3 DEF b

-----------------------------------------------------------------------------
(* The types of the map *)

Keyed == {"get", "remove", "insert", "try_insert", "compute_if_present"}

CallTyped(c) ==
    /\ c.op \in Keyed \cup {"none", "iter", "clear"} \cup Retains
    /\ c.op \in Keyed => c.key \in Keys
    /\ c.op \in {"insert", "try_insert"} => c.val \in Values
    /\ c.op = "compute_if_present" => c.val \in Values \cup {None}

WalkTyped(w) ==
    /\ IsWalk(w, w.at, w.met, w.removed, w.sight)
    /\ AtTyped(w.at) /\ w.removed \in Nat
    /\ w.sight.node \in 0..Len(node)
    /\ w.sight.node # 0 => w.sight.key \in Keys

(* What the place in a call says of the call. *)
Control(t) ==
    /\ opc[t] = "idle" <=> call[t].op = "none"
    /\ Removing(t) => call[t].op \in Retains
    /\ opc[t] \in {"Bin", "Cas", "Lock"} => Op(t) \in Keyed
    /\ opc[t] \in {"Node", "Value", "Lock", "WalkOn", "Look"} => cur[t] # 0
    /\ opc[t] \in {"Cas", "Lock"} => tab[t] # Null /\ pc[t] = "idle"
    /\ opc[t] \in {"Cas", "Treeify"} => Op(t) \in {"insert", "try_insert"}
    /\ opc[t] = "Count" => Op(t) \in (Keyed \ {"get"}) \cup {"clear"}
    /\ opc[t] \in {"Walk", "WalkOn"} => call[t].op \in Walkers
    /\ opc[t] = "Look" => call[t].op \in Retains
    /\ opc[t] \in {"Clear", "ClearLock"} => call[t].op = "clear"

Plans == [head : 0..Len(node), low : 0..Len(node), high : 0..Len(node),
          stage : {"none", "low", "high", "moved"}]

HeapTyped ==
    /\ Linked(node) /\ Ranked(node)
    /\ DOMAIN bins = Caps /\ \A n \in Caps : bins[n] \in [0..(n - 1) -> 0..Len(node)]
    /\ locked \subseteq 1..Len(node)
    /\ plan \in [Threads -> Plans]
    /\ cur \in [Threads -> 0..Len(node)]

LocalsTyped(t) == CallTyped(call[t]) /\ WalkTyped(walk[t]) /\ Control(t)

Domains == DOMAIN call = Threads /\ DOMAIN opc = Threads /\ DOMAIN walk = Threads

MapTyped == HeapTyped /\ Domains /\ \A t \in Threads : LocalsTyped(t)

USE CapsAssumption, HashAssumption
USE DEF Null, Keyed, Retains, Walkers

LEMMA CallsTyped ==
    ASSUME NEW c \in Abstract!Calls \cup {[op |-> "iter"]}
    PROVE  CallTyped(c) /\ c.op # "none"
<1>1. CASE c \in [op : {"get", "remove"}, key : Keys]
  BY <1>1 DEF CallTyped
<1>2. CASE c \in [op : {"insert", "try_insert"}, key : Keys, val : Values]
  BY <1>2 DEF CallTyped
<1>3. CASE c \in [op : {"compute_if_present"}, key : Keys, val : Values \cup {None}]
  BY <1>3 DEF CallTyped
<1>4. CASE c \in [op : {"clear"}]
  BY <1>4 DEF CallTyped
<1>5. CASE c \in [op : {"retain", "retain_force"}, val : Values]
  BY <1>5 DEF CallTyped
<1>6. CASE c = [op |-> "iter"]
  BY <1>6 DEF CallTyped
<1> QED
  BY <1>1, <1>2, <1>3, <1>4, <1>5, <1>6 DEF Abstract!Calls

(* The key of a call, and of the removal of an entry by retain *)
LEMMA KeyTyped ==
    ASSUME MapTyped, NEW t \in Threads, Op(t) \in Keyed
    PROVE  Key(t) \in Keys
  BY DEF MapTyped, LocalsTyped, CallTyped, WalkTyped, Op, Key, Removing

LEMMA BiniTyped ==
    ASSUME NEW k \in Keys, NEW n \in Caps
    PROVE  Bini(k, n) \in 0..(n - 1)
<1>1. Hash[k] \in Nat /\ n \in Nat /\ n > 0
  OBVIOUS
<1> QED
  BY <1>1 DEF Bini

LEMMA BinTyped ==
    ASSUME MapTyped, IInv, NEW t \in Threads, Op(t) \in Keyed, tab[t] # Null
    PROVE  /\ tab[t] \in Caps /\ Bini(Key(t), tab[t]) \in 0..(tab[t] - 1)
           /\ ThisBin(t) \in 0..Len(node)
<1>1. tab[t] \in Caps
  BY LocalValues DEF IInv, TypeOK
<1>2. Bini(Key(t), tab[t]) \in 0..(tab[t] - 1)
  BY <1>1, KeyTyped, BiniTyped
<1> QED
  BY <1>1, <1>2 DEF ThisBin, MapTyped, HeapTyped

-----------------------------------------------------------------------------
(* A step of one thread *)

MapSame(u) ==
    /\ call'[u] = call[u] /\ opc'[u] = opc[u] /\ cur'[u] = cur[u]
    /\ walk'[u] = walk[u] /\ plan'[u] = plan[u]

AnyStep(t) == MapStep(t) \/ \E c : c \in (Abstract!Calls \cup {[op |-> "iter"]}) /\ Begin(t, c)

LEMMA OperationOthers ==
    ASSUME MapTyped, NEW t \in Threads, Operation(t)
    PROVE  Domains' /\ \A u \in Threads : u # t => MapSame(u)
<1>1. DOMAIN cur = Threads /\ DOMAIN plan = Threads
  BY DEF MapTyped, HeapTyped
<1>2. Domains
  BY DEF MapTyped
<1>3. CASE OpLoadTable(t) \/ OpNoTable(t) \/ OpMovedBin(t) \/ OpEmptyBin(t) \/ OpListBin(t)
  BY <1>1, <1>2, <1>3 DEF Domains, MapSame, OpLoadTable, OpNoTable, OpMovedBin, OpEmptyBin,
     OpListBin, To, Finish, Set, opLocals
<1>4. CASE GetNode(t) \/ LoadValue(t) \/ PutCas(t) \/ OpHeadChanged(t)
  BY <1>1, <1>2, <1>4 DEF Domains, MapSame, GetNode, LoadValue, PutCas, OpHeadChanged,
     To, Finish, Set
<1>5. CASE PutLocked(t) \/ RemoveLocked(t) \/ ComputeLocked(t)
  BY <1>1, <1>2, <1>5 DEF Domains, MapSame, PutLocked, RemoveLocked, ComputeLocked, To, Finish, Set
<1>6. CASE PutTreeify(t) \/ OpCount(t) \/ End(t)
  BY <1>1, <1>2, <1>6 DEF Domains, MapSame, PutTreeify, OpCount, End, To, Set
<1>7. CASE WalkBin(t)
  BY <1>1, <1>2, <1>7 DEF Domains, MapSame, WalkBin, Meets, To, Set
<1>8. CASE WalkOn(t) \/ WalkEnd(t) \/ RetainLook(t) \/ RetainGoOn(t)
  BY <1>1, <1>2, <1>8 DEF Domains, MapSame, WalkOn, Meets, WalkEnd, RetainLook, RetainGoOn, To, Set
<1>9. CASE ClearBin(t) \/ ClearLocked(t) \/ ClearEnd(t)
  BY <1>1, <1>2, <1>9 DEF Domains, MapSame, ClearBin, ClearLocked, ClearEnd, To, Set
<1> QED
  BY <1>3, <1>4, <1>5, <1>6, <1>7, <1>8, <1>9 DEF Operation

(* What the split of a list leaves alone *)
LEMMA SplitLeaves ==
    ASSUME NEW t, TransferSplit(t)
    PROVE  /\ pc[t] = "TransferBin" /\ plan[t] = NoPlan /\ idx[t] \notin moved[tab[t]]
           /\ BinAt(t) # 0 /\ BinAt(t) \notin locked /\ locked' = locked \cup {BinAt(t)}
           /\ UNCHANGED <<resizeVars, bins, walk, call, opc, cur, longBin, result, calls>>
           /\ \E p : plan' = Set(plan, t, p)
  BY Zenon DEF TransferSplit

LEMMA MapOthers ==
    ASSUME MapTyped, NEW t \in Threads, AnyStep(t)
    PROVE  Domains' /\ \A u \in Threads : u # t => MapSame(u)
<1>1. DOMAIN cur = Threads /\ DOMAIN plan = Threads
  BY DEF MapTyped, HeapTyped
<1>2. Domains
  BY DEF MapTyped
<1>3. CASE Transfer(t)
  BY <1>1, <1>2, <1>3, SplitLeaves DEF Transfer, TransferBinMoved, TransferBinForward, TransferEmptyBin,
     TransferStoreLow, TransferStoreHigh, TransferListBin, Domains, MapSame,
     opLocals, heap, Set
<1>4. CASE Routine(t)
  BY <1>1, <1>2, <1>4 DEF Routine, Domains, MapSame, opLocals, heap
<1>5. ASSUME NEW c, Begin(t, c) PROVE Domains' /\ \A u \in Threads : u # t => MapSame(u)
  BY <1>1, <1>2, <1>5 DEF Begin, Domains, MapSame, To, Set
<1> QED
  BY <1>3, <1>4, <1>5, OperationOthers DEF AnyStep, MapStep

(* Of the resize, a step of a call is a step or a call of ResizeCtl, or nothing. *)
LEMMA MapResizes ==
    ASSUME MapTyped, IInv, NEW t \in Threads, AnyStep(t)
    PROVE  Step(t) \/ AnyCall(t) \/ UNCHANGED resizeVars
<1>1. CASE Transfer(t)
  BY <1>1, SplitLeaves DEF Transfer, TransferBinMoved, TransferBinForward, TransferEmptyBin,
     TransferStoreLow, TransferStoreHigh, TransferListBin, Step, TransferBinStep
<1>2. CASE Routine(t)
  BY <1>2 DEF Routine, Step
<1>3. ASSUME NEW c, Begin(t, c) PROVE UNCHANGED resizeVars
  BY <1>3 DEF Begin
<1>4. CASE OpLoadTable(t)
  <2>1. table \in Caps \cup {Null} /\ pc[t] = "idle" /\ tab' = Set(tab, t, table)
    BY <1>4 DEF OpLoadTable, At, IInv, TypeOK, SharedTypes
  <2> QED
    BY <1>4, <2>1 DEF OpLoadTable, AnyCall, SetsTab
<1>5. CASE OpNoTable(t)
  BY <1>5 DEF OpNoTable, AnyCall
<1>6. CASE OpMovedBin(t)
  <2>1. CASE IsUpdate(t)
    BY <1>6, <2>1 DEF OpMovedBin, AnyCall
  <2>2. CASE ~IsUpdate(t)
    <3>1. tab[t] \in Caps /\ pc[t] = "idle"
      BY <1>6, LocalValues DEF OpMovedBin, At, IInv, TypeOK
    <3>2. fwd[tab[t]] \in Caps \cup {Null} /\ table # Null
      BY <1>6, <3>1 DEF OpMovedBin, IInv, TypeOK, SharedTypes, BeforeTable
    <3> QED
      BY <1>6, <2>2, <3>1, <3>2 DEF OpMovedBin, AnyCall, SetsTab
  <2> QED
    BY <2>1, <2>2
<1>7. CASE End(t)
  <2>1. Null \in Caps \cup {Null} /\ pc[t] = "idle"
    BY <1>7 DEF End, At
  <2> QED
    BY <1>7, <2>1 DEF End, AnyCall, SetsTab
<1>8. CASE PutTreeify(t)
  <2>1. 2 * tab[t] \in Nat
    BY LocalValues DEF IInv, TypeOK
  <2> QED
    BY <1>8, <2>1 DEF PutTreeify, AnyCall
<1>9. CASE OpCount(t)
  <2>1. opc[t] = "Count"
    BY <1>9 DEF OpCount, At
  <2>2. Op(t) \in {"remove", "insert", "try_insert", "compute_if_present", "clear"}
    <3>1. opc[t] = "Count" => Op(t) \in (Keyed \ {"get"}) \cup {"clear"}
      BY Zenon DEF MapTyped, LocalsTyped, Control
    <3> QED
      BY <2>1, <3>1 DEF Keyed
  <2>3. walk[t].removed \in Nat
    BY DEF MapTyped, LocalsTyped, WalkTyped
  <2>4. \E d \in Int, hint \in BOOLEAN : CallAddCount(t, d, hint)
    <3>1. 1 \in Int /\ -1 \in Int /\ -walk[t].removed \in Int
      BY <2>3
    <3> QED
      BY <1>9, <2>2, <3>1 DEF OpCount
  <2>5. count' \in CountRange
    BY <1>9 DEF OpCount
  <2> QED
    BY <2>4, <2>5 DEF AnyCall, CallAddCount
<1>10. CASE ClearBin(t)
  BY <1>10 DEF ClearBin, AnyCall
<1>11. CASE OpEmptyBin(t) \/ OpListBin(t) \/ GetNode(t) \/ LoadValue(t) \/ PutCas(t) \/ OpHeadChanged(t)
            \/ PutLocked(t) \/ RemoveLocked(t) \/ ComputeLocked(t) \/ WalkBin(t) \/ WalkOn(t)
            \/ WalkEnd(t) \/ RetainLook(t) \/ RetainGoOn(t) \/ ClearLocked(t) \/ ClearEnd(t)
  BY <1>11 DEF OpEmptyBin, OpListBin, GetNode, LoadValue, PutCas, OpHeadChanged, PutLocked,
     RemoveLocked, ComputeLocked, WalkBin, WalkOn, WalkEnd, RetainLook, RetainGoOn, ClearLocked, ClearEnd
<1> QED
  BY <1>1, <1>2, <1>3, <1>4, <1>5, <1>6, <1>7, <1>8, <1>9, <1>10, <1>11 DEF AnyStep, MapStep, Operation

LEMMA MapIInv ==
    ASSUME MapTyped, IInv, NEW t \in Threads, AnyStep(t)
    PROVE  IInv'
<1>1. CASE UNCHANGED resizeVars
  <2>1. [Next]_resizeVars
    BY <1>1
  <2> QED
    BY <2>1, NextIInv
<1>2. CASE AnyCall(t)
  BY <1>2, CallInv
<1>3. CASE Step(t)
  <2>1. [Next]_resizeVars
    BY <1>3 DEF Next
  <2> QED
    BY <2>1, NextIInv
<1> QED
  BY <1>1, <1>2, <1>3, MapResizes

USE DEF heap, opLocals, shared, loop, locals, resizeVars

(* No step of the routines is one of a bin, or counts. *)
LEMMA RoutineLeaves ==
    ASSUME NEW t, Routine(t)
    PROVE  pc[t] # "TransferBin" /\ count' = count /\ UNCHANGED <<heap, plan>>
<1>1. UNCHANGED <<heap, plan>>
  BY DEF Routine
<1>2. pc[t] # "TransferBin" /\ count' = count
  BY DEF Routine, InitTable, InitLoadTable, InitLoadSizeCtl, InitClaim, InitRecheck,
     InitStoreTable, InitStoreSizeCtl, AddCount, AddLoadSizeCtl, AddLoadTable, AddLoadNext,
     AddLoadIndex, AddJoin, AddStart, AddReload, HelpTransfer, HelpForward, HelpCheckNext,
     HelpCheckTable, HelpLoadSizeCtl, HelpLoadIndex, HelpJoin, TryPresize, PresizeLoad,
     PresizeLoadTable, PresizeClaim, PresizeRecheck, PresizeStoreTable, PresizeStoreSizeCtl,
     PresizeCheckTable, PresizeStart, TransferLoop, TransferAllocate, TransferOpen,
     TransferLoadNext, TransferAdvance, TransferClaim, TransferLoadSizeCtl, TransferDone,
     TransferClearNext, TransferSwap, TransferCommit
<1> QED
  BY <1>1, <1>2

-----------------------------------------------------------------------------
(* The types after a step *)

LEMMA LenTyped ==
    ASSUME HeapTyped
    PROVE  Len(node) \in Nat /\ DOMAIN node = 1..Len(node)
  BY LinkedIs DEF HeapTyped

LEMMA HeapSame ==
    ASSUME HeapTyped, UNCHANGED <<heap, plan>>, cur' \in [Threads -> 0..Len(node)]
    PROVE  HeapTyped' /\ Len(node') = Len(node)
<1>1. bins' = bins /\ node' = node /\ locked' = locked /\ plan' = plan
  OBVIOUS
<1>2. Len(node') = Len(node) /\ Plans' = Plans
  BY <1>1 DEF Plans
<1>3. Linked(node)' /\ Ranked(node)'
  BY <1>1 DEF HeapTyped, Linked, Ranked
<1> QED
  BY <1>1, <1>2, <1>3 DEF HeapTyped

LEMMA WalkSame ==
    ASSUME NEW t, WalkTyped(walk[t]), walk'[t] = walk[t], Len(node) \in Nat, Len(node') \in Nat,
           Len(node) <= Len(node')
    PROVE  WalkTyped(walk[t])'
<1>1. \A j \in 0..Len(node) : j \in 0..Len(node')
  OBVIOUS
<1> QED
  BY <1>1 DEF WalkTyped, IsWalk, AtTyped, IsAt

LEMMA OpSame ==
    ASSUME NEW t, call'[t] = call[t], walk'[t].sight = walk[t].sight
    PROVE  /\ Op(t)' = Op(t) /\ Key(t)' = Key(t)
           /\ Removing(t)' <=> Removing(t)
           /\ IsUpdate(t)' <=> IsUpdate(t)
  BY DEF Op, Key, Removing, IsUpdate

(* What it takes to go to place l of a call with node c *)
Fits(t, l, c) ==
    /\ c \in 0..Len(node) /\ l # "idle"
    /\ l \in {"Bin", "Cas", "Lock"} => Op(t) \in Keyed
    /\ l \in {"Node", "Value", "Lock", "WalkOn", "Look"} => c # 0
    /\ l \in {"Cas", "Treeify"} => Op(t) \in {"insert", "try_insert"}
    /\ l = "Count" => Op(t) \in (Keyed \ {"get"}) \cup {"clear"}
    /\ l \in {"Walk", "WalkOn"} => call[t].op \in Walkers
    /\ l = "Look" => call[t].op \in Retains
    /\ l \in {"Clear", "ClearLock"} => call[t].op = "clear"

LEMMA Goes ==
    ASSUME MapTyped, NEW t \in Threads, NEW l, NEW c, To(t, l, c), Fits(t, l, c), opc[t] # "idle",
           call'[t] = call[t], walk'[t].sight = walk[t].sight,
           l \in {"Cas", "Lock"} => tab'[t] # Null /\ pc'[t] = "idle"
    PROVE  /\ cur' \in [Threads -> 0..Len(node)]
           /\ Control(t)' /\ CallTyped(call[t])'
<1>1. cur \in [Threads -> 0..Len(node)] /\ Domains /\ Control(t) /\ CallTyped(call[t])
  BY DEF MapTyped, HeapTyped, LocalsTyped
<1>2. opc'[t] = l /\ cur'[t] = c
  BY <1>1 DEF To, Set, Domains
<1>3. cur' \in [Threads -> 0..Len(node)]
  BY <1>1 DEF To, Set, Fits
<1>4. CallTyped(call[t])'
  BY <1>1 DEF CallTyped
<1>5. Control(t)'
  BY <1>1, <1>2, OpSame DEF Control, Fits
<1> QED
  BY <1>3, <1>4, <1>5

LEMMA Stays ==
    ASSUME MapTyped, NEW t \in Threads, UNCHANGED <<opc, cur>>,
           call'[t] = call[t], walk'[t].sight = walk[t].sight,
           opc[t] \in {"Cas", "Lock"} => tab'[t] # Null /\ pc'[t] = "idle"
    PROVE  /\ cur' \in [Threads -> 0..Len(node)]
           /\ Control(t)' /\ CallTyped(call[t])'
<1>1. cur \in [Threads -> 0..Len(node)] /\ Domains /\ Control(t) /\ CallTyped(call[t])
  BY DEF MapTyped, HeapTyped, LocalsTyped
<1>2. CallTyped(call[t])'
  BY <1>1 DEF CallTyped
<1>3. Control(t)'
  BY <1>1, OpSame DEF Control
<1> QED
  BY <1>1, <1>2, <1>3

LEMMA OthersTyped ==
    ASSUME MapTyped, IInv, NEW t \in Threads, AnyStep(t), NEW u \in Threads, u # t,
           Len(node') \in Nat, Len(node) <= Len(node')
    PROVE  LocalsTyped(u)'
<1>1. MapSame(u) /\ LocalsTyped(u) /\ Len(node) \in Nat
  BY MapOthers, LenTyped DEF MapTyped
<1>2. pc'[u] = pc[u] /\ tab'[u] = tab[u]
  <2>1. CASE UNCHANGED resizeVars
    BY <2>1
  <2>2. CASE Step(t) \/ AnyCall(t)
    <3>1. Elsewhere(t)
      BY <2>2, OthersSame DEF IInv, TypeOK
    <3> QED
      BY <3>1 DEF Elsewhere, Same
  <2> QED
    BY <2>1, <2>2, MapResizes
<1>3. CallTyped(call[u])'
  BY <1>1 DEF LocalsTyped, CallTyped, MapSame
<1>4. WalkTyped(walk[u])'
  BY <1>1, WalkSame DEF LocalsTyped, MapSame
<1>5. Control(u)'
  <2>1. Control(u) /\ call'[u] = call[u] /\ walk'[u].sight = walk[u].sight /\ opc'[u] = opc[u]
        /\ cur'[u] = cur[u]
    BY <1>1 DEF LocalsTyped, MapSame
  <2> QED
    BY <1>2, <2>1, OpSame DEF Control
<1> QED
  BY <1>3, <1>4, <1>5 DEF LocalsTyped

LEMMA MapTypedNext ==
    ASSUME MapTyped, IInv, NEW t \in Threads, AnyStep(t), HeapTyped', LocalsTyped(t)',
           Len(node) <= Len(node')
    PROVE  MapTyped'
<1>1. Domains'
  BY MapOthers
<1>2. Len(node') \in Nat
  BY LinkedIs DEF HeapTyped
<1>3. ASSUME NEW u \in Threads PROVE LocalsTyped(u)'
  BY <1>2, OthersTyped
<1> QED
  BY <1>1, <1>3 DEF MapTyped

(* A step that leaves the heap alone and goes, or stays, somewhere. *)
LEMMA GoesTyped ==
    ASSUME MapTyped, IInv, NEW t \in Threads, AnyStep(t), UNCHANGED <<heap, plan>>, opc[t] # "idle",
           UNCHANGED <<call, walk>>, NEW l, NEW c, To(t, l, c), Fits(t, l, c),
           l \in {"Cas", "Lock"} => tab'[t] # Null /\ pc'[t] = "idle"
    PROVE  MapTyped'
<1>1. HeapTyped /\ WalkTyped(walk[t]) /\ Len(node) \in Nat
  BY LenTyped DEF MapTyped, LocalsTyped
<1>2. /\ cur' \in [Threads -> 0..Len(node)]
      /\ Control(t)' /\ CallTyped(call[t])'
  BY Goes
<1>3. HeapTyped' /\ Len(node') = Len(node)
  BY <1>1, <1>2, HeapSame
<1>4. WalkTyped(walk[t])'
  BY <1>1, <1>3, WalkSame
<1> QED
  BY <1>1, <1>2, <1>3, <1>4, MapTypedNext DEF LocalsTyped

LEMMA WalksTyped ==
    ASSUME MapTyped, IInv, NEW t \in Threads, AnyStep(t), UNCHANGED <<heap, plan>>, opc[t] # "idle",
           UNCHANGED call, NEW l, NEW c, (To(t, l, c) /\ Fits(t, l, c)) \/ UNCHANGED <<opc, cur>>,
           l \notin {"Cas", "Lock"},
           opc[t] \notin {"Cas", "Lock"},
           WalkTyped(walk'[t]), walk'[t].sight = walk[t].sight
    PROVE  MapTyped'
<1>1. HeapTyped /\ Len(node) \in Nat
  BY LenTyped DEF MapTyped
<1>2. /\ cur' \in [Threads -> 0..Len(node)]
      /\ Control(t)' /\ CallTyped(call[t])'
  BY Goes, Stays
<1>3. HeapTyped' /\ Len(node') = Len(node)
  BY <1>1, <1>2, HeapSame
<1>4. WalkTyped(walk[t])'
  BY <1>3 DEF WalkTyped
<1> QED
  BY <1>1, <1>2, <1>3, <1>4, MapTypedNext DEF LocalsTyped

LEMMA StaysTyped ==
    ASSUME MapTyped, IInv, NEW t \in Threads, AnyStep(t), UNCHANGED <<heap, plan, opc, cur, call, walk>>,
           opc[t] \in {"Cas", "Lock"} => tab'[t] # Null /\ pc'[t] = "idle"
    PROVE  MapTyped'
<1>1. HeapTyped /\ WalkTyped(walk[t]) /\ Len(node) \in Nat
  BY LenTyped DEF MapTyped, LocalsTyped
<1>2. /\ cur' \in [Threads -> 0..Len(node)]
      /\ Control(t)' /\ CallTyped(call[t])'
  BY Stays
<1>3. HeapTyped' /\ Len(node') = Len(node)
  BY <1>1, <1>2, HeapSame
<1>4. WalkTyped(walk[t])'
  BY <1>1, <1>3, WalkSame
<1> QED
  BY <1>1, <1>2, <1>3, <1>4, MapTypedNext DEF LocalsTyped

-----------------------------------------------------------------------------
(* The steps that leave the heap alone *)

(* What the types say of a call at one of its places *)
LEMMA PlaceTyped ==
    ASSUME MapTyped, NEW t \in Threads
    PROVE  /\ Control(t) /\ CallTyped(call[t]) /\ WalkTyped(walk[t])
           /\ HeapTyped /\ Len(node) \in Nat /\ cur[t] \in 0..Len(node)
           /\ Op(t) \in Keyed \cup {"none", "iter", "clear"} \cup Retains
           /\ opc[t] # "idle" => Op(t) # "none"
           /\ Op(t) # "remove" => Op(t) = call[t].op /\ ~Removing(t)
           /\ cur[t] # 0 => /\ node[cur[t]].next \in 0..Len(node)
                            /\ node[cur[t]].key \in Keys
<1>1. Control(t) /\ CallTyped(call[t]) /\ WalkTyped(walk[t]) /\ HeapTyped /\ Len(node) \in Nat
      /\ cur[t] \in 0..Len(node)
  BY LenTyped DEF MapTyped, LocalsTyped, HeapTyped
<1>2. /\ Op(t) \in Keyed \cup {"none", "iter", "clear"} \cup Retains
      /\ opc[t] # "idle" => Op(t) # "none"
      /\ Op(t) # "remove" => Op(t) = call[t].op /\ ~Removing(t)
  BY <1>1 DEF Op, CallTyped, Control
<1>3. cur[t] # 0 => cur[t] \in 1..Len(node)
  BY <1>1
<1> QED
  BY <1>1, <1>2, <1>3 DEF HeapTyped, Linked

LEMMA BeginTyped ==
    ASSUME MapTyped, IInv, NEW t \in Threads, AnyStep(t),
           NEW c \in Abstract!Calls \cup {[op |-> "iter"]}, Begin(t, c)
    PROVE  MapTyped'
<1>1. CallTyped(c) /\ c.op # "none"
  BY CallsTyped
<1>2. HeapTyped /\ Control(t) /\ WalkTyped(walk[t]) /\ Len(node) \in Nat /\ Domains
  BY PlaceTyped DEF MapTyped
<1>3. call'[t] = c /\ opc'[t] = "Table" /\ cur'[t] = 0 /\ walk'[t] = walk[t]
      /\ cur' \in [Threads -> 0..Len(node)]
  BY <1>2 DEF Begin, To, Set, Domains, HeapTyped
<1>4. ~Removing(t)
  BY <1>2 DEF Begin, At, Control
<1>5. CallTyped(call[t])'
  BY <1>1, <1>3 DEF CallTyped
<1>6. Control(t)'
  BY <1>1, <1>3, <1>4 DEF Control, Removing
<1>7. HeapTyped' /\ Len(node') = Len(node)
  BY <1>2, <1>3, HeapSame DEF Begin
<1>8. WalkTyped(walk[t])'
  BY <1>2, <1>3, <1>7, WalkSame
<1> QED
  BY <1>2, <1>5, <1>6, <1>7, <1>8, MapTypedNext DEF LocalsTyped

LEMMA LoadTableTyped ==
    ASSUME MapTyped, IInv, NEW t \in Threads, AnyStep(t), OpLoadTable(t)
    PROVE  MapTyped'
<1>1. /\ WalkTyped(walk[t]) /\ Len(node) \in Nat
      /\ Op(t) \in Keyed \cup {"none", "iter", "clear"} \cup Retains
      /\ Op(t) # "none" /\ opc[t] = "Table" /\ t \in DOMAIN walk
      /\ Op(t) # "remove" => Op(t) = call[t].op
  BY PlaceTyped DEF OpLoadTable, At, MapTyped, Domains
<1>2. WalkTyped(walk'[t]) /\ walk'[t].sight = walk[t].sight
  <2>1. CASE Op(t) \in Walkers
    <3>1. table \in Caps \cup {Null}
      BY DEF IInv, TypeOK, SharedTypes
    <3>2. AtTyped(WalkFrom(table))
      BY <3>1, WalkFromTyped
    <3> DEFINE a == WalkFrom(table)
    <3>3. walk' = [walk EXCEPT ![t].at = a]
      BY <2>1 DEF OpLoadTable
    <3> HIDE DEF a
    <3>4. IsWalk(walk'[t], a, walk[t].met, walk[t].removed, walk[t].sight)
      BY <1>1, <3>3, AtStored DEF WalkTyped
    <3> QED
      BY <1>1, <3>2, <3>4 DEF WalkTyped, IsWalk, a
  <2>2. CASE Op(t) \notin Walkers
    BY <1>1, <2>2 DEF OpLoadTable
  <2> QED
    BY <2>1, <2>2
<1>3. \E l : To(t, l, 0) /\ Fits(t, l, 0) /\ l \notin {"Cas", "Lock"}
  <2>1. CASE table = Null /\ Op(t) \in {"get", "remove", "clear"} \cup Walkers
    <3>1. To(t, "Done", 0) /\ Fits(t, "Done", 0)
      BY <1>1, <2>1 DEF OpLoadTable, Finish, Fits
    <3> QED
      BY <3>1
  <2>2. CASE ~(table = Null /\ Op(t) \in {"get", "remove", "clear"} \cup Walkers)
    <3> DEFINE l == CASE Op(t) \in Walkers -> "Walk" [] Op(t) = "clear" -> "Clear" [] OTHER -> "Bin"
    <3>1. To(t, l, 0)
      BY <2>2 DEF OpLoadTable
    <3>2. \/ l = "Walk" /\ Op(t) \in Walkers
          \/ l = "Clear" /\ Op(t) = "clear"
          \/ l = "Bin" /\ Op(t) \in Keyed
      BY <1>1
    <3> HIDE DEF l
    <3>3. Fits(t, l, 0) /\ l \notin {"Cas", "Lock"}
      BY <1>1, <3>2 DEF Fits
    <3> QED
      BY <3>1, <3>3
  <2> QED
    BY <2>1, <2>2
<1>4. UNCHANGED <<heap, plan, call>>
  BY DEF OpLoadTable
<1> QED
  BY <1>1, <1>2, <1>3, <1>4, WalksTyped

LEMMA BinStepsTyped ==
    ASSUME MapTyped, IInv, NEW t \in Threads, AnyStep(t),
           OpNoTable(t) \/ OpMovedBin(t) \/ OpEmptyBin(t) \/ OpListBin(t)
    PROVE  MapTyped'
<1>1. Op(t) \in Keyed /\ opc[t] = "Bin" /\ pc[t] = "idle" /\ Len(node) \in Nat
  BY PlaceTyped DEF OpNoTable, OpMovedBin, OpEmptyBin, OpListBin, At, Control
<1>2. CASE OpNoTable(t)
  BY <1>1, <1>2, StaysTyped DEF OpNoTable
<1>3. CASE OpMovedBin(t)
  BY <1>1, <1>3, StaysTyped DEF OpMovedBin
<1>4. CASE OpEmptyBin(t)
  <2>1. UNCHANGED <<heap, plan, call, walk, pc, tab>> /\ tab[t] # Null
    BY <1>4 DEF OpEmptyBin
  <2>2. CASE Op(t) \in {"insert", "try_insert"}
    <3>1. To(t, "Cas", 0) /\ Fits(t, "Cas", 0)
      BY <1>1, <1>4, <2>2 DEF OpEmptyBin, Fits
    <3> QED
      BY <1>1, <2>1, <3>1, GoesTyped
  <2>3. CASE Op(t) \notin {"insert", "try_insert"}
    <3>1. To(t, "Done", 0) /\ Fits(t, "Done", 0)
      BY <1>1, <1>4, <2>3 DEF OpEmptyBin, Fits, Finish
    <3> QED
      BY <1>1, <2>1, <3>1, GoesTyped
  <2> QED
    BY <2>2, <2>3
<1>5. CASE OpListBin(t)
  <2>1. UNCHANGED <<heap, plan, call, walk, pc, tab>> /\ tab[t] # Null /\ ThisBin(t) # 0
        /\ To(t, NextWith(t, ThisBin(t)), ThisBin(t))
    BY <1>5 DEF OpListBin
  <2>2. ThisBin(t) \in 0..Len(node)
    BY <1>1, <2>1, BinTyped
  <2>3. NextWith(t, ThisBin(t)) \in {"Node", "Value", "Lock"}
    BY DEF NextWith
  <2>4. Fits(t, NextWith(t, ThisBin(t)), ThisBin(t))
    BY <1>1, <2>1, <2>2, <2>3 DEF Fits
  <2> QED
    BY <1>1, <2>1, <2>4, GoesTyped
<1> QED
  BY <1>2, <1>3, <1>4, <1>5

LEMMA ReadsTyped ==
    ASSUME MapTyped, IInv, NEW t \in Threads, AnyStep(t), GetNode(t) \/ LoadValue(t) \/ OpHeadChanged(t)
    PROVE  MapTyped'
<1>1. Control(t) /\ Len(node) \in Nat /\ opc[t] # "idle" /\ cur[t] \in 0..Len(node)
      /\ UNCHANGED <<heap, plan, call, walk>>
      /\ (cur[t] # 0 => node[cur[t]].next \in 0..Len(node))
  BY PlaceTyped DEF GetNode, LoadValue, OpHeadChanged, CanLock, At
<1>2. CASE GetNode(t)
  <2>1. cur[t] # 0
    BY <1>1, <1>2 DEF GetNode, At, Control
  <2>2. \/ To(t, "Value", cur[t]) \/ To(t, "Done", 0)
        \/ To(t, "Node", node[cur[t]].next) /\ node[cur[t]].next # 0
    BY <1>2 DEF GetNode, Finish
  <2>3. Fits(t, "Value", cur[t]) /\ Fits(t, "Done", 0)
        /\ (node[cur[t]].next # 0 => Fits(t, "Node", node[cur[t]].next))
    BY <1>1, <2>1 DEF Fits
  <2> QED
    BY <1>1, <2>2, <2>3, GoesTyped
<1>3. CASE LoadValue(t)
  <2>1. To(t, "Done", 0) /\ Fits(t, "Done", 0)
    BY <1>1, <1>3 DEF LoadValue, Finish, Fits
  <2> QED
    BY <1>1, <2>1, GoesTyped
<1>4. CASE OpHeadChanged(t)
  <2>1. To(t, "Bin", 0) /\ Fits(t, "Bin", 0)
    BY <1>1, <1>4 DEF OpHeadChanged, CanLock, At, Control, Fits
  <2> QED
    BY <1>1, <2>1, GoesTyped
<1> QED
  BY <1>2, <1>3, <1>4

LEMMA AfterTyped ==
    ASSUME MapTyped, IInv, NEW t \in Threads, AnyStep(t), PutTreeify(t) \/ OpCount(t)
    PROVE  MapTyped'
<1>1. Control(t) /\ Len(node) \in Nat /\ opc[t] # "idle" /\ UNCHANGED <<heap, plan, call, walk>>
  BY PlaceTyped DEF PutTreeify, OpCount, At
<1>2. CASE PutTreeify(t)
  <2>1. To(t, "Count", 0) \/ To(t, "Done", 0)
    BY <1>2 DEF PutTreeify
  <2>2. Fits(t, "Count", 0) /\ Fits(t, "Done", 0)
    BY <1>1, <1>2 DEF PutTreeify, At, Control, Fits
  <2> QED
    BY <1>1, <2>1, <2>2, GoesTyped
<1>3. CASE OpCount(t)
  <2>1. To(t, "Done", 0) /\ Fits(t, "Done", 0)
    BY <1>1, <1>3 DEF OpCount, Fits
  <2> QED
    BY <1>1, <2>1, GoesTyped
<1> QED
  BY <1>2, <1>3

LEMMA EndTyped ==
    ASSUME MapTyped, IInv, NEW t \in Threads, AnyStep(t), End(t)
    PROVE  MapTyped'
<1>1. HeapTyped /\ Len(node) \in Nat /\ Domains
  BY PlaceTyped DEF MapTyped
<1>2. call'[t] = [op |-> "none"] /\ opc'[t] = "idle" /\ cur'[t] = 0 /\ walk'[t] = NoWalk
      /\ cur' \in [Threads -> 0..Len(node)]
  BY <1>1 DEF End, To, Set, Domains, HeapTyped
<1>3. HeapTyped' /\ Len(node') = Len(node)
  BY <1>1, <1>2, HeapSame DEF End
<1>4. CallTyped(call[t])'
  BY <1>2 DEF CallTyped
<1>5. NoWalk.sight.node = 0 /\ NoWalk.removed = 0 /\ NoWalk.at = WalkFrom(Null)
      /\ IsWalk(NoWalk, NoWalk.at, NoWalk.met, NoWalk.removed, NoWalk.sight)
  BY DEF NoWalk, NoSight, IsWalk
<1>6. WalkTyped(walk[t])'
  <2>1. AtTyped(NoWalk.at)
    BY <1>5, WalkFromTyped
  <2> QED
    BY <1>1, <1>2, <1>3, <1>5, <2>1 DEF WalkTyped
<1>7. Control(t)'
  BY <1>2, <1>5 DEF Control, Removing
<1> QED
  BY <1>1, <1>3, <1>4, <1>6, <1>7, MapTypedNext DEF LocalsTyped

-----------------------------------------------------------------------------
(* Iterations and clear *)

LEMMA AtTypedStored ==
    ASSUME MapTyped, NEW t \in Threads, NEW a, AtTyped(a)
    PROVE  /\ WalkTyped([walk EXCEPT ![t].at = a][t])
           /\ [walk EXCEPT ![t].at = a][t].sight = walk[t].sight
<1>1. WalkTyped(walk[t]) /\ t \in DOMAIN walk
  BY DEF MapTyped, LocalsTyped, Domains
<1> DEFINE w == [walk EXCEPT ![t].at = a][t]
<1>2. IsWalk(w, a, walk[t].met, walk[t].removed, walk[t].sight)
  BY <1>1, AtStored DEF WalkTyped
<1> HIDE DEF w
<1> QED
  BY <1>1, <1>2 DEF w, WalkTyped, IsWalk

LEMMA MetTypedStored ==
    ASSUME MapTyped, NEW t \in Threads, NEW a, AtTyped(a), NEW wk, NEW m,
           wk = [walk EXCEPT ![t].at = a, ![t].met = m]
    PROVE  WalkTyped(wk[t]) /\ wk[t].sight = walk[t].sight
<1>1. WalkTyped(walk[t]) /\ t \in DOMAIN walk
  BY DEF MapTyped, LocalsTyped, Domains
<1> DEFINE w1 == [walk EXCEPT ![t].at = a]
<1>2. IsWalk(w1[t], a, walk[t].met, walk[t].removed, walk[t].sight)
  BY <1>1, AtStored DEF WalkTyped
<1>3. t \in DOMAIN w1 /\ wk = [w1 EXCEPT ![t].met = m]
  BY <1>1
<1> HIDE DEF w1
<1>4. IsWalk([w1 EXCEPT ![t].met = m][t], a, m, walk[t].removed, walk[t].sight)
  BY <1>2, <1>3, MetStored
<1>5. IsWalk(wk[t], a, m, walk[t].removed, walk[t].sight)
  BY <1>3, <1>4
<1> QED
  BY <1>1, <1>5 DEF WalkTyped, IsWalk

LEMMA MeetsTyped ==
    ASSUME MapTyped, NEW t \in Threads, NEW p \in 1..Len(node), NEW a, AtTyped(a), Meets(t, p, a),
           call[t].op \in Walkers
    PROVE  /\ WalkTyped(walk'[t]) /\ walk'[t].sight = walk[t].sight
           /\ \E l : To(t, l, p) /\ Fits(t, l, p) /\ l \notin {"Cas", "Lock"}
<1>0. p \in 0..Len(node) /\ p # 0
  BY PlaceTyped
<1>1. CASE call[t].op = "iter"
  <2> DEFINE m == Append(walk[t].met, node[p].key)
  <2>1. walk' = [walk EXCEPT ![t].at = a, ![t].met = m] /\ To(t, "WalkOn", p)
    BY <1>1 DEF Meets
  <2> HIDE DEF m
  <2>2. WalkTyped(walk'[t]) /\ walk'[t].sight = walk[t].sight
    BY <2>1, MetTypedStored
  <2>3. Fits(t, "WalkOn", p)
    BY <1>0 DEF Fits
  <2> QED
    BY <2>1, <2>2, <2>3
<1>2. CASE call[t].op # "iter"
  <2>1. walk' = [walk EXCEPT ![t].at = a] /\ To(t, "Look", p)
    BY <1>2 DEF Meets
  <2>2. WalkTyped(walk'[t]) /\ walk'[t].sight = walk[t].sight
    BY <2>1, AtTypedStored
  <2>3. Fits(t, "Look", p)
    BY <1>0, <1>2 DEF Fits
  <2> QED
    BY <2>1, <2>2, <2>3
<1> QED
  BY <1>1, <1>2

LEMMA WalkBinTyped ==
    ASSUME MapTyped, IInv, NEW t \in Threads, AnyStep(t), WalkBin(t)
    PROVE  MapTyped'
<1> DEFINE w == walk[t].at
           first == bins[w.table][w.index]
<1>1. /\ AtTyped(w) /\ opc[t] = "Walk" /\ call[t].op \in Walkers /\ Len(node) \in Nat
      /\ UNCHANGED <<heap, plan, call>>
  BY PlaceTyped DEF WalkBin, At, Control, WalkTyped
<1>2. w.index < w.table /\ w.table \in Caps \cup {Null} /\ w.index \in Nat /\ w.table \in Nat
  <2>1. w.table \in Caps \cup {Null} /\ w.index \in Nat /\ w.base \in Nat /\ w.size \in Nat
        /\ w.table \in Nat
    BY <1>1, Arithmetic DEF AtTyped
  <2> QED
    BY <2>1 DEF WalkBin, Exhausted
<1>3. w.table \in Caps /\ w.index \in 0..(w.table - 1)
  <2> HIDE DEF w
  <2> QED
    BY <1>2
<1>4. first \in 0..Len(node) /\ fwd[w.table] \in Caps \cup {Null}
  BY <1>3 DEF MapTyped, HeapTyped, IInv, TypeOK, SharedTypes
<1>5. AtTyped(Advance(w)) /\ AtTyped(Descend(w, fwd[w.table]))
  BY <1>1, <1>4, AdvanceTyped, DescendTyped
<1>6. CASE w.index \in moved[w.table]
  <2>1. walk' = [walk EXCEPT ![t].at = Descend(w, fwd[w.table])] /\ UNCHANGED <<opc, cur>>
    BY <1>6 DEF WalkBin
  <2>2. WalkTyped(walk'[t]) /\ walk'[t].sight = walk[t].sight
    BY <1>5, <2>1, AtTypedStored
  <2> HIDE DEF w
  <2> QED
    BY <1>1, <2>1, <2>2, WalksTyped
<1>7. CASE w.index \notin moved[w.table] /\ first = 0
  <2>1. walk' = [walk EXCEPT ![t].at = Advance(w)] /\ UNCHANGED <<opc, cur>>
    BY <1>7 DEF WalkBin
  <2>2. WalkTyped(walk'[t]) /\ walk'[t].sight = walk[t].sight
    BY <1>5, <2>1, AtTypedStored
  <2> HIDE DEF w
  <2> QED
    BY <1>1, <2>1, <2>2, WalksTyped
<1>8. CASE w.index \notin moved[w.table] /\ first # 0
  <2>1. Meets(t, first, Advance(w)) /\ first \in 1..Len(node)
    BY <1>1, <1>4, <1>8 DEF WalkBin
  <2> HIDE DEF w, first
  <2>2. /\ WalkTyped(walk'[t]) /\ walk'[t].sight = walk[t].sight
        /\ \E l : To(t, l, first) /\ Fits(t, l, first) /\ l \notin {"Cas", "Lock"}
    BY <1>1, <1>5, <2>1, MeetsTyped
  <2> QED
    BY <1>1, <2>2, WalksTyped
<1> QED
  BY <1>6, <1>7, <1>8

LEMMA WalkOnTyped ==
    ASSUME MapTyped, IInv, NEW t \in Threads, AnyStep(t), WalkOn(t) \/ WalkEnd(t)
    PROVE  MapTyped'
<1>1. /\ Control(t) /\ opc[t] \in {"Walk", "WalkOn"} /\ call[t].op \in Walkers /\ Len(node) \in Nat
      /\ UNCHANGED <<heap, plan, call>> /\ AtTyped(walk[t].at) /\ WalkTyped(walk[t])
  BY PlaceTyped DEF WalkOn, WalkEnd, At, Control, WalkTyped
<1>2. CASE WalkEnd(t)
  <2>1. To(t, "Done", 0) /\ Fits(t, "Done", 0) /\ UNCHANGED walk
    BY <1>1, <1>2 DEF WalkEnd, Fits
  <2> QED
    BY <1>1, <2>1, GoesTyped
<1>3. CASE WalkOn(t)
  <2> DEFINE next == node[cur[t]].next
  <2>1. next \in 0..Len(node)
    BY <1>1, <1>3, PlaceTyped DEF WalkOn, At, Control
  <2>2. CASE next = 0
    <3>1. To(t, "Walk", 0) /\ Fits(t, "Walk", 0) /\ UNCHANGED walk
      BY <1>1, <1>3, <2>2 DEF WalkOn, Fits
    <3> QED
      BY <1>1, <3>1, GoesTyped
  <2>3. CASE next # 0
    <3>1. Meets(t, next, walk[t].at) /\ next \in 1..Len(node)
      BY <1>1, <1>3, <2>1, <2>3 DEF WalkOn
    <3> HIDE DEF next
    <3>2. /\ WalkTyped(walk'[t]) /\ walk'[t].sight = walk[t].sight
          /\ \E l : To(t, l, next) /\ Fits(t, l, next) /\ l \notin {"Cas", "Lock"}
      BY <1>1, <3>1, MeetsTyped
    <3> QED
      BY <1>1, <3>2, WalksTyped
  <2> QED
    BY <2>2, <2>3
<1> QED
  BY <1>2, <1>3

LEMMA RetainTyped ==
    ASSUME MapTyped, IInv, NEW t \in Threads, AnyStep(t), RetainLook(t) \/ RetainGoOn(t)
    PROVE  MapTyped'
<1>1. /\ Control(t) /\ Len(node) \in Nat /\ WalkTyped(walk[t]) /\ HeapTyped /\ t \in DOMAIN walk
      /\ UNCHANGED <<heap, plan, call>> /\ CallTyped(call[t]) /\ Domains
      /\ cur[t] \in 0..Len(node) /\ (cur[t] # 0 => node[cur[t]].key \in Keys)
  BY PlaceTyped DEF RetainLook, RetainGoOn, MapTyped, Domains
<1>2. ASSUME NEW s, s.node \in 0..Len(node), s.node # 0 => s.key \in Keys,
             walk' = [walk EXCEPT ![t].sight = s], NEW l, NEW c \in 0..Len(node), To(t, l, c),
             l \in {"Table", "WalkOn"}, opc[t] # "idle", call[t].op \in Retains,
             l = "WalkOn" => c # 0
      PROVE  MapTyped'
  <2>1. IsWalk(walk'[t], walk[t].at, walk[t].met, walk[t].removed, s)
    BY <1>1, <1>2, SightStored DEF WalkTyped
  <2>2. opc'[t] = l /\ cur'[t] = c /\ cur' \in [Threads -> 0..Len(node)] /\ call'[t] = call[t]
    BY <1>1, <1>2 DEF To, Set, Domains, HeapTyped
  <2>3. HeapTyped' /\ Len(node') = Len(node)
    BY <1>1, <2>2, HeapSame
  <2>4. WalkTyped(walk[t])'
    BY <1>1, <1>2, <2>1, <2>3 DEF WalkTyped, IsWalk
  <2>5. CallTyped(call[t])'
    BY <1>1, <2>2 DEF CallTyped
  <2>6. Control(t)'
    <3>1. call[t].op # "none"
      BY <1>2
    <3> QED
      BY <1>2, <2>2, <3>1 DEF Control
  <2> QED
    BY <1>1, <2>3, <2>4, <2>5, <2>6, MapTypedNext DEF LocalsTyped
<1>3. CASE RetainLook(t)
  <2> DEFINE n == node[cur[t]]
             s == [node |-> cur[t], key |-> n.key,
                   address |-> IF call[t].op = "retain" THEN n.address ELSE 0]
  <2>1. opc[t] = "Look" /\ call[t].op \in Retains /\ cur[t] # 0
    BY <1>1, <1>3 DEF RetainLook, At, Control
  <2>2. CASE n.val # call[t].val
    <3>1. To(t, "WalkOn", cur[t]) /\ Fits(t, "WalkOn", cur[t]) /\ UNCHANGED walk
      BY <1>1, <1>3, <2>1, <2>2 DEF RetainLook, Fits
    <3> QED
      BY <1>1, <2>1, <3>1, GoesTyped
  <2>3. CASE n.val = call[t].val
    <3>1. To(t, "Table", 0) /\ walk' = [walk EXCEPT ![t].sight = s]
      BY <1>3, <2>3 DEF RetainLook
    <3>2. s.node \in 0..Len(node) /\ s.key \in Keys /\ 0 \in 0..Len(node)
      BY <1>1, <2>1
    <3> HIDE DEF s, n
    <3> QED
      BY <1>2, <2>1, <3>1, <3>2
  <2> QED
    BY <2>2, <2>3
<1>4. CASE RetainGoOn(t)
  <2>1. opc[t] = "Done" /\ call[t].op \in Retains /\ walk[t].sight.node # 0
        /\ walk[t].sight.node \in 0..Len(node)
    BY <1>1, <1>4 DEF RetainGoOn, At, Control, Removing, WalkTyped
  <2>2. To(t, "WalkOn", walk[t].sight.node) /\ walk' = [walk EXCEPT ![t].sight = NoSight]
    BY <1>4 DEF RetainGoOn
  <2>3. NoSight.node \in 0..Len(node) /\ NoSight.node = 0
    BY <1>1 DEF NoSight
  <2> QED
    BY <1>2, <2>1, <2>2, <2>3
<1> QED
  BY <1>3, <1>4

(* The place of clear in its table *)
LEMMA IndexTypedStored ==
    ASSUME MapTyped, NEW t \in Threads, NEW i \in Nat, NEW wk, wk = [walk EXCEPT ![t].at.index = i]
    PROVE  WalkTyped(wk[t]) /\ wk[t].sight = walk[t].sight
<1>1. WalkTyped(walk[t]) /\ t \in DOMAIN walk /\ AtTyped(walk[t].at)
  BY DEF MapTyped, LocalsTyped, Domains, WalkTyped
<1> DEFINE a == [walk[t].at EXCEPT !.index = i]
<1>2. IsWalk(wk[t], a, walk[t].met, walk[t].removed, walk[t].sight)
  BY <1>1, IndexStored DEF WalkTyped
<1>3. AtTyped(a)
  BY <1>1, IndexTyped
<1> HIDE DEF a
<1> QED
  BY <1>1, <1>2, <1>3 DEF WalkTyped, IsWalk

LEMMA ClearStepsTyped ==
    ASSUME MapTyped, IInv, NEW t \in Threads, AnyStep(t), ClearBin(t) \/ ClearEnd(t)
    PROVE  MapTyped'
<1>1. /\ Control(t) /\ opc[t] = "Clear" /\ call[t].op = "clear" /\ Len(node) \in Nat
      /\ UNCHANGED <<heap, plan, call>> /\ WalkTyped(walk[t]) /\ walk[t].at.index \in Nat
      /\ ~Removing(t) /\ Op(t) = "clear"
  BY PlaceTyped DEF ClearBin, ClearEnd, At, Control, WalkTyped, AtTyped, Op
<1>2. CASE ClearEnd(t)
  <2>1. To(t, "Done", 0) \/ To(t, "Count", 0)
    BY <1>2 DEF ClearEnd
  <2>2. Fits(t, "Done", 0) /\ Fits(t, "Count", 0) /\ UNCHANGED walk
    BY <1>1, <1>2 DEF ClearEnd, Fits
  <2> QED
    BY <1>1, <2>1, <2>2, GoesTyped
<1>3. CASE ClearBin(t)
  <2> DEFINE n == tab[t]
             i == walk[t].at.index
  <2>1. n \in Caps /\ i \in 0..(n - 1)
    <3>1. n \in Caps \cup {Null} /\ n \in Nat
      BY LocalValues DEF IInv, TypeOK
    <3>2. i < n
      BY <1>3 DEF ClearBin
    <3> QED
      BY <1>1, <3>1, <3>2
  <2>2. bins[n][i] \in 0..Len(node) /\ i + 1 \in Nat /\ 0 \in Nat
    <3>1. bins[n] \in [0..(n - 1) -> 0..Len(node)]
      BY <2>1 DEF MapTyped, HeapTyped
    <3> HIDE DEF n, i
    <3>2. bins[n][i] \in 0..Len(node)
      BY <2>1, <3>1
    <3>3. i \in Nat /\ i + 1 \in Nat /\ 0 \in Nat
      BY <2>1
    <3> QED
      BY <3>2, <3>3
  <2>3. CASE i \in moved[n]
    <3>1. walk' = [walk EXCEPT ![t].at.index = 0] /\ UNCHANGED <<opc, cur>>
      BY <1>3, <2>3 DEF ClearBin
    <3> HIDE DEF n, i
    <3>2. WalkTyped(walk'[t]) /\ walk'[t].sight = walk[t].sight
      BY <2>2, <3>1, IndexTypedStored
    <3> QED
      BY <1>1, <3>1, <3>2, WalksTyped
  <2>4. CASE i \notin moved[n] /\ bins[n][i] = 0
    <3>1. walk' = [walk EXCEPT ![t].at.index = i + 1] /\ UNCHANGED <<opc, cur>>
      BY <1>3, <2>4 DEF ClearBin
    <3> HIDE DEF n, i
    <3>2. WalkTyped(walk'[t]) /\ walk'[t].sight = walk[t].sight
      BY <2>2, <3>1, IndexTypedStored
    <3> QED
      BY <1>1, <3>1, <3>2, WalksTyped
  <2>5. CASE i \notin moved[n] /\ bins[n][i] # 0
    <3>1. To(t, "ClearLock", bins[n][i]) /\ UNCHANGED walk
      BY <1>3, <2>5 DEF ClearBin
    <3>2. Fits(t, "ClearLock", bins[n][i])
      BY <1>1, <2>2, <2>5 DEF Fits
    <3> HIDE DEF n, i
    <3> QED
      BY <1>1, <3>1, <3>2, GoesTyped
  <2> QED
    BY <2>3, <2>4, <2>5
<1> QED
  BY <1>2, <1>3

LEMMA RoutineTyped ==
    ASSUME MapTyped, IInv, NEW t \in Threads, AnyStep(t),
           Routine(t) \/ TransferBinMoved(t) \/ TransferBinForward(t) \/ TransferEmptyBin(t)
    PROVE  MapTyped'
<1>1. UNCHANGED <<heap, plan, opc, cur, call, walk>>
  BY DEF Routine, TransferBinMoved, TransferBinForward, TransferEmptyBin
<1>2. pc[t] # "idle"
  <2>1. CASE TransferBinMoved(t) \/ TransferBinForward(t) \/ TransferEmptyBin(t)
    BY <2>1 DEF TransferBinMoved, TransferBinForward, TransferEmptyBin, TransferSkipMoved, TransferForward
  <2>2. CASE Routine(t)
    BY <2>2 DEF Routine, InitTable, InitLoadTable, InitLoadSizeCtl, InitClaim, InitRecheck,
       InitStoreTable, InitStoreSizeCtl, AddCount, AddLoadSizeCtl, AddLoadTable, AddLoadNext,
       AddLoadIndex, AddJoin, AddStart, AddReload, HelpTransfer, HelpForward, HelpCheckNext,
       HelpCheckTable, HelpLoadSizeCtl, HelpLoadIndex, HelpJoin, TryPresize, PresizeLoad,
       PresizeLoadTable, PresizeClaim, PresizeRecheck, PresizeStoreTable, PresizeStoreSizeCtl,
       PresizeCheckTable, PresizeStart, TransferLoop, TransferAllocate, TransferOpen,
       TransferLoadNext, TransferAdvance, TransferClaim, TransferLoadSizeCtl, TransferDone,
       TransferClearNext, TransferSwap, TransferCommit
  <2> QED
    BY <2>1, <2>2
<1>3. opc[t] \notin {"Cas", "Lock"}
  BY <1>2, PlaceTyped DEF Control
<1> QED
  BY <1>1, <1>3, StaysTyped

-----------------------------------------------------------------------------
(* What an update does to the lists: it takes nodes out of some, or puts a
   node behind the list that starts at h. *)

BinSet(n, i, v) == bins' = [bins EXCEPT ![n][i] = v]

KeysKept == \A j \in 1..Len(node) : node'[j].key = node[j].key

Cuts ==
    /\ Linked(node') /\ Ranked(node') /\ Len(node') = Len(node) /\ KeysKept
    /\ \A x \in 0..Len(node) : Reach(node', x) \subseteq Reach(node, x)

Adds(h, k) ==
    /\ Linked(node') /\ Ranked(node') /\ Len(node') = Len(node) + 1 /\ KeysKept
    /\ node'[Len(node) + 1].key = k
    /\ Reach(node', Len(node) + 1) \subseteq {Len(node) + 1}
    /\ \A x \in 0..Len(node) :
          /\ Reach(node', x) \subseteq Reach(node, x) \cup {Len(node) + 1}
          /\ Reach(node, x) \cap Reach(node, h) = {} => Reach(node', x) \subseteq Reach(node, x)

LEMMA SameCuts ==
    ASSUME HeapTyped, node' = node
    PROVE  Cuts
  BY DEF HeapTyped, Cuts, KeysKept, Linked, Ranked

LEMMA ValueCuts ==
    ASSUME HeapTyped, NEW p \in 1..Len(node), NEW v \in Values, NEW a,
           StoresValue(node, p, v, a, node')
    PROVE  Cuts
<1>1. Linked(node) /\ Ranked(node)
  BY DEF HeapTyped
<1>2. /\ Linked(node') /\ Len(node') = Len(node)
      /\ \A j \in 1..Len(node) : node'[j].key = node[j].key /\ node'[j].next = node[j].next
  BY <1>1, ValueStored
<1>3. Ranked(node') /\ \A x \in 0..Len(node) : Reach(node', x) \subseteq Reach(node, x)
  BY <1>1, <1>2, NodesSkipped
<1> QED
  BY <1>2, <1>3 DEF Cuts, KeysKept

(* The node before another in a list *)
LEMMA Predecessor ==
    ASSUME HeapTyped, NEW h \in 1..Len(node), NEW p \in Reach(node, h), p # h
    PROVE  \E q \in Range(Chain(h)) : q \in 1..Len(node) /\ node[q].next = p
<1> DEFINE s == Chain(h)
<1>0. h \in 0..Len(node) /\ h # 0 /\ Linked(node) /\ Len(node) \in Nat
  BY LenTyped DEF HeapTyped
<1>1. Walks(node, h, s)
  BY <1>0, ChainWalks DEF HeapTyped
<1> HIDE DEF s
<1>2. s \in Seq(1..Len(node)) /\ Len(s) \in Nat /\ DOMAIN s = 1..Len(s)
  BY <1>1, LenProperties DEF Walks
<1>3. p \in 1..Len(node)
  BY <1>0, ReachIs
<1>4. PICK j \in 1..Len(s) : s[j] = p
  BY <1>1, <1>3 DEF Walks
<1>5. s[1] = h
  BY <1>0, <1>1 DEF Walks
<1>6. j - 1 \in 1..(Len(s) - 1) /\ (j - 1) + 1 = j /\ j - 1 \in 1..Len(s)
  BY <1>2, <1>4, <1>5
<1>7. node[s[j - 1]].next = p
  <2>1. node[s[j - 1]].next = s[(j - 1) + 1]
    BY <1>1, <1>6 DEF Walks
  <2> QED
    BY <1>4, <1>6, <2>1
<1>8. s[j - 1] \in 1..Len(node)
  BY <1>2, <1>6, ElementOfSeq
<1>9. s[j - 1] \in Range(s)
  BY <1>2, <1>6 DEF Range
<1> QED
  BY <1>7, <1>8, <1>9 DEF s

LEMMA UnlinkCuts ==
    ASSUME HeapTyped, NEW t, cur[t] \in 1..Len(node), NEW p \in Reach(node, cur[t]), Unlink(t, p)
    PROVE  /\ Cuts /\ node[p].next \in 0..Len(node)
           /\ \/ bins' = bins
              \/ p = cur[t] /\ BinSet(tab[t], Bini(Key(t), tab[t]), node[p].next)
<1>1. Linked(node) /\ Ranked(node) /\ cur[t] \in 0..Len(node) /\ Len(node) \in Nat
  BY LenTyped DEF HeapTyped
<1>2. p \in 1..Len(node) /\ node[p].next \in 0..Len(node)
  BY <1>1, ReachIs DEF Linked
<1>3. CASE p = cur[t]
  <2>1. node' = node /\ BinSet(tab[t], Bini(Key(t), tab[t]), node[p].next)
    BY <1>3 DEF Unlink, BinSet
  <2> QED
    BY <1>2, <1>3, <2>1, SameCuts
<1>4. CASE p # cur[t]
  <2> DEFINE q == CHOOSE q \in Range(Chain(cur[t])) : node[q].next = p
  <2>1. StoresNext(node, q, node[p].next, node') /\ bins' = bins
    BY <1>4 DEF Unlink, StoresNext
  <2>2. \E x \in Range(Chain(cur[t])) : node[x].next = p
    BY <1>4, Predecessor
  <2>3. q \in Range(Chain(cur[t])) /\ node[q].next = p
    BY <2>2
  <2> HIDE DEF q
  <2>4. q \in 1..Len(node)
    <3>1. Walks(node, cur[t], Chain(cur[t]))
      BY <1>1, ChainWalks
    <3>2. Chain(cur[t]) \in Seq(1..Len(node))
      BY <3>1 DEF Walks
    <3> DEFINE s == Chain(cur[t])
    <3>3. PICK j \in DOMAIN s : s[j] = q
      BY <2>3 DEF Range
    <3>4. DOMAIN s = 1..Len(s)
      BY <3>2, LenProperties
    <3> HIDE DEF s
    <3> QED
      BY <3>2, <3>3, <3>4, ElementOfSeq DEF s
  <2>5. /\ Linked(node') /\ Len(node') = Len(node)
        /\ \A j \in 1..Len(node) : /\ node'[j].key = node[j].key
                                   /\ node'[j].next = IF j = q THEN node[p].next ELSE node[j].next
    BY <1>1, <1>2, <2>1, <2>4, NextStored
  <2>6. \A j \in 1..Len(node) : \/ node'[j].next = node[j].next
                                \/ node[j].next # 0 /\ node'[j].next = node[node[j].next].next
    BY <1>2, <2>3, <2>5
  <2>7. Ranked(node') /\ \A x \in 0..Len(node) : Reach(node', x) \subseteq Reach(node, x)
    BY <1>1, <2>5, <2>6, NodesSkipped
  <2> QED
    BY <1>2, <2>1, <2>5, <2>7 DEF Cuts, KeysKept
<1> QED
  BY <1>3, <1>4

LEMMA ApartAdds ==
    ASSUME HeapTyped, NEW k \in Keys, NEW v \in Values, NEW a,
           StoresNode(node, k, v, a, node')
    PROVE  Adds(0, k)
<1>1. Linked(node) /\ Ranked(node) /\ Len(node) \in Nat
  BY LenTyped DEF HeapTyped
<1>2. /\ Linked(node') /\ Len(node') = Len(node) + 1
      /\ node'[Len(node) + 1].key = k /\ node'[Len(node) + 1].next = 0
      /\ \A j \in 1..Len(node) : node'[j] = node[j]
  BY <1>1, NodeStored
<1>3. /\ Ranked(node')
      /\ Reach(node', Len(node) + 1) \subseteq {Len(node) + 1}
      /\ \A h \in 0..Len(node) : Reach(node', h) \subseteq Reach(node, h)
  BY <1>1, <1>2, NodeApart
<1> QED
  BY <1>2, <1>3 DEF Adds, KeysKept

LEMMA BehindAdds ==
    ASSUME HeapTyped, NEW h \in 1..Len(node), NEW k \in Keys, NEW v \in Values, NEW a,
           StoresBehind(node, Last(Chain(h)), k, v, a, node')
    PROVE  Adds(h, k)
<1>1. Linked(node) /\ Ranked(node) /\ Len(node) \in Nat /\ h \in 0..Len(node) /\ h # 0
  BY LenTyped DEF HeapTyped
<1> DEFINE p == Last(Chain(h))
           id == Len(node) + 1
<1>2. Walks(node, h, Chain(h))
  BY <1>1, ChainWalks
<1>3. p \in 1..Len(node) /\ p \in Reach(node, h)
  <2> DEFINE s == Chain(h)
  <2>1. s \in Seq(1..Len(node)) /\ Len(s) > 0 /\ Len(s) \in Nat
    BY <1>1, <1>2, LenProperties DEF Walks
  <2>2. Len(s) \in 1..Len(s) /\ p = s[Len(s)]
    BY <2>1 DEF Last
  <2>3. p \in 1..Len(node)
    <3> HIDE DEF s, p
    <3> QED
      BY <2>1, <2>2, ElementOfSeq
  <2> QED
    BY <1>2, <2>2, <2>3 DEF Walks
<1> HIDE DEF p
<1>4. /\ Linked(node') /\ Len(node') = id
      /\ node'[id].key = k /\ node'[id].next = 0
      /\ \A j \in 1..Len(node) :
            /\ node'[j].key = node[j].key
            /\ node'[j].next = IF j = p THEN Len(node) + 1 ELSE node[j].next
  BY <1>1, <1>3, NodeLinked DEF p
<1>5. /\ Ranked(node')
      /\ \A x \in 0..Len(node) :
            /\ Reach(node', x) \subseteq Reach(node, x) \cup {id}
            /\ p \notin Reach(node, x) => Reach(node', x) \subseteq Reach(node, x)
  BY <1>1, <1>3, <1>4, NodeBehind
<1>6. Reach(node', id) \subseteq {id}
  <2>1. {id} \in SUBSET (1..Len(node')) /\ id \in {id} \cup {0} /\ Closed(node', {id})
    BY <1>1, <1>4 DEF Closed
  <2> QED
    BY <2>1, ReachLeast
<1> QED
  BY <1>3, <1>4, <1>5, <1>6 DEF Adds, KeysKept

-----------------------------------------------------------------------------
(* The types after an update *)

BinsTyped(bs, m) == DOMAIN bs = Caps /\ \A n \in Caps : bs[n] \in [0..(n - 1) -> 0..m]

LEMMA BinsStored ==
    ASSUME NEW m \in Nat, NEW m2 \in Nat, m <= m2, BinsTyped(bins, m), NEW bs,
           bs = bins \/ \E n, i : \E v \in 0..m2 : bs = [bins EXCEPT ![n][i] = v]
    PROVE  BinsTyped(bs, m2)
<1>1. \A j \in 0..m : j \in 0..m2
  OBVIOUS
<1>2. ASSUME bs = bins PROVE BinsTyped(bs, m2)
  BY <1>1, <1>2 DEF BinsTyped
<1>3. ASSUME NEW n, NEW i, NEW v \in 0..m2, bs = [bins EXCEPT ![n][i] = v] PROVE BinsTyped(bs, m2)
  <2>1. DOMAIN bs = Caps
    BY <1>3 DEF BinsTyped
  <2>2. ASSUME NEW x \in Caps PROVE bs[x] \in [0..(x - 1) -> 0..m2]
    <3>1. bins[x] \in [0..(x - 1) -> 0..m]
      BY DEF BinsTyped
    <3>2. CASE x # n
      BY <1>1, <1>3, <3>1, <3>2 DEF BinsTyped
    <3>3. CASE x = n
      <4>1. bs[x] = [bins[x] EXCEPT ![i] = v]
        BY <1>3, <3>3 DEF BinsTyped
      <4> QED
        BY <1>1, <3>1, <4>1
    <3> QED
      BY <3>2, <3>3
  <2> QED
    BY <2>1, <2>2 DEF BinsTyped
<1> QED
  BY <1>2, <1>3

LEMMA HeapStored ==
    ASSUME HeapTyped, Linked(node'), Ranked(node'), Len(node') \in Nat, Len(node) <= Len(node'),
           BinsTyped(bins', Len(node')), UNCHANGED <<locked, plan>>,
           cur' \in [Threads -> 0..Len(node)]
    PROVE  HeapTyped'
<1>1. Len(node) \in Nat
  BY LenTyped
<1>2. (\A j \in 0..Len(node) : j \in 0..Len(node')) /\ (\A j \in 1..Len(node) : j \in 1..Len(node'))
  BY <1>1
<1>3. plan' \in [Threads -> Plans]'
  BY <1>2 DEF HeapTyped, Plans
<1> QED
  BY <1>2, <1>3 DEF HeapTyped, BinsTyped

LEMMA UpdateTyped ==
    ASSUME MapTyped, IInv, NEW t \in Threads, AnyStep(t), Linked(node'), Ranked(node'),
           Len(node) <= Len(node'), UNCHANGED <<locked, plan, call>>,
           bins' = bins \/ \E n, i : \E v \in 0..Len(node') : BinSet(n, i, v),
           opc[t] # "idle", NEW l, l \notin {"Cas", "Lock"}, To(t, l, 0), Fits(t, l, 0),
           WalkTyped(walk'[t]), walk'[t].sight = walk[t].sight
    PROVE  MapTyped'
<1>1. HeapTyped /\ Len(node) \in Nat /\ Len(node') \in Nat
  BY LenTyped, LinkedIs DEF MapTyped
<1>2. /\ cur' \in [Threads -> 0..Len(node)]
      /\ Control(t)' /\ CallTyped(call[t])'
  BY Goes
<1>3. BinsTyped(bins, Len(node))
  BY <1>1 DEF HeapTyped, BinsTyped
<1>4. BinsTyped(bins', Len(node'))
  BY <1>1, <1>3, BinsStored DEF BinSet
<1>5. HeapTyped'
  BY <1>1, <1>2, <1>4, HeapStored
<1>6. WalkTyped(walk[t])'
  <2>1. \A j \in 0..Len(node) : j \in 0..Len(node')
    BY <1>1
  <2> QED
    BY <2>1 DEF WalkTyped
<1> QED
  BY <1>2, <1>5, <1>6, MapTypedNext DEF LocalsTyped

-----------------------------------------------------------------------------
(* The updates *)

LEMMA PutValue ==
    ASSUME MapTyped, NEW t \in Threads, Op(t) \in {"insert", "try_insert"}
    PROVE  Key(t) \in Keys /\ call[t].val \in Values /\ Op(t) = call[t].op /\ ~Removing(t)
<1>1. CallTyped(call[t]) /\ Op(t) = call[t].op /\ ~Removing(t)
  BY PlaceTyped
<1> QED
  BY <1>1, KeyTyped DEF CallTyped

(* put finds the bin empty, and its node is the whole list; or not, and nothing
   happens. *)
LEMMA PutCasDoes ==
    ASSUME MapTyped, IInv, NEW t \in Threads, PutCas(t)
    PROVE  /\ Op(t) \in {"insert", "try_insert"} /\ tab[t] \in Caps /\ opc[t] = "Cas"
           /\ UNCHANGED <<resizeVars, locked, plan, walk, call>>
           /\ \/ /\ ThisBin(t) = 0 /\ ~ThisBinMoved(t) /\ Adds(0, Key(t))
                 /\ BinSet(tab[t], Bini(Key(t), tab[t]), Len(node) + 1)
                 /\ To(t, "Count", 0)
              \/ UNCHANGED heap /\ To(t, "Bin", 0)
              \/ /\ UNCHANGED heap /\ ThisBin(t) # 0 /\ ~ThisBinMoved(t)
                 /\ To(t, NextWith(t, ThisBin(t)), ThisBin(t))
<1>1. Op(t) \in {"insert", "try_insert"} /\ tab[t] # Null /\ opc[t] = "Cas"
  BY PlaceTyped DEF PutCas, At, Control
<1>2. tab[t] \in Caps
  BY <1>1, BinTyped
<1>3. CASE ThisBin(t) = 0 /\ ~ThisBinMoved(t)
  <2>1. StoresNode(node, Key(t), call[t].val, NewAddress(Key(t)), node')
    BY <1>3 DEF PutCas, StoresNode
  <2>2. BinSet(tab[t], Bini(Key(t), tab[t]), Len(node) + 1) /\ To(t, "Count", 0)
    BY <1>3 DEF PutCas, BinSet
  <2>3. Adds(0, Key(t))
    BY <1>1, <2>1, PutValue, ApartAdds DEF MapTyped
  <2> QED
    BY <1>1, <1>2, <1>3, <2>2, <2>3 DEF PutCas
<1>4. CASE ~(ThisBin(t) = 0 /\ ~ThisBinMoved(t))
  BY <1>1, <1>2, <1>4 DEF PutCas
<1> QED
  BY <1>3, <1>4

LEMMA PutCasTyped ==
    ASSUME MapTyped, IInv, NEW t \in Threads, AnyStep(t), PutCas(t)
    PROVE  MapTyped'
<1>1. /\ HeapTyped /\ Len(node) \in Nat /\ Op(t) \in {"insert", "try_insert"} /\ opc[t] = "Cas"
      /\ WalkTyped(walk[t]) /\ UNCHANGED <<locked, plan, walk, call>> /\ Op(t) \in Keyed /\ tab[t] # Null
      /\ pc'[t] = "idle" /\ tab'[t] # Null
  BY PlaceTyped, PutCasDoes DEF PutCas, At
<1>2. CASE /\ Adds(0, Key(t)) /\ To(t, "Count", 0)
           /\ BinSet(tab[t], Bini(Key(t), tab[t]), Len(node) + 1)
  <2>1. Linked(node') /\ Ranked(node') /\ Len(node') = Len(node) + 1
    BY <1>2 DEF Adds
  <2>2. Len(node) <= Len(node') /\ Len(node) + 1 \in 0..Len(node')
    BY <1>1, <2>1
  <2>3. Fits(t, "Count", 0)
    BY <1>1 DEF Fits
  <2> QED
    BY <1>1, <1>2, <2>1, <2>2, <2>3, UpdateTyped
<1>3. CASE UNCHANGED heap /\ To(t, "Bin", 0)
  <2>1. Fits(t, "Bin", 0)
    BY <1>1 DEF Fits
  <2> QED
    BY <1>1, <1>3, <2>1, GoesTyped
<1>4. CASE UNCHANGED heap /\ ThisBin(t) # 0 /\ To(t, NextWith(t, ThisBin(t)), ThisBin(t))
  <2>1. ThisBin(t) \in 0..Len(node) /\ NextWith(t, ThisBin(t)) \in {"Node", "Value", "Lock"}
    BY <1>1, BinTyped DEF NextWith
  <2>2. Fits(t, NextWith(t, ThisBin(t)), ThisBin(t))
    BY <1>1, <1>4, <2>1 DEF Fits
  <2> QED
    BY <1>1, <1>4, <2>2, GoesTyped
<1> QED
  BY <1>2, <1>3, <1>4, PutCasDoes

(* What the critical sections know. *)
LEMMA LockedKnows ==
    ASSUME MapTyped, IInv, NEW t \in Threads, CanLock(t), ~HeadChanged(t)
    PROVE  /\ HeapTyped /\ Len(node) \in Nat /\ WalkTyped(walk[t])
           /\ opc[t] = "Lock" /\ Op(t) \in Keyed /\ Key(t) \in Keys
           /\ tab[t] \in Caps /\ Bini(Key(t), tab[t]) \in 0..(tab[t] - 1)
           /\ cur[t] \in 1..Len(node) /\ ThisBin(t) = cur[t] /\ ~ThisBinMoved(t)
           /\ ChainHolding(Key(t), cur[t]) \in Reach(node, cur[t]) \cup {0}
           /\ ChainHolding(Key(t), cur[t]) = 0 => \A m \in Reach(node, cur[t]) : node[m].key # Key(t)
           /\ Reach(node, cur[t]) \subseteq 1..Len(node)
<1>1. /\ HeapTyped /\ Len(node) \in Nat /\ opc[t] = "Lock" /\ Op(t) \in Keyed /\ tab[t] # Null
      /\ cur[t] \in 0..Len(node) /\ cur[t] # 0 /\ WalkTyped(walk[t])
  BY PlaceTyped DEF CanLock, At, Control
<1>2. cur[t] \in 1..Len(node) /\ Linked(node) /\ Ranked(node)
  BY <1>1 DEF HeapTyped
<1>3. /\ ChainHolding(Key(t), cur[t]) \in Reach(node, cur[t]) \cup {0}
      /\ ChainHolding(Key(t), cur[t]) = 0 => \A m \in Reach(node, cur[t]) : node[m].key # Key(t)
  BY <1>1, <1>2, HoldingFinds
<1>4. Reach(node, cur[t]) \subseteq 1..Len(node)
  BY <1>1, <1>2, ReachIs
<1> QED
  BY <1>1, <1>2, <1>3, <1>4, KeyTyped, BinTyped DEF HeadChanged

(* put has a value replaced, or a node put behind the others. *)
LEMMA PutLockedDoes ==
    ASSUME MapTyped, IInv, NEW t \in Threads, PutLocked(t)
    PROVE  /\ UNCHANGED <<resizeVars, bins, locked, plan, walk, call>>
           /\ To(t, "Done", 0) \/ To(t, "Treeify", 0)
           /\ Op(t) \in {"insert", "try_insert"} /\ CanLock(t) /\ ~HeadChanged(t)
           /\ \/ Cuts
              \/ /\ Adds(cur[t], Key(t))
                 /\ \A m \in Reach(node, cur[t]) : node[m].key # Key(t)
<1> DEFINE p == ChainHolding(Key(t), cur[t])
<1>1. CanLock(t) /\ ~HeadChanged(t) /\ call[t].op \in {"insert", "try_insert"}
      /\ UNCHANGED <<resizeVars, bins, locked, plan, walk, call>>
  BY DEF PutLocked
<1>2. Op(t) \in {"insert", "try_insert"}
  <2>1. Control(t)
    BY PlaceTyped
  <2> QED
    BY <1>1, <2>1 DEF Control, Op
<1>3. Key(t) \in Keys /\ call[t].val \in Values
  BY <1>2, PutValue
<1>4. /\ HeapTyped /\ cur[t] \in 1..Len(node) /\ p \in Reach(node, cur[t]) \cup {0}
      /\ p = 0 => \A m \in Reach(node, cur[t]) : node[m].key # Key(t)
      /\ p # 0 => p \in 1..Len(node)
  BY <1>1, LockedKnows
<1>5. CASE p # 0 /\ call[t].op = "try_insert"
  <2>1. node' = node /\ To(t, "Done", 0)
    BY <1>5 DEF PutLocked, Finish
  <2> QED
    BY <1>1, <1>2, <1>4, <2>1, SameCuts
<1>6. CASE p # 0 /\ call[t].op # "try_insert"
  <2>1. StoresValue(node, p, call[t].val, NewAddress(Key(t)), node') /\ To(t, "Treeify", 0)
    BY <1>6 DEF PutLocked, StoresValue
  <2> HIDE DEF p
  <2> QED
    BY <1>1, <1>2, <1>3, <1>4, <1>6, <2>1, ValueCuts
<1>7. CASE p = 0
  <2>1. StoresBehind(node, Last(Chain(cur[t])), Key(t), call[t].val, NewAddress(Key(t)), node')
        /\ To(t, "Treeify", 0)
    BY <1>7 DEF PutLocked, StoresBehind
  <2> HIDE DEF p
  <2>2. Adds(cur[t], Key(t))
    BY <1>3, <1>4, <2>1, BehindAdds
  <2> QED
    BY <1>1, <1>2, <1>4, <1>7, <2>1, <2>2
<1> QED
  BY <1>5, <1>6, <1>7

LEMMA PutLockedTyped ==
    ASSUME MapTyped, IInv, NEW t \in Threads, AnyStep(t), PutLocked(t)
    PROVE  MapTyped'
<1>1. /\ HeapTyped /\ Len(node) \in Nat /\ WalkTyped(walk[t]) /\ opc[t] = "Lock"
      /\ UNCHANGED <<bins, locked, plan, walk, call>> /\ Op(t) \in {"insert", "try_insert"}
  BY PutLockedDoes, LockedKnows
<1>2. Linked(node') /\ Ranked(node') /\ Len(node') \in {Len(node), Len(node) + 1}
  BY PutLockedDoes DEF Cuts, Adds
<1>3. Len(node) <= Len(node')
  BY <1>1, <1>2
<1>4. Fits(t, "Done", 0) /\ Fits(t, "Treeify", 0)
  BY <1>1 DEF Fits
<1> QED
  BY <1>1, <1>2, <1>3, <1>4, PutLockedDoes, UpdateTyped

(* remove, the retains and compute_if_present shorten a list, or replace a
   value. *)
LEMMA CutsDoes ==
    ASSUME MapTyped, IInv, NEW t \in Threads, RemoveLocked(t) \/ ComputeLocked(t)
    PROVE  /\ UNCHANGED <<resizeVars, locked, plan, walk, call>>
           /\ CanLock(t) /\ ~HeadChanged(t) /\ Cuts
           /\ Op(t) \in {"remove", "compute_if_present"}
           /\ To(t, "Done", 0) \/ To(t, "Count", 0)
           /\ \/ bins' = bins
              \/ \E v \in 0..Len(node) : /\ BinSet(tab[t], Bini(Key(t), tab[t]), v)
                                         /\ Reach(node, v) \subseteq Reach(node, ThisBin(t))
<1> DEFINE p == ChainHolding(Key(t), cur[t])
<1>1. CanLock(t) /\ ~HeadChanged(t) /\ UNCHANGED <<resizeVars, locked, plan, walk, call>>
  BY DEF RemoveLocked, ComputeLocked
<1>2. Op(t) \in {"remove", "compute_if_present"}
  <2>1. Control(t)
    BY PlaceTyped
  <2> QED
    BY <2>1 DEF RemoveLocked, ComputeLocked, Control, Op
<1>3. /\ HeapTyped /\ cur[t] \in 1..Len(node) /\ p \in Reach(node, cur[t]) \cup {0}
      /\ ThisBin(t) = cur[t] /\ Linked(node) /\ cur[t] \in 0..Len(node)
      /\ p # 0 => p \in 1..Len(node)
  BY <1>1, LockedKnows DEF HeapTyped
<1>4. CASE To(t, "Done", 0) /\ UNCHANGED <<bins, node>>
  BY <1>1, <1>2, <1>3, <1>4, SameCuts
<1>5. CASE p # 0 /\ Unlink(t, p) /\ To(t, "Count", 0)
  <2> HIDE DEF p
  <2>1. /\ Cuts /\ node[p].next \in 0..Len(node)
        /\ \/ bins' = bins
           \/ p = cur[t] /\ BinSet(tab[t], Bini(Key(t), tab[t]), node[p].next)
    BY <1>3, <1>5, UnlinkCuts
  <2>2. Reach(node, node[cur[t]].next) \subseteq Reach(node, cur[t])
    BY <1>3, ReachFirst
  <2> QED
    BY <1>1, <1>2, <1>3, <1>5, <2>1, <2>2
<1>6. CASE /\ p # 0 /\ call[t].val # None /\ StoresValue(node, p, call[t].val, NewAddress(Key(t)), node')
           /\ bins' = bins /\ To(t, "Done", 0) /\ call[t].op = "compute_if_present"
  <2> HIDE DEF p
  <2>1. call[t].val \in Values
    BY <1>6, PlaceTyped DEF CallTyped
  <2>2. Cuts
    BY <1>3, <1>6, <2>1, ValueCuts
  <2> QED
    BY <1>1, <1>2, <1>6, <2>2
<1>7. CASE RemoveLocked(t)
  BY <1>4, <1>5, <1>7 DEF RemoveLocked, Finish
<1>8. CASE ComputeLocked(t)
  BY <1>4, <1>5, <1>6, <1>8 DEF ComputeLocked, Finish, StoresValue
<1> QED
  BY <1>7, <1>8

LEMMA CutsTyped ==
    ASSUME MapTyped, IInv, NEW t \in Threads, AnyStep(t), RemoveLocked(t) \/ ComputeLocked(t)
    PROVE  MapTyped'
<1>1. /\ HeapTyped /\ Len(node) \in Nat /\ WalkTyped(walk[t]) /\ opc[t] = "Lock"
      /\ UNCHANGED <<locked, plan, walk, call>> /\ Op(t) \in {"remove", "compute_if_present"}
  BY CutsDoes, LockedKnows
<1>2. Linked(node') /\ Ranked(node') /\ Len(node') = Len(node)
  BY CutsDoes DEF Cuts
<1>3. Len(node) <= Len(node')
  BY <1>1, <1>2
<1>4. Fits(t, "Done", 0) /\ Fits(t, "Count", 0)
  BY <1>1 DEF Fits
<1>5. bins' = bins \/ \E n, i : \E v \in 0..Len(node') : BinSet(n, i, v)
  BY <1>2, CutsDoes
<1> QED
  BY <1>1, <1>2, <1>3, <1>4, <1>5, CutsDoes, UpdateTyped

LEMMA ClearLockedTyped ==
    ASSUME MapTyped, IInv, NEW t \in Threads, AnyStep(t), ClearLocked(t)
    PROVE  MapTyped'
<1>1. /\ HeapTyped /\ Len(node) \in Nat /\ WalkTyped(walk[t]) /\ opc[t] = "ClearLock"
      /\ UNCHANGED <<node, locked, plan, call>> /\ call[t].op = "clear" /\ To(t, "Clear", 0)
      /\ cur[t] \in 0..Len(node) /\ t \in DOMAIN walk /\ AtTyped(walk[t].at)
  BY PlaceTyped DEF ClearLocked, At, Control, MapTyped, Domains, WalkTyped
<1>2. Linked(node') /\ Ranked(node') /\ Len(node') = Len(node) /\ Len(node) <= Len(node')
  BY <1>1, SameCuts DEF Cuts
<1>3. Fits(t, "Clear", 0)
  BY <1>1 DEF Fits
<1> DEFINE n == tab[t]
           i == walk[t].at.index
           r == walk[t].removed + Len(Chain(cur[t]))
<1>4. CASE UNCHANGED <<bins, walk>>
  BY <1>1, <1>2, <1>3, <1>4, UpdateTyped
<1>5. CASE ~UNCHANGED <<bins, walk>>
  <2>1. /\ bins' = [bins EXCEPT ![n][i] = 0]
        /\ walk' = [walk EXCEPT ![t].at.index = i + 1, ![t].removed = r]
    BY <1>5 DEF ClearLocked
  <2>2. BinSet(n, i, 0) /\ 0 \in 0..Len(node')
    BY <1>1, <1>2, <2>1 DEF BinSet
  <2>3. i + 1 \in Nat /\ r \in Nat
    <3>1. Walks(node, cur[t], Chain(cur[t]))
      BY <1>1, ChainWalks DEF HeapTyped
    <3>2. Len(Chain(cur[t])) \in Nat
      BY <3>1, LenProperties DEF Walks
    <3>3. walk[t].removed \in Nat /\ i \in Nat
      BY <1>1 DEF WalkTyped, AtTyped
    <3> QED
      BY <3>2, <3>3
  <2> DEFINE w1 == [walk EXCEPT ![t].at.index = i + 1]
             a == [walk[t].at EXCEPT !.index = i + 1]
  <2>4. walk' = [w1 EXCEPT ![t].removed = r] /\ t \in DOMAIN w1
    BY <1>1, <2>1
  <2>5. IsWalk(w1[t], a, walk[t].met, walk[t].removed, walk[t].sight)
    BY <1>1, IndexStored DEF WalkTyped
  <2> HIDE DEF w1, r
  <2>6. AtTyped(a)
    BY <1>1, <2>3, IndexTyped
  <2> HIDE DEF a, n, i
  <2>7. IsWalk(walk'[t], a, walk[t].met, r, walk[t].sight)
    <3>1. IsWalk([w1 EXCEPT ![t].removed = r][t], a, walk[t].met, r, walk[t].sight)
      BY <2>4, <2>5, RemovedStored
    <3> QED
      BY <2>4, <3>1
  <2>8. WalkTyped(walk'[t]) /\ walk'[t].sight = walk[t].sight
    BY <1>1, <2>3, <2>6, <2>7 DEF WalkTyped, IsWalk
  <2> QED
    BY <1>1, <1>2, <1>3, <2>2, <2>8, UpdateTyped
<1> QED
  BY <1>4, <1>5

-----------------------------------------------------------------------------
(* The transfer of a list *)

LEMMA GreatestNat ==
    ASSUME NEW n \in Nat, NEW S \in SUBSET (1..n), S # {}
    PROVE  \E m \in S : \A l \in S : l <= m
<1> DEFINE T == {x \in Nat : n - x \in S}
<1>1. PICK s \in S : TRUE
  OBVIOUS
<1>2. s \in 1..n /\ n - s \in Nat /\ n - (n - s) = s
  BY <1>1
<1>3. T \in SUBSET Nat /\ T # {}
  BY <1>1, <1>2
<1>4. PICK x \in T : \A y \in T : x <= y
  <2> HIDE DEF T
  <2> QED
    BY <1>3, LeastNat
<1>5. n - x \in S /\ x \in Nat
  BY <1>4
<1>6. ASSUME NEW l \in S PROVE l <= n - x
  <2>1. l \in 1..n /\ n - l \in Nat /\ n - (n - l) = l
    BY <1>6
  <2>2. n - l \in T
    BY <2>1
  <2>3. x <= n - l
    BY <1>4, <2>2
  <2> HIDE DEF T
  <2> QED
    BY <1>5, <2>1, <2>3
<1> QED
  BY <1>5, <1>6

(* The last run of a list: the longest tail with one value of half *)
LEMMA RunExists ==
    ASSUME NEW n \in Nat, n > 0, NEW f
    PROVE  \E j \in 1..n : /\ \A m \in j..n : f[m] = f[n]
                           /\ j > 1 => f[j - 1] # f[n]
<1> DEFINE T == {j \in 1..n : \A m \in j..n : f[m] = f[n]}
<1>1. T \in SUBSET Nat /\ n \in T
  OBVIOUS
<1>2. PICK j \in T : \A l \in T : j <= l
  <2>1. T # {}
    BY <1>1
  <2> HIDE DEF T
  <2> QED
    BY <1>1, <2>1, LeastNat
<1>3. j \in 1..n /\ \A m \in j..n : f[m] = f[n]
  BY <1>2
<1>4. ASSUME j > 1, f[j - 1] = f[n] PROVE FALSE
  <2>1. j - 1 \in 1..n /\ ~(j <= j - 1) /\ \A m \in (j - 1)..n : m = j - 1 \/ m \in j..n
    BY <1>3, <1>4
  <2>2. \A m \in (j - 1)..n : f[m] = f[n]
    BY <1>3, <1>4, <2>1
  <2>3. j - 1 \in T
    BY <2>1, <2>2
  <2> QED
    BY <1>2, <2>1, <2>3
<1> QED
  BY <1>3, <1>4

LEMMA InBin ==
    ASSUME IInv, NEW t \in Threads, pc[t] = "TransferBin"
    PROVE  tab[t] \in Caps /\ tab[t] \in Nat /\ idx[t] \in 0..(tab[t] - 1)
<1>1. tab[t] \in Caps \cup {Null} /\ tab[t] \in Nat /\ idx[t] \in Int
  BY LocalValues DEF IInv, TypeOK
<1>2. Locals(t)
  BY DEF IInv
<1>3. tab[t] # Null
  BY <1>2 DEF Locals, TabPcs, TransferPcs, FillPcs
<1>4. idx[t] >= 0 /\ idx[t] < tab[t]
  BY <1>2 DEF Locals
<1> QED
  BY <1>1, <1>3, <1>4

LEMMA SplitIs ==
    ASSUME MapTyped, IInv, NEW t \in Threads, TransferSplit(t), NEW half,
           half = [id \in 1..Len(node) |-> High(id, tab[t])]
    PROVE  /\ BinAt(t) \in 1..Len(node) /\ tab[t] \in Caps /\ idx[t] \in 0..(tab[t] - 1)
           /\ \E run, link, first :
                 /\ IsSplit(node, Chain(BinAt(t)), half, run, link, node', first)
                 /\ plan' = Set(plan, t, [head |-> BinAt(t), low |-> first[0], high |-> first[1],
                                          stage |-> "low"])
<1> DEFINE n == tab[t]
           chain == Chain(BinAt(t))
           run == CHOOSE j \in DOMAIN chain :
                     /\ \A m \in j..Len(chain) : High(chain[m], n) = High(chain[Len(chain)], n)
                     /\ j > 1 => High(chain[j - 1], n) # High(chain[Len(chain)], n)
           base == Len(node)
           Before(j) == {m \in 1..(j - 1) : High(chain[m], n) = High(chain[j], n)}
           Link(j) ==
               IF Before(j) # {} THEN base + (CHOOSE m \in Before(j) : \A l \in Before(j) : l <= m)
               ELSE IF High(chain[j], n) = High(chain[run], n) THEN chain[run] ELSE 0
           copies == [j \in 1..(run - 1) |->
                         [node[chain[j]] EXCEPT !.next = Link(j)]]
           S(h) == {m \in 1..(run - 1) : High(chain[m], n) = h}
           FirstOf(h) ==
               IF S(h) # {} THEN base + (CHOOSE m \in S(h) : \A l \in S(h) : l <= m)
               ELSE IF High(chain[run], n) = h THEN chain[run] ELSE 0
           link == [j \in 1..(run - 1) |-> Link(j)]
           first == [b \in {0, 1} |-> FirstOf(b)]
<1>1. /\ node' = node \o copies
      /\ plan' = Set(plan, t, [head |-> BinAt(t), low |-> FirstOf(0), high |-> FirstOf(1),
                               stage |-> "low"])
      /\ pc[t] = "TransferBin" /\ BinAt(t) # 0
  BY Zenon DEF TransferSplit
<1>2. n \in Caps /\ idx[t] \in 0..(n - 1)
  BY <1>1, InBin, Zenon
<1>3. BinAt(t) \in 1..Len(node)
  <2>1. BinAt(t) \in 0..Len(node) /\ Len(node) \in Nat
    BY <1>2, PlaceTyped DEF BinAt, HeapTyped
  <2> HIDE DEF run, copies, FirstOf
  <2> QED
    BY <1>1, <2>1
<1> HIDE DEF n
<1>4. Walks(node, BinAt(t), chain)
  BY <1>3, ChainWalks, PlaceTyped DEF HeapTyped
<1> HIDE DEF chain
<1>5. chain \in Seq(1..Len(node)) /\ Len(chain) \in Nat /\ Len(chain) > 0 /\ DOMAIN chain = 1..Len(chain)
  BY <1>3, <1>4, LenProperties DEF Walks
<1>6. \A m \in 1..Len(chain) : chain[m] \in 1..Len(node) /\ half[chain[m]] = High(chain[m], n)
  <2> SUFFICES ASSUME NEW m \in 1..Len(chain)
               PROVE  chain[m] \in 1..Len(node) /\ half[chain[m]] = High(chain[m], n)
    OBVIOUS
  <2>1. chain[m] \in 1..Len(node)
    BY <1>5, ElementOfSeq
  <2> QED
    BY <2>1 DEF n
<1>7. /\ run \in 1..Len(chain)
      /\ \A m \in run..Len(chain) : High(chain[m], n) = High(chain[Len(chain)], n)
  <2> DEFINE f == [m \in 1..Len(chain) |-> High(chain[m], n)]
  <2>1. \E j \in 1..Len(chain) : /\ \A m \in j..Len(chain) : f[m] = f[Len(chain)]
                                 /\ j > 1 => f[j - 1] # f[Len(chain)]
    <3> HIDE DEF f
    <3> QED
      BY <1>5, RunExists
  <2>2. \E j \in DOMAIN chain :
            /\ \A m \in j..Len(chain) : High(chain[m], n) = High(chain[Len(chain)], n)
            /\ j > 1 => High(chain[j - 1], n) # High(chain[Len(chain)], n)
    <3>1. PICK j \in 1..Len(chain) : /\ \A m \in j..Len(chain) : f[m] = f[Len(chain)]
                                     /\ j > 1 => f[j - 1] # f[Len(chain)]
      BY <2>1
    <3>2. /\ \A m \in j..Len(chain) : m \in 1..Len(chain)
          /\ j > 1 => j - 1 \in 1..Len(chain)
          /\ Len(chain) \in 1..Len(chain)
      BY <1>5
    <3>3. \A m \in j..Len(chain) : High(chain[m], n) = High(chain[Len(chain)], n)
      BY <3>1, <3>2
    <3>4. j > 1 => High(chain[j - 1], n) # High(chain[Len(chain)], n)
      BY <3>1, <3>2
    <3> QED
      BY <1>5, <3>3, <3>4
  <2> QED
    BY <1>5, <2>2
<1> HIDE DEF run
<1>8. run - 1 \in Nat /\ \A j \in 1..(run - 1) : j \in 1..Len(chain) /\ \A m \in 1..(j - 1) : m \in 1..Len(chain)
  BY <1>5, <1>7
<1>9. \A m \in run..Len(chain) : half[chain[m]] = half[chain[run]]
  <2>1. \A m \in run..Len(chain) : m \in 1..Len(chain)
    BY <1>5, <1>7
  <2>2. run \in run..Len(chain)
    BY <1>5, <1>7
  <2> QED
    BY <1>6, <1>7, <2>1, <2>2
<1>10. ASSUME NEW j \in 1..(run - 1)
       PROVE  InFront(node, chain, half, run, half[chain[j]], j, Link(j))
  <2>1. CASE Before(j) # {}
    <3> DEFINE m == CHOOSE m \in Before(j) : \A l \in Before(j) : l <= m
    <3>1. Before(j) \in SUBSET (1..(j - 1)) /\ j - 1 \in Nat
      BY <1>8
    <3>2. \E x \in Before(j) : \A l \in Before(j) : l <= x
      <4> HIDE DEF Before
      <4> QED
        BY <2>1, <3>1, GreatestNat
    <3>3. m \in Before(j)
      BY <3>2
    <3>4. Link(j) = base + m
      BY <2>1
    <3> HIDE DEF m, Link
    <3>5. m \in 1..(j - 1) /\ High(chain[m], n) = High(chain[j], n)
      BY <3>3
    <3>6. \A l \in 1..(j - 1) : High(chain[l], n) = High(chain[j], n) => l <= m
      BY <3>2 DEF m
    <3> HIDE DEF Before
    <3> QED
      BY <1>6, <1>8, <3>4, <3>5, <3>6 DEF InFront
  <2>2. CASE Before(j) = {}
    <3>1. Link(j) = IF High(chain[j], n) = High(chain[run], n) THEN chain[run] ELSE 0
      BY <2>2
    <3>2. \A l \in 1..(j - 1) : High(chain[l], n) # High(chain[j], n)
      BY <2>2
    <3> HIDE DEF Link, Before
    <3> QED
      BY <1>6, <1>7, <1>8, <3>1, <3>2 DEF InFront
  <2> QED
    BY <2>1, <2>2
<1>11. ASSUME NEW b \in {0, 1}
       PROVE  InFront(node, chain, half, run, b, run, FirstOf(b))
  <2>1. CASE S(b) # {}
    <3> DEFINE m == CHOOSE m \in S(b) : \A l \in S(b) : l <= m
    <3>1. S(b) \in SUBSET (1..(run - 1))
      OBVIOUS
    <3>2. \E x \in S(b) : \A l \in S(b) : l <= x
      <4> HIDE DEF S
      <4> QED
        BY <1>8, <2>1, <3>1, GreatestNat
    <3>3. m \in S(b)
      BY <3>2
    <3>4. FirstOf(b) = base + m
      BY <2>1
    <3> HIDE DEF m, FirstOf
    <3>5. m \in 1..(run - 1) /\ High(chain[m], n) = b
      BY <3>3
    <3>6. \A l \in 1..(run - 1) : High(chain[l], n) = b => l <= m
      BY <3>2 DEF m
    <3> HIDE DEF S
    <3> QED
      BY <1>6, <1>8, <3>4, <3>5, <3>6 DEF InFront
  <2>2. CASE S(b) = {}
    <3>1. FirstOf(b) = IF High(chain[run], n) = b THEN chain[run] ELSE 0
      BY <2>2
    <3>2. \A l \in 1..(run - 1) : High(chain[l], n) # b
      BY <2>2
    <3> HIDE DEF FirstOf, S
    <3> QED
      BY <1>6, <1>7, <1>8, <3>1, <3>2 DEF InFront
  <2> QED
    BY <2>1, <2>2
<1> HIDE DEF Link, FirstOf, Before, S
<1>12. \A j \in 1..(run - 1) : link[j] = Link(j)
  OBVIOUS
<1>13. first[0] = FirstOf(0) /\ first[1] = FirstOf(1)
  OBVIOUS
<1>14. Copied(node, run - 1, chain, link, node')
  BY <1>1 DEF Copied
<1>15. link \in [1..(run - 1) -> 0..(Len(node) + (run - 1))]
  <2>1. ASSUME NEW j \in 1..(run - 1) PROVE Link(j) \in 0..(Len(node) + (run - 1))
    <3>1. Len(node) \in Nat /\ base \in Nat /\ chain[run] \in 1..Len(node)
      BY <1>6, <1>7, PlaceTyped
    <3>2. 0 \in 0..(Len(node) + (run - 1)) /\ chain[run] \in 0..(Len(node) + (run - 1))
          /\ \A m \in 1..(j - 1) : Len(node) + m \in 0..(Len(node) + (run - 1))
      BY <1>8, <3>1
    <3>3. \/ Link(j) = 0 \/ Link(j) = chain[run]
          \/ \E m \in 1..(j - 1) : Link(j) = Len(node) + m
      BY <1>10, Zenon DEF InFront
    <3> QED
      BY <3>2, <3>3
  <2> QED
    BY <2>1
<1> HIDE DEF link, first, copies
<1>16. IsSplit(node, chain, half, run, link, node', first)
  BY <1>7, <1>9, <1>10, <1>11, <1>12, <1>13, <1>14, <1>15 DEF IsSplit
<1>17. plan' = Set(plan, t, [head |-> BinAt(t), low |-> first[0], high |-> first[1], stage |-> "low"])
  BY <1>1, <1>13
<1> QED
  BY <1>2, <1>3, <1>16, <1>17 DEF chain, n

-----------------------------------------------------------------------------
(* The types after a step of the transfer *)

LEMMA TransferTyped ==
    ASSUME MapTyped, IInv, NEW t \in Threads, AnyStep(t), Linked(node'), Ranked(node'),
           Len(node) <= Len(node'), locked' \subseteq 1..Len(node'),
           bins' = bins \/ \E n, i : \E v \in 0..Len(node') : BinSet(n, i, v),
           plan' \in [Threads -> Plans]', UNCHANGED <<call, walk, opc, cur>>,
           opc[t] \in {"Cas", "Lock"} => tab'[t] # Null /\ pc'[t] = "idle"
    PROVE  MapTyped'
<1>1. HeapTyped /\ Len(node) \in Nat /\ Len(node') \in Nat /\ WalkTyped(walk[t])
  BY PlaceTyped, LinkedIs
<1>2. /\ cur' \in [Threads -> 0..Len(node)]
      /\ Control(t)' /\ CallTyped(call[t])'
  BY Stays
<1>3. BinsTyped(bins, Len(node))
  BY <1>1 DEF HeapTyped, BinsTyped
<1>4. BinsTyped(bins', Len(node'))
  BY <1>1, <1>3, BinsStored DEF BinSet
<1>5. \A j \in 0..Len(node) : j \in 0..Len(node')
  BY <1>1
<1>6. HeapTyped'
  BY <1>2, <1>4, <1>5 DEF HeapTyped, BinsTyped
<1>7. WalkTyped(walk[t])'
  BY <1>1, WalkSame
<1> QED
  BY <1>2, <1>6, <1>7, MapTypedNext DEF LocalsTyped

LEMMA StageStored ==
    ASSUME plan \in [Threads -> Plans], NEW t \in Threads, NEW s \in {"none", "low", "high", "moved"},
           NEW p, p = [plan EXCEPT ![t].stage = s]
    PROVE  /\ p \in [Threads -> Plans]
           /\ \A u \in Threads : u # t => p[u] = plan[u]
           /\ p[t].head = plan[t].head /\ p[t].low = plan[t].low /\ p[t].high = plan[t].high
           /\ p[t].stage = s
<1> DEFINE q == plan[t]
           e == [q EXCEPT !.stage = s]
<1>1. q \in Plans
  OBVIOUS
<1>2. p = [plan EXCEPT ![t] = e]
  OBVIOUS
<1> HIDE DEF q
<1>3. e \in Plans /\ e.head = q.head /\ e.low = q.low /\ e.high = q.high /\ e.stage = s
  BY <1>1 DEF Plans
<1> HIDE DEF e
<1> QED
  BY <1>2, <1>3 DEF q

LEMMA StoresTyped ==
    ASSUME MapTyped, IInv, NEW t \in Threads, AnyStep(t), TransferStoreLow(t) \/ TransferStoreHigh(t)
    PROVE  MapTyped'
<1>1. /\ HeapTyped /\ Len(node) \in Nat /\ Control(t) /\ plan \in [Threads -> Plans]
      /\ UNCHANGED <<resizeVars, node, locked, walk, call, opc, cur>>
  BY PlaceTyped DEF TransferStoreLow, TransferStoreHigh, HeapTyped
<1>2. Linked(node') /\ Ranked(node') /\ Len(node') = Len(node) /\ Len(node) <= Len(node')
  BY <1>1, SameCuts DEF Cuts
<1>3. plan[t] \in Plans
  BY <1>1
<1>4. plan[t].low \in 0..Len(node') /\ plan[t].high \in 0..Len(node')
  BY <1>2, <1>3 DEF Plans
<1>5. Plans' = Plans
  BY <1>2 DEF Plans
<1>6. \E n, i : \E v \in 0..Len(node') : BinSet(n, i, v)
  <2>1. CASE TransferStoreLow(t)
    <3>1. BinSet(nt[t], idx[t], plan[t].low)
      BY <2>1 DEF TransferStoreLow, BinSet
    <3> QED
      BY <1>4, <3>1
  <2>2. CASE TransferStoreHigh(t)
    <3>1. BinSet(nt[t], idx[t] + tab[t], plan[t].high)
      BY <2>2 DEF TransferStoreHigh, BinSet
    <3> QED
      BY <1>4, <3>1
  <2> QED
    BY <2>1, <2>2
<1>7. \E s \in {"none", "low", "high", "moved"} : plan' = [plan EXCEPT ![t].stage = s]
  BY DEF TransferStoreLow, TransferStoreHigh
<1>8. plan' \in [Threads -> Plans]'
  BY <1>1, <1>5, <1>7, StageStored
<1>9. opc[t] \in {"Cas", "Lock"} => tab'[t] # Null /\ pc'[t] = "idle"
  BY <1>1 DEF Control
<1>10. locked' \subseteq 1..Len(node')
  BY <1>1, <1>2 DEF HeapTyped
<1> QED
  BY <1>1, <1>2, <1>6, <1>8, <1>9, <1>10, TransferTyped

LEMMA ListBinTyped ==
    ASSUME MapTyped, IInv, NEW t \in Threads, AnyStep(t), TransferListBin(t)
    PROVE  MapTyped'
<1>1. /\ HeapTyped /\ Len(node) \in Nat /\ Control(t) /\ plan \in [Threads -> Plans]
      /\ UNCHANGED <<node, walk, call, opc, cur>> /\ pc[t] = "TransferBin"
      /\ BinSet(tab[t], idx[t], 0) /\ locked' \subseteq locked /\ plan' = Set(plan, t, NoPlan)
  BY PlaceTyped DEF TransferListBin, TransferMoveBin, BinSet, HeapTyped
<1>2. Linked(node') /\ Ranked(node') /\ Len(node') = Len(node) /\ Len(node) <= Len(node')
  BY <1>1, SameCuts DEF Cuts
<1>3. plan' \in [Threads -> Plans]'
  BY <1>1, <1>2 DEF Plans, NoPlan, Set
<1>4. \E n, i : \E v \in 0..Len(node') : BinSet(n, i, v)
  <2>1. 0 \in 0..Len(node')
    BY <1>1, <1>2
  <2> QED
    BY <1>1, <2>1
<1>5. locked' \subseteq 1..Len(node')
  BY <1>1, <1>2 DEF HeapTyped
<1>6. opc[t] \notin {"Cas", "Lock"}
  BY <1>1 DEF Control
<1> QED
  BY <1>1, <1>2, <1>3, <1>4, <1>5, <1>6, TransferTyped

LEMMA SplitTyped ==
    ASSUME MapTyped, IInv, NEW t \in Threads, AnyStep(t), TransferSplit(t)
    PROVE  MapTyped'
<1> DEFINE half == [id \in 1..Len(node) |-> High(id, tab[t])]
           s == Chain(BinAt(t))
<1>1. /\ HeapTyped /\ Len(node) \in Nat /\ Control(t) /\ plan \in [Threads -> Plans]
      /\ Linked(node) /\ Ranked(node)
      /\ UNCHANGED <<resizeVars, bins, walk, call, opc, cur>> /\ pc[t] = "TransferBin"
      /\ locked' = locked \cup {BinAt(t)}
  BY PlaceTyped, SplitLeaves DEF HeapTyped
<1>2. /\ BinAt(t) \in 1..Len(node)
      /\ \E run, link, first :
            /\ IsSplit(node, s, half, run, link, node', first)
            /\ plan' = Set(plan, t, [head |-> BinAt(t), low |-> first[0], high |-> first[1],
                                     stage |-> "low"])
  BY SplitIs
<1> HIDE DEF half
<1>3. Walks(node, BinAt(t), s)
  <2>1. BinAt(t) \in 0..Len(node)
    BY <1>1, <1>2
  <2> QED
    BY <1>1, <2>1, ChainWalks
<1> HIDE DEF s
<1>4. PICK run : \E link, first :
            /\ IsSplit(node, s, half, run, link, node', first)
            /\ plan' = Set(plan, t, [head |-> BinAt(t), low |-> first[0], high |-> first[1],
                                     stage |-> "low"])
  BY <1>2
<1>5. PICK link, first :
            /\ IsSplit(node, s, half, run, link, node', first)
            /\ plan' = Set(plan, t, [head |-> BinAt(t), low |-> first[0], high |-> first[1],
                                     stage |-> "low"])
  BY <1>4
<1>6. /\ Linked(node') /\ run - 1 \in Nat /\ Len(node') = Len(node) + (run - 1)
      /\ \A j \in 1..(run - 1) : s[j] \in 1..Len(node)
  BY <1>1, <1>2, <1>3, <1>5, SplitNodes
<1>7. Ranked(node')
  BY <1>1, <1>2, <1>3, <1>5, SplitRanked
<1>8. Len(node) <= Len(node') /\ Len(node') \in Nat
  BY <1>1, <1>6
<1>9. \A b \in {0, 1} : first[b] \in 0..Len(node')
  <2> SUFFICES ASSUME NEW b \in {0, 1} PROVE first[b] \in 0..Len(node')
    OBVIOUS
  <2>1. \/ first[b] = 0
        \/ first[b] = s[run]
        \/ \E m \in 1..(run - 1) : first[b] = Len(node) + m
    <3>1. InFront(node, s, half, run, b, run, first[b])
      BY <1>5 DEF IsSplit
    <3> QED
      BY <3>1 DEF InFront
  <2>2. s[run] \in 1..Len(node)
    <3>1. run \in 1..Len(s) /\ s \in Seq(1..Len(node))
      BY <1>3, <1>5 DEF IsSplit, Walks
    <3> QED
      BY <3>1, ElementOfSeq
  <2>3. s[run] \in 0..Len(node') /\ 0 \in 0..Len(node')
        /\ \A m \in 1..(run - 1) : Len(node) + m \in 0..Len(node')
    BY <1>1, <1>6, <2>2
  <2> QED
    BY <2>1, <2>3
<1>10. plan' \in [Threads -> Plans]'
  <2> DEFINE e == [head |-> BinAt(t), low |-> first[0], high |-> first[1], stage |-> "low"]
  <2>1. \A j \in 0..Len(node) : j \in 0..Len(node')
    BY <1>1, <1>8
  <2>2. BinAt(t) \in 0..Len(node') /\ first[0] \in 0..Len(node') /\ first[1] \in 0..Len(node')
    BY <1>2, <1>8, <1>9
  <2>3. e \in Plans'
    BY <2>2 DEF Plans
  <2>4. \A u \in Threads : plan[u] \in Plans'
    BY <1>1, <2>1 DEF Plans
  <2> HIDE DEF e
  <2> QED
    BY <1>1, <1>5, <2>3, <2>4 DEF Set, e
<1>11. locked' \subseteq 1..Len(node')
  <2>1. \A j \in 1..Len(node) : j \in 1..Len(node')
    BY <1>1, <1>8
  <2> QED
    BY <1>1, <1>2, <2>1 DEF HeapTyped
<1>12. opc[t] \notin {"Cas", "Lock"}
  BY <1>1 DEF Control
<1> QED
  BY <1>1, <1>6, <1>7, <1>8, <1>10, <1>11, <1>12, TransferTyped

LEMMA StepTyped ==
    ASSUME MapTyped, IInv, NEW t \in Threads, AnyStep(t)
    PROVE  MapTyped'
<1>1. ASSUME NEW c \in Abstract!Calls \cup {[op |-> "iter"]}, Begin(t, c) PROVE MapTyped'
  BY <1>1, BeginTyped
<1>2. CASE Operation(t)
  BY <1>2, LoadTableTyped, BinStepsTyped, ReadsTyped, AfterTyped, EndTyped, WalkBinTyped, WalkOnTyped,
     RetainTyped, ClearStepsTyped, PutCasTyped, PutLockedTyped, CutsTyped, ClearLockedTyped DEF Operation
<1>3. CASE Transfer(t)
  BY <1>3, RoutineTyped, StoresTyped, ListBinTyped, SplitTyped DEF Transfer
<1>4. CASE Routine(t)
  BY <1>4, RoutineTyped
<1> QED
  BY <1>1, <1>2, <1>3, <1>4 DEF AnyStep, MapStep

-----------------------------------------------------------------------------
(* The types of the map in every state *)

LEMMA NothingLinked == Linked(<<>>) /\ Ranked(<<>>)
<1>1. <<>> \in Seq({}) /\ Len(<<>>) = 0
  BY EmptySeq
<1>2. Linked(<<>>)
  BY <1>1 DEF Linked
<1>3. Ranked(<<>>)
  <2> DEFINE r == [j \in 1..0 |-> 0]
  <2>1. r \in [1..Len(<<>>) -> 0..0] /\ Falls(<<>>, r) /\ 0 \in Nat
    BY <1>1 DEF Falls
  <2> QED
    BY <2>1 DEF Ranked
<1> QED
  BY <1>2, <1>3

LEMMA NoWalkTyped ==
    ASSUME Len(node) \in Nat
    PROVE  WalkTyped(NoWalk) /\ NoWalk.sight.node = 0
<1>1. AtTyped(WalkFrom(Null))
  BY WalkFromTyped
<1> DEFINE a == WalkFrom(Null)
<1> HIDE DEF a
<1>2. NoWalk = [at |-> a, met |-> <<>>, removed |-> 0, sight |-> NoSight]
  BY DEF NoWalk, a
<1>3. NoSight.node = 0
  BY DEF NoSight
<1> HIDE DEF NoSight
<1>4. NoWalk.sight = NoSight /\ NoWalk.at = a /\ NoWalk.removed = 0 /\ NoWalk.met = <<>>
  BY <1>2
<1> QED
  BY <1>1, <1>2, <1>3, <1>4 DEF WalkTyped, IsWalk, a

LEMMA InitMapTyped == Init2 => MapTyped /\ IInv
<1> SUFFICES ASSUME Init2 PROVE MapTyped /\ IInv
  OBVIOUS
<1>1. IInv
  BY InitIInv DEF Init2
<1>2. node = <<>> /\ Len(node) = 0
  BY EmptySeq DEF Init2
<1>3. HeapTyped
  <2>1. Linked(node) /\ Ranked(node)
    BY <1>2, NothingLinked
  <2>2. 0 \in 0..Len(node)
    BY <1>2
  <2>3. \A n \in Caps : bins[n] \in [0..(n - 1) -> 0..Len(node)]
    BY <2>2 DEF Init2
  <2>4. plan \in [Threads -> Plans] /\ cur \in [Threads -> 0..Len(node)]
    BY <2>2 DEF Init2, Plans, NoPlan
  <2> QED
    BY <2>1, <2>3, <2>4 DEF HeapTyped, Init2
<1>4. Domains
  BY DEF Domains, Init2
<1>5. ASSUME NEW t \in Threads PROVE LocalsTyped(t)
  <2>1. call[t] = [op |-> "none"] /\ opc[t] = "idle" /\ walk[t] = NoWalk
    BY DEF Init2
  <2>2. WalkTyped(walk[t]) /\ walk[t].sight.node = 0
    BY <1>2, <2>1, NoWalkTyped
  <2>3. CallTyped(call[t]) /\ call[t].op = "none"
    BY <2>1 DEF CallTyped
  <2>4. Control(t)
    BY <2>1, <2>2, <2>3 DEF Control, Removing
  <2> QED
    BY <2>2, <2>3, <2>4 DEF LocalsTyped
<1> QED
  BY <1>1, <1>3, <1>4, <1>5 DEF MapTyped

(* Of everything but the history variables, a step of the map is a step of
   one thread or nothing. *)
LEMMA MapSteps ==
    ASSUME [MapNext]_vars
    PROVE  (\E t \in Threads : AnyStep(t)) \/ UNCHANGED <<resizeVars, heap, opLocals>>
<1>1. CASE MapNext
  <2>1. CASE Rest
    BY <2>1 DEF Rest
  <2>2. CASE \E t \in Threads :
                \/ MapStep(t)
                \/ \E c \in (Abstract!Calls \cup {[op |-> "iter"]}) \cap Explored : Begin(t, c)
    BY <2>2 DEF AnyStep
  <2> QED
    BY <1>1, <2>1, <2>2 DEF MapNext
<1>2. CASE UNCHANGED vars
  BY <1>2 DEF vars
<1> QED
  BY <1>1, <1>2

LEMMA RestTyped ==
    ASSUME MapTyped, IInv, UNCHANGED <<resizeVars, heap, opLocals>>
    PROVE  MapTyped' /\ IInv'
<1>1. IInv'
  <2>1. [Next]_resizeVars
    OBVIOUS
  <2> QED
    BY <2>1, NextIInv
<1>2. HeapTyped /\ Len(node) \in Nat
  BY LenTyped DEF MapTyped
<1>3. HeapTyped' /\ Len(node') = Len(node)
  <2>1. cur' \in [Threads -> 0..Len(node)]
    BY <1>2 DEF HeapTyped
  <2> QED
    BY <1>2, <2>1, HeapSame
<1>4. Domains'
  BY DEF MapTyped, Domains
<1>5. ASSUME NEW u \in Threads PROVE LocalsTyped(u)'
  <2>1. LocalsTyped(u) /\ call' = call /\ walk' = walk /\ opc' = opc /\ cur' = cur /\ tab' = tab /\ pc' = pc
    BY DEF MapTyped
  <2>2. CallTyped(call[u])'
    BY <2>1 DEF LocalsTyped, CallTyped
  <2>3. WalkTyped(walk[u])'
    BY <1>2, <1>3, <2>1, WalkSame DEF LocalsTyped
  <2>4. Control(u)'
    <3>1. Control(u) /\ call'[u] = call[u] /\ walk'[u].sight = walk[u].sight
      BY <2>1 DEF LocalsTyped
    <3> QED
      BY <2>1, <3>1, OpSame DEF Control
  <2> QED
    BY <2>2, <2>3, <2>4 DEF LocalsTyped
<1> QED
  BY <1>1, <1>3, <1>4, <1>5 DEF MapTyped

LEMMA NextMapTyped == MapTyped /\ IInv /\ [MapNext]_vars => (MapTyped /\ IInv)'
<1> SUFFICES ASSUME MapTyped, IInv, [MapNext]_vars PROVE MapTyped' /\ IInv'
  OBVIOUS
<1>1. ASSUME NEW t \in Threads, AnyStep(t) PROVE MapTyped' /\ IInv'
  BY <1>1, StepTyped, MapIInv
<1> QED
  BY <1>1, MapSteps, RestTyped

LEMMA MapTypedIs == MapTyped /\ IInv => MapTypeOK
<1> SUFFICES ASSUME MapTyped, IInv PROVE MapTypeOK
  OBVIOUS
<1>1. TypeOK
  BY DEF IInv
<1>2. HeapTyped /\ DOMAIN node = 1..Len(node) /\ Len(node) \in Nat /\ Linked(node) /\ Ranked(node)
  BY LenTyped DEF MapTyped, HeapTyped
<1>3. ASSUME NEW j \in DOMAIN node
      PROVE  /\ node[j].key \in Keys /\ node[j].val \in Values
             /\ node[j].next \in 0..Len(node) \ {j}
  <2>1. j \in 1..Len(node)
    BY <1>2
  <2>2. node[j].key \in Keys /\ node[j].val \in Values /\ node[j].next \in 0..Len(node)
    BY <1>2, <2>1 DEF Linked
  <2>3. PICK top \in Nat : \E r \in [1..Len(node) -> 0..top] : Falls(node, r)
    BY <1>2 DEF Ranked
  <2>4. PICK r \in [1..Len(node) -> 0..top] : Falls(node, r)
    BY <2>3
  <2>5. node[j].next # j
    <3> SUFFICES ASSUME node[j].next = j PROVE FALSE
      OBVIOUS
    <3>1. j # 0 /\ r[j] \in 0..top
      BY <1>2, <2>1, <2>4
    <3>2. r[j] < r[j]
      BY <2>1, <2>4, <3>1 DEF Falls
    <3> QED
      BY <3>1, <3>2
  <2> QED
    BY <2>2, <2>5
<1>4. \A t \in Threads : opc[t] = "idle" <=> call[t].op = "none"
  BY Zenon DEF MapTyped, LocalsTyped, Control
<1> QED
  BY <1>1, <1>2, <1>3, <1>4 DEF MapTypeOK, HeapTyped

(* The nodes can be numbered so that the numbers fall along every list. *)
ListsEnd == Linked(node) /\ Ranked(node)

(* Whatever the operations and the transfers do and in whatever order: bins
   and next pointers are null or nodes that were allocated, and no node comes
   to point at itself. *)
THEOREM MapTypeCorrect == MapSpec => []MapTypeOK
  BY InitMapTyped, NextMapTyped, MapTypedIs, PTL DEF MapSpec

(* However puts, removals, clears and transfers of any number of threads link
   and copy nodes, no list ever comes back to one of its nodes: a search or a
   walk that follows `next` ends, also one that stands on an unlinked node. *)
THEOREM ListsEndCorrect == MapSpec => []ListsEnd
<1>1. MapTyped => ListsEnd
  BY DEF MapTyped, HeapTyped, ListsEnd
<1> QED
  BY <1>1, InitMapTyped, NextMapTyped, PTL DEF MapSpec

-----------------------------------------------------------------------------
(* The bins that have their entries: those of the table, those that have moved,
   which are empty, and where they have moved to. *)
Live(n, i) ==
    \/ n = table
    \/ i \in moved[n]
    \/ n = 2 * table /\ \E j \in moved[table] : i \in {j, j + table}

(* The keys of a list are of its bin, each once. *)
IsList(nd, x, n, i) ==
    \A a \in Reach(nd, x) :
        /\ Bini(nd[a].key, n) = i
        /\ \A b \in Reach(nd, x) : nd[a].key = nd[b].key => a = b

Planning(t) == plan[t].stage # "none"

(* A bin of the next table that a thread has stored and not yet marked *)
Draft(t, n, i, x) ==
    /\ Planning(t) /\ n = 2 * tab[t]
    /\ \/ i = idx[t] /\ x = plan[t].low
       \/ i = idx[t] + tab[t] /\ x = plan[t].high

Drafts(n, i, x) == x = 0 \/ \E t \in Threads : Draft(t, n, i, x)

LiveBins == \A n \in Caps : \A i \in 0..(n - 1) : Live(n, i) => IsList(node, bins[n][i], n, i)
OtherBins == \A n \in Caps : \A i \in 0..(n - 1) : ~Live(n, i) => Drafts(n, i, bins[n][i])
MovedEmpty == \A n \in Caps : \A i \in moved[n] : bins[n][i] = 0

(* What a thread that holds a bin has made of it *)
PlanFits(t) ==
    Planning(t) =>
        /\ pc[t] = "TransferBin" /\ idx[t] \notin moved[tab[t]]
        /\ BinAt(t) = plan[t].head /\ plan[t].head # 0 /\ plan[t].head \in locked
        /\ IsList(node, plan[t].low, 2 * tab[t], idx[t])
        /\ IsList(node, plan[t].high, 2 * tab[t], idx[t] + tab[t])

PlansApart == \A t, u \in Threads : Planning(t) /\ Planning(u) /\ t # u => idx[t] # idx[u]

Lists ==
    /\ LiveBins /\ OtherBins /\ MovedEmpty /\ PlansApart
    /\ \A t \in Threads : PlanFits(t)

(* The tables from the first with a Moved bin to the current one are Moved. *)
MovedBelow == \A n \in Caps : moved[n] # {} => n <= table
MovedWhole == \A m, n \in Caps : moved[m] # {} /\ m <= n /\ n < table => moved[n] = 0..(n - 1)
Marks == MovedBelow /\ MovedWhole

(* The bin a call is about to read or lock has the entries of its key; if it
   has moved and the call helps, the next table's bin has them. *)
InitPcs == {"InitLoadTable", "InitLoadSizeCtl", "InitClaim", "InitRecheck", "InitStoreTable",
            "InitStoreSizeCtl"}
Aims(t) ==
    opc[t] \in {"Bin", "Cas", "Lock"} =>
        /\ tab[t] = Null \/ Live(tab[t], Bini(Key(t), tab[t]))
        /\ pc[t] \notin {"idle"} \cup InitPcs =>
              pc[t] \in HelpPcs \cup FillPcs /\ rt[t] = "help" /\ ThisBinMoved(t)

KInv == Lists /\ Marks /\ \A t \in Threads : Aims(t)

-----------------------------------------------------------------------------
(* The resize, under the operations of the map *)

LEMMA MapCInv ==
    ASSUME MapTyped, IInv, CInv, NEW t \in Threads, AnyStep(t), JoinsMatch
    PROVE  CInv'
<1>1. CASE UNCHANGED resizeVars
  <2>1. [Next /\ JoinsMatch]_resizeVars
    BY <1>1
  <2> QED
    BY <2>1, NextCInv
<1>2. CASE AnyCall(t)
  BY <1>2, CallCounts
<1>3. CASE Step(t)
  BY <1>3, InitTableCounts, AddCountCounts, HelpTransferCounts, TryPresizeCounts,
     TransferLoopCounts, TransferBinCounts DEF Step
<1> QED
  BY <1>1, <1>2, <1>3, MapResizes

(* A thread that transfers a bin transfers one of the current table. *)
LEMMA BinOfTable ==
    ASSUME IInv, CInv, NEW t \in Threads, pc[t] = "TransferBin"
    PROVE  /\ tab[t] = table /\ nt[t] = 2 * table /\ table \in Caps /\ 2 * table \in Caps
           /\ idx[t] \in 0..(table - 1)
<1>1. Transfers(t)
  BY DEF Transfers, TransferPcs, FillPcs
<1>2. tab[t] \in Caps /\ Resizing(tab[t])
  BY <1>1, InResize
<1>3. ASSUME NEW u \in Threads, Commits(u) PROVE FALSE
  <2>1. fin[u] /\ pc[u] = "TransferCommit"
    BY <1>3 DEF Commits, IInv, Sweep, CommitPcs
  <2>2. t = u
    BY <1>1, <2>1, SweeperAlone
  <2> QED
    BY <2>1, <2>2
<1>4. tab[t] = table /\ tab[t] < MaxCap
  BY <1>2, <1>3 DEF Resizing
<1>5. nt[t] = 2 * tab[t]
  BY DEF CInv, Knows, KnowsNext, FillPcs
<1>6. idx[t] \in 0..(tab[t] - 1)
  BY InBin
<1> QED
  BY <1>2, <1>4, <1>5, <1>6

(* The steps that mark a bin Moved *)
LEMMA MovedOnly ==
    ASSUME NEW t \in Threads, Step(t) \/ AnyCall(t), moved' # moved
    PROVE  TransferMoveBin(t)
<1>1. ~AnyCall(t)
  BY DEF AnyCall, SetsTab, CallInitTable, CallHelpTransfer, CallTryPresize, CallAddCount
<1>2. ~InitTable(t)
  BY DEF InitTable, InitLoadTable, InitLoadSizeCtl, InitClaim, InitRecheck, InitStoreTable, InitStoreSizeCtl
<1>3. ~AddCount(t)
  BY DEF AddCount, AddLoadSizeCtl, AddLoadTable, AddLoadNext, AddLoadIndex, AddJoin,
     AddStart, AddReload
<1>4. ~HelpTransfer(t)
  BY DEF HelpTransfer, HelpForward, HelpCheckNext, HelpCheckTable, HelpLoadSizeCtl,
     HelpLoadIndex, HelpJoin
<1>5. ~TryPresize(t)
  BY DEF TryPresize, PresizeLoad, PresizeLoadTable, PresizeClaim, PresizeRecheck,
     PresizeStoreTable, PresizeStoreSizeCtl, PresizeCheckTable, PresizeStart
<1>6. ~TransferLoop(t)
  BY DEF TransferLoop, TransferAllocate, TransferOpen,
     TransferLoadNext, TransferAdvance, TransferClaim, TransferLoadSizeCtl, TransferDone,
     TransferClearNext, TransferSwap, TransferCommit
<1>7. ~TransferSkipMoved(t) /\ ~TransferForward(t)
  BY DEF TransferSkipMoved, TransferForward
<1> QED
  BY <1>1, <1>2, <1>3, <1>4, <1>5, <1>6, <1>7 DEF Step, TransferBinStep

(* What becomes of the table and of the Moved bins in a step: nothing; or the
   first table is stored; or the table is replaced; or a bin is marked. *)
FirstStored == table = Null /\ table' \in Caps /\ moved' = moved
Swapped ==
    /\ table \in Caps /\ table' = 2 * table /\ moved' = moved
    /\ moved[table] = 0..(table - 1)
    /\ \A u \in Threads : pc[u] # "TransferBin"
Marked(t) ==
    /\ pc[t] = "TransferBin" /\ table' = table
    /\ table \in Caps /\ 2 * table \in Caps /\ tab[t] = table /\ nt[t] = 2 * table
    /\ idx[t] \in (0..(table - 1)) \ moved[table]
    /\ moved' = [moved EXCEPT ![table] = @ \cup {idx[t]}]

LEMMA TableSteps ==
    ASSUME IInv, CInv, IInv', NEW t \in Threads, Step(t) \/ AnyCall(t)
    PROVE  UNCHANGED <<table, moved>> \/ FirstStored \/ Swapped \/ Marked(t)
<1>1. SharedTypes /\ SharedTypes' /\ LocalTypes
  BY DEF IInv, TypeOK
<1>2. CASE TransferMoveBin(t)
  BY <1>2, BinOfTable DEF TransferMoveBin, Marked
<1>3. CASE ~TransferMoveBin(t)
  <2>1. moved' = moved
    BY <1>3, MovedOnly
  <2>2. CASE table = Null
    BY <1>1, <2>1, <2>2 DEF FirstStored, SharedTypes
  <2>3. CASE table # Null /\ table' # table
    <3>1. /\ TransferSwap(t)
          /\ table' = 2 * table
          /\ moved[table] = 0..(table - 1)
      BY <2>3, TableMoves
    <3>2. pc[t] = "TransferSwap" /\ fin[t]
      BY <3>1 DEF TransferSwap, IInv, Sweep, CommitPcs
    <3>3. ASSUME NEW u \in Threads, pc[u] = "TransferBin" PROVE FALSE
      <4>1. Transfers(u)
        BY <3>3 DEF Transfers, TransferPcs, FillPcs
      <4>2. u = t
        BY <3>2, <4>1, SweeperAlone
      <4> QED
        BY <3>2, <3>3, <4>2
    <3>4. table \in Caps
      BY <1>1, <2>3 DEF SharedTypes
    <3> QED
      BY <2>1, <3>1, <3>3, <3>4 DEF Swapped
  <2> QED
    BY <2>1, <2>2, <2>3
<1> QED
  BY <1>2, <1>3

-----------------------------------------------------------------------------
(* A key's bin in a table of twice the length *)

LEMMA Remainder ==
    ASSUME NEW n \in Nat, n > 0, NEW p \in Nat, NEW s \in 0..(n - 1)
    PROVE  (n * p + s) % n = s
<1> DEFINE a == n * p + s
           q == a \div n
           r == a % n
<1>1. n * p \in Nat /\ a \in Nat
  OBVIOUS
<1>2. q \in Int /\ r \in 0..(n - 1) /\ a = n * q + r
  BY <1>1
<1> HIDE DEF q, r
<1>3. CASE q < p
  <2>1. p - q - 1 \in Nat /\ p = q + 1 + (p - q - 1)
    BY <1>2, <1>3
  <2>2. PICK d \in Nat : p = q + 1 + d
    BY <2>1
  <2>3. n * p = n * q + n + n * d /\ n * d \in Nat /\ n * q \in Int
    BY <1>2, <2>2
  <2> QED
    BY <1>2, <2>3
<1>4. CASE p < q
  <2>1. q - p - 1 \in Nat /\ q = p + 1 + (q - p - 1)
    BY <1>2, <1>4
  <2>2. PICK d \in Nat : q = p + 1 + d
    BY <2>1
  <2>3. n * q = n * p + n + n * d /\ n * d \in Nat /\ n * p \in Int
    BY <1>2, <2>2
  <2> QED
    BY <1>2, <2>3
<1>5. CASE p = q
  BY <1>1, <1>2, <1>5 DEF r
<1> QED
  BY <1>2, <1>3, <1>4, <1>5

LEMMA BiniHalves ==
    ASSUME NEW k \in Keys, NEW n \in Caps, 2 * n \in Caps
    PROVE  /\ (Hash[k] \div n) % 2 \in {0, 1}
           /\ Bini(k, 2 * n) = IF (Hash[k] \div n) % 2 = 0 THEN Bini(k, n) ELSE Bini(k, n) + n
<1> DEFINE h == Hash[k]
           q == h \div n
           s == h % n
           p == q \div 2
           b == q % 2
<1>1. h \in Nat /\ n \in Nat /\ n > 0
  OBVIOUS
<1>2. q \in Nat /\ s \in 0..(n - 1) /\ h = n * q + s
  BY <1>1
<1>3. p \in Nat /\ b \in {0, 1} /\ q = 2 * p + b
  <2> HIDE DEF q
  <2> QED
    BY <1>2
<1>4. Bini(k, n) = s /\ Bini(k, 2 * n) = h % (2 * n)
  BY DEF Bini
<1> HIDE DEF h, q, s, p, b
<1>5. 2 * n \in Nat /\ 2 * n > 0 /\ n * q = (2 * n) * p + n * b
  BY <1>1, <1>3
<1>6. CASE b = 0
  <2>1. n * b = 0 /\ h = (2 * n) * p + s /\ s \in 0..(2 * n - 1)
    BY <1>1, <1>2, <1>3, <1>5, <1>6
  <2>2. h % (2 * n) = s
    BY <1>3, <1>5, <2>1, Remainder
  <2> QED
    BY <1>3, <1>4, <1>6, <2>2 DEF b, q, h
<1>7. CASE b = 1
  <2>1. n * b = n /\ h = (2 * n) * p + (s + n) /\ s + n \in 0..(2 * n - 1)
    BY <1>1, <1>2, <1>3, <1>5, <1>7
  <2>2. h % (2 * n) = s + n
    BY <1>3, <1>5, <2>1, Remainder
  <2> QED
    BY <1>3, <1>4, <1>7, <2>2 DEF b, q, h
<1> QED
  BY <1>3, <1>6, <1>7

(* What is in one of the two bins a bin is moved to was in that bin. *)
LEMMA HalfOf ==
    ASSUME NEW k \in Keys, NEW n \in Caps, 2 * n \in Caps, NEW j \in 0..(n - 1),
           Bini(k, 2 * n) \in {j, j + n}
    PROVE  Bini(k, n) = j
<1>1. Bini(k, n) \in 0..(n - 1) /\ n \in Nat
  BY BiniTyped
<1>2. Bini(k, 2 * n) = Bini(k, n) \/ Bini(k, 2 * n) = Bini(k, n) + n
  BY BiniHalves
<1> QED
  BY <1>1, <1>2

-----------------------------------------------------------------------------
(* The Moved bins and the bins with their entries, after a step *)

LEMMA NoneBetween ==
    ASSUME NEW m \in Caps, NEW n \in Caps
    PROVE  m \in Nat /\ n \in Nat /\ m > 0 /\ (n < 2 * m => n <= m)
  OBVIOUS

LEMMA MarksNext ==
    ASSUME IInv, IInv', Marks, NEW t,
           UNCHANGED <<table, moved>> \/ FirstStored \/ Swapped \/ Marked(t)
    PROVE  Marks'
<1>1. SharedTypes /\ SharedTypes'
  BY DEF IInv, TypeOK
<1>2. CASE UNCHANGED <<table, moved>>
  BY <1>2 DEF Marks, MovedBelow, MovedWhole
<1>3. CASE FirstStored
  <2>1. \A n \in Caps : moved'[n] = {}
    BY <1>3 DEF FirstStored, Marks, MovedBelow
  <2> QED
    BY <2>1 DEF Marks, MovedBelow, MovedWhole
<1>4. CASE Swapped
  <2>1. moved' = moved /\ table \in Caps /\ table' = 2 * table /\ moved[table] = 0..(table - 1)
    BY <1>4 DEF Swapped
  <2>2. MovedBelow'
    <3> SUFFICES ASSUME NEW n \in Caps, moved[n] # {} PROVE n <= 2 * table
      BY <2>1 DEF MovedBelow
    <3>1. n <= table
      BY DEF Marks, MovedBelow
    <3>2. n \in Nat /\ table \in Nat
      BY <2>1, NoneBetween
    <3> QED
      BY <3>1, <3>2
  <2>3. MovedWhole'
    <3> SUFFICES ASSUME NEW m \in Caps, NEW n \in Caps, moved[m] # {}, m <= n, n < 2 * table
                 PROVE  moved[n] = 0..(n - 1)
      BY <2>1 DEF MovedWhole
    <3>1. n <= table
      BY <2>1, NoneBetween
    <3>2. n = table \/ n < table
      <4>1. n \in Nat /\ table \in Nat
        BY <2>1, NoneBetween
      <4> QED
        BY <3>1, <4>1
    <3> QED
      BY <2>1, <3>2 DEF Marks, MovedWhole
  <2> QED
    BY <2>2, <2>3 DEF Marks
<1>5. CASE Marked(t)
  <2>1. table' = table /\ table \in Caps
    BY <1>5 DEF Marked
  <2>2. \A n \in Caps : n # table => moved'[n] = moved[n]
    BY <1>1, <1>5 DEF Marked, SharedTypes
  <2>3. MovedBelow'
    <3> SUFFICES ASSUME NEW n \in Caps, moved'[n] # {} PROVE n <= table
      BY <2>1 DEF MovedBelow
    <3>1. n \in Nat /\ table \in Nat
      BY <2>1, NoneBetween
    <3> QED
      BY <2>2, <3>1 DEF Marks, MovedBelow
  <2>4. MovedWhole'
    <3> SUFFICES ASSUME NEW m \in Caps, NEW n \in Caps, moved'[m] # {}, m <= n, n < table
                 PROVE  moved'[n] = 0..(n - 1)
      BY <2>1 DEF MovedWhole
    <3>1. m # table /\ n # table
      BY <2>1, NoneBetween
    <3> QED
      BY <2>2, <3>1 DEF Marks, MovedWhole
  <2> QED
    BY <2>3, <2>4 DEF Marks
<1> QED
  BY <1>2, <1>3, <1>4, <1>5

LEMMA LiveStays ==
    ASSUME IInv, NEW t,
           UNCHANGED <<table, moved>> \/ FirstStored \/ Swapped \/ Marked(t),
           NEW n \in Caps, NEW i \in 0..(n - 1), Live(n, i)
    PROVE  Live(n, i)'
<1>1. SharedTypes
  BY DEF IInv, TypeOK
<1>2. CASE UNCHANGED <<table, moved>>
  BY <1>2 DEF Live
<1>3. CASE FirstStored
  <2>1. moved' = moved /\ i \in moved[n]
    BY <1>3 DEF FirstStored, Live
  <2> QED
    BY <2>1 DEF Live
<1>4. CASE Swapped
  BY <1>4 DEF Swapped, Live
<1>5. CASE Marked(t)
  <2>1. table' = table /\ table \in Caps /\ \A m \in Caps : moved[m] \subseteq moved'[m]
    BY <1>1, <1>5 DEF Marked, SharedTypes
  <2> QED
    BY <2>1 DEF Live
<1> QED
  BY <1>2, <1>3, <1>4, <1>5

LEMMA LiveNew ==
    ASSUME IInv, IInv', Marks, NEW t,
           UNCHANGED <<table, moved>> \/ Swapped \/ Marked(t),
           NEW n \in Caps, NEW i \in 0..(n - 1), Live(n, i)', ~Live(n, i)
    PROVE  Marked(t) /\ n = 2 * table /\ i \in {idx[t], idx[t] + table}
<1>1. SharedTypes /\ SharedTypes'
  BY DEF IInv, TypeOK
<1>2. CASE UNCHANGED <<table, moved>>
  BY <1>2 DEF Live
<1>3. CASE Swapped
  <2>1. /\ moved' = moved /\ table \in Caps /\ table' = 2 * table /\ moved[table] = 0..(table - 1)
        /\ table \in Nat /\ table > 0 /\ 2 * table \in Caps
    BY <1>1, <1>3 DEF Swapped, SharedTypes
  <2>2. n # 2 * table
    <3> SUFFICES ASSUME n = 2 * table PROVE FALSE
      OBVIOUS
    <3>1. i \in 0..(table - 1) \/ i - table \in 0..(table - 1)
      BY <2>1
    <3>2. CASE i \in 0..(table - 1)
      BY <2>1, <3>2 DEF Live
    <3>3. CASE i - table \in 0..(table - 1)
      <4>1. i = (i - table) + table
        BY <2>1
      <4>2. \E j \in 0..(table - 1) : i \in {j, j + table}
        BY <3>3, <4>1
      <4> QED
        BY <2>1, <4>2 DEF Live
    <3> QED
      BY <3>1, <3>2, <3>3
  <2>3. moved[2 * table] = {}
    BY <2>1, NoneBetween DEF Marks, MovedBelow
  <2> QED
    BY <2>1, <2>2, <2>3 DEF Live
<1>4. CASE Marked(t)
  <2>1. /\ table' = table /\ table \in Caps /\ moved'[table] = moved[table] \cup {idx[t]}
        /\ \A m \in Caps : m # table => moved'[m] = moved[m]
    BY <1>1, <1>4 DEF Marked, SharedTypes
  <2> QED
    BY <1>4, <2>1 DEF Live
<1> QED
  BY <1>2, <1>3, <1>4

(* The bin of the table that the keys of a bin are, or were, in *)
RootOf(n, i, j) ==
    /\ table \in Caps /\ j \in 0..(table - 1)
    /\ \/ n = table /\ i = j
       \/ n = 2 * table /\ 2 * table \in Caps /\ i \in {j, j + table}

LEMMA RootIndexed ==
    ASSUME NEW n, NEW i, NEW j, RootOf(n, i, j), NEW k \in Keys, Bini(k, n) = i
    PROVE  Bini(k, table) = j
  BY HalfOf DEF RootOf

LEMMA LiveRoot ==
    ASSUME IInv, NEW n \in Caps, NEW i \in 0..(n - 1), Live(n, i), i \notin moved[n]
    PROVE  \E j : RootOf(n, i, j) /\ (n = table <=> j \notin moved[table])
<1>1. SharedTypes
  BY DEF IInv, TypeOK
<1>2. CASE n = table
  <2>1. RootOf(n, i, i)
    BY <1>2 DEF RootOf
  <2> QED
    BY <1>2, <2>1
<1>3. CASE n # table
  <2>1. n = 2 * table /\ \E j \in moved[table] : i \in {j, j + table}
    BY <1>3 DEF Live
  <2>2. table \in Caps
    BY <1>1, <2>1 DEF SharedTypes
  <2>3. PICK j \in moved[table] : i \in {j, j + table}
    BY <2>1
  <2>4. j \in 0..(table - 1)
    BY <1>1, <2>2 DEF SharedTypes
  <2>5. RootOf(n, i, j)
    BY <2>1, <2>2, <2>3, <2>4 DEF RootOf
  <2> QED
    BY <1>3, <2>5
<1> QED
  BY <1>2, <1>3

(* Lists with the keys of two bins of a table have no node in common. *)
LEMMA RootsApart ==
    ASSUME Linked(node), NEW x, NEW y, NEW n, NEW i, NEW m, NEW j, NEW r, NEW s,
           IsList(node, x, n, i), IsList(node, y, m, j), RootOf(n, i, r), RootOf(m, j, s),
           r # s \/ (n = m /\ i # j)
    PROVE  Reach(node, x) \cap Reach(node, y) = {}
<1> SUFFICES ASSUME NEW a \in Reach(node, x), a \in Reach(node, y) PROVE FALSE
  OBVIOUS
<1>1. a \in 1..Len(node)
  BY DEF Reach
<1>2. node[a].key \in Keys
  BY <1>1 DEF Linked
<1>3. Bini(node[a].key, n) = i /\ Bini(node[a].key, m) = j
  BY DEF IsList
<1>4. Bini(node[a].key, table) = r /\ Bini(node[a].key, table) = s
  BY <1>2, <1>3, RootIndexed
<1> QED
  BY <1>3, <1>4

-----------------------------------------------------------------------------
(* The lists after a step that leaves them alone *)

LEMMA ListShrinks ==
    ASSUME NEW nd, NEW nd2, NEW x, NEW y, NEW n, NEW i, IsList(nd, x, n, i),
           Reach(nd2, y) \subseteq Reach(nd, x),
           \A j \in 1..Len(nd) : nd2[j].key = nd[j].key
    PROVE  IsList(nd2, y, n, i)
<1>1. \A a \in Reach(nd2, y) : a \in Reach(nd, x) /\ a \in 1..Len(nd) /\ nd2[a].key = nd[a].key
  BY DEF Reach
<1> QED
  BY <1>1 DEF IsList

LEMMA EmptyList ==
    ASSUME NEW nd, NEW n, NEW i
    PROVE  IsList(nd, 0, n, i)
  BY ReachNothing DEF IsList

LEMMA PlannerKnows ==
    ASSUME MapTyped, IInv, CInv, Lists, NEW u \in Threads, Planning(u)
    PROVE  /\ pc[u] = "TransferBin" /\ tab[u] = table /\ nt[u] = 2 * table
           /\ table \in Caps /\ 2 * table \in Caps /\ idx[u] \in 0..(table - 1)
           /\ idx[u] \notin moved[table] /\ table \in Nat
           /\ bins[table][idx[u]] = plan[u].head /\ plan[u].head # 0 /\ plan[u].head \in locked
           /\ IsList(node, plan[u].low, 2 * table, idx[u])
           /\ IsList(node, plan[u].high, 2 * table, idx[u] + table)
           /\ plan[u].low \in 0..Len(node) /\ plan[u].high \in 0..Len(node)
<1>1. PlanFits(u)
  BY DEF Lists
<1>2. pc[u] = "TransferBin"
  BY <1>1 DEF PlanFits
<1>3. /\ tab[u] = table /\ nt[u] = 2 * table /\ table \in Caps /\ 2 * table \in Caps
      /\ idx[u] \in 0..(table - 1)
  BY <1>2, BinOfTable
<1>4. plan[u] \in Plans
  BY DEF MapTyped, HeapTyped
<1>5. plan[u].low \in 0..Len(node) /\ plan[u].high \in 0..Len(node)
  BY <1>4 DEF Plans
<1> QED
  BY <1>1, <1>3, <1>5 DEF PlanFits, BinAt

(* Who has a bin of the next table among what it has made *)
LEMMA DraftKnows ==
    ASSUME MapTyped, IInv, CInv, Lists, NEW n, NEW i, NEW x, NEW u \in Threads, Draft(u, n, i, x)
    PROVE  n = 2 * table /\ IsList(node, x, n, i) /\ RootOf(n, i, idx[u])
<1>1. Planning(u)
  BY DEF Draft
<1>2. tab[u] = table
  BY <1>1, PlannerKnows
<1>3. n = 2 * table /\ ((i = idx[u] /\ x = plan[u].low) \/ (i = idx[u] + table /\ x = plan[u].high))
  BY <1>2 DEF Draft
<1> QED
  BY <1>1, <1>3, PlannerKnows DEF RootOf

LEMMA RootUnique ==
    ASSUME NEW n, NEW i, NEW r, NEW s, RootOf(n, i, r), RootOf(n, i, s)
    PROVE  r = s
<1>1. table \in Nat /\ table > 0 /\ r \in 0..(table - 1) /\ s \in 0..(table - 1)
  BY DEF RootOf
<1>2. \/ n = table /\ i = r /\ i = s
      \/ n = 2 * table /\ i \in {r, r + table} /\ i \in {s, s + table}
  BY <1>1 DEF RootOf
<1> QED
  BY <1>1, <1>2

LEMMA ListsFrame ==
    ASSUME MapTyped, IInv, CInv, IInv', Lists, Marks, NEW t \in Threads, UNCHANGED <<heap, plan>>,
           \A u \in Threads : Planning(u) => pc'[u] = pc[u] /\ tab'[u] = tab[u] /\ idx'[u] = idx[u],
           UNCHANGED <<table, moved>> \/ FirstStored \/ Swapped \/ (Marked(t) /\ BinAt(t) = 0)
    PROVE  Lists'
<1>0. SharedTypes /\ \A n \in Caps : moved[n] \subseteq 0..(n - 1)
  BY DEF IInv, TypeOK, SharedTypes
<1>1. bins' = bins /\ node' = node /\ locked' = locked /\ plan' = plan
  OBVIOUS
<1>2. UNCHANGED <<table, moved>> \/ FirstStored \/ Swapped \/ Marked(t)
  OBVIOUS
<1>3. LiveBins'
  <2> SUFFICES ASSUME NEW n \in Caps, NEW i \in 0..(n - 1), Live(n, i)'
               PROVE  IsList(node, bins[n][i], n, i)
    BY <1>1 DEF LiveBins, IsList
  <2>1. CASE Live(n, i)
    BY <2>1 DEF Lists, LiveBins
  <2>2. CASE ~Live(n, i) /\ FirstStored
    <3>1. ASSUME NEW u \in Threads, Planning(u) PROVE FALSE
      <4>1. table \in Caps
        BY <3>1, PlannerKnows
      <4> QED
        BY <2>2, <4>1 DEF FirstStored
    <3>2. bins[n][i] = 0
      BY <2>2, <3>1 DEF Lists, OtherBins, Drafts, Draft
    <3> QED
      BY <3>2, EmptyList
  <2>3. CASE ~Live(n, i) /\ ~FirstStored
    <3>1. Marked(t) /\ n = 2 * table /\ i \in {idx[t], idx[t] + table}
      BY <1>2, <2>3, LiveNew
    <3>2. /\ BinAt(t) = 0 \/ UNCHANGED <<table, moved>> \/ Swapped
          /\ RootOf(n, i, idx[t]) /\ tab[t] = table
      BY <2>3, <3>1 DEF Marked, RootOf
    <3>3. BinAt(t) = 0
      <4>1. ~Swapped
        BY <3>1 DEF Swapped, Marked
      <4>2. ~UNCHANGED <<table, moved>>
        BY <2>3 DEF Live
      <4> QED
        BY <3>2, <4>1, <4>2
    <3>4. ASSUME NEW u \in Threads, Draft(u, n, i, bins[n][i]) PROVE FALSE
      <4>1. idx[u] = idx[t]
        BY <3>2, <3>4, DraftKnows, RootUnique
      <4>2. Planning(u)
        BY <3>4 DEF Draft
      <4> QED
        BY <3>2, <3>3, <4>1, <4>2, PlannerKnows DEF BinAt
    <3>5. bins[n][i] = 0
      BY <2>3, <3>4 DEF Lists, OtherBins, Drafts
    <3> QED
      BY <3>5, EmptyList
  <2> QED
    BY <2>1, <2>2, <2>3
<1>4. OtherBins'
  <2> SUFFICES ASSUME NEW n \in Caps, NEW i \in 0..(n - 1), ~Live(n, i)'
               PROVE  Drafts(n, i, bins[n][i])'
    BY <1>1 DEF OtherBins
  <2>1. ~Live(n, i)
    BY <1>2, LiveStays
  <2>2. Drafts(n, i, bins[n][i])
    BY <2>1 DEF Lists, OtherBins
  <2>3. ASSUME NEW u \in Threads, Draft(u, n, i, bins[n][i]) PROVE Draft(u, n, i, bins[n][i])'
    BY <1>1, <2>3 DEF Draft, Planning
  <2> QED
    BY <1>1, <2>2, <2>3 DEF Drafts
<1>5. MovedEmpty'
  <2> SUFFICES ASSUME NEW n \in Caps, NEW i \in moved'[n] PROVE bins[n][i] = 0
    BY <1>1 DEF MovedEmpty
  <2>1. CASE i \in moved[n]
    BY <2>1 DEF Lists, MovedEmpty
  <2>2. CASE i \notin moved[n]
    <3>1. Marked(t) /\ BinAt(t) = 0
      BY <2>2 DEF FirstStored, Swapped
    <3>2. n = table /\ i = idx[t]
      BY <1>0, <2>2, <3>1 DEF Marked, SharedTypes
    <3> QED
      BY <3>1, <3>2 DEF Marked, BinAt
  <2> QED
    BY <2>1, <2>2
<1>6. PlansApart'
  BY <1>1 DEF Lists, PlansApart, Planning
<1>7. ASSUME NEW u \in Threads PROVE PlanFits(u)'
  <2> SUFFICES ASSUME Planning(u) PROVE PlanFits(u)'
    BY <1>1 DEF PlanFits, Planning
  <2>1. PlanFits(u) /\ tab[u] = table
    BY PlannerKnows DEF Lists
  <2>2. idx[u] \notin moved'[tab[u]]
    <3>1. CASE moved' = moved
      BY <2>1, <3>1 DEF PlanFits
    <3>2. CASE Marked(t) /\ BinAt(t) = 0
      <4>1. idx[u] # idx[t]
        <5>1. bins[table][idx[u]] # 0 /\ bins[table][idx[t]] = 0
          BY <3>2, PlannerKnows DEF BinAt, Marked
        <5> QED
          BY <5>1
      <4>2. moved'[table] = moved[table] \cup {idx[t]}
        BY <1>0, <3>2 DEF Marked, SharedTypes
      <4> QED
        BY <2>1, <4>1, <4>2 DEF PlanFits
    <3> QED
      BY <3>1, <3>2 DEF FirstStored, Swapped
  <2> QED
    BY <1>1, <2>1, <2>2 DEF PlanFits, Planning, BinAt, IsList
<1> QED
  BY <1>3, <1>4, <1>5, <1>6, <1>7 DEF Lists

-----------------------------------------------------------------------------
(* The lists after nodes are taken out of some *)

(* A bin is stored over, or none is. *)
BinsOver(n, i, v) ==
    /\ DOMAIN bins' = Caps
    /\ \A m \in Caps : \A j \in 0..(m - 1) :
          bins'[m][j] = bins[m][j] \/ (m = n /\ j = i /\ bins'[m][j] = v)

LEMMA BinSetOver ==
    ASSUME HeapTyped, NEW n, NEW i, NEW v, bins' = bins \/ BinSet(n, i, v)
    PROVE  BinsOver(n, i, v)
<1>1. CASE bins' = bins
  BY <1>1 DEF HeapTyped, BinsOver
<1>2. CASE BinSet(n, i, v)
  <2>1. DOMAIN bins' = Caps
    BY <1>2 DEF BinSet, HeapTyped
  <2>2. ASSUME NEW m \in Caps, NEW j \in 0..(m - 1)
        PROVE  bins'[m][j] = bins[m][j] \/ (m = n /\ j = i /\ bins'[m][j] = v)
    <3>1. CASE m # n
      BY <1>2, <3>1 DEF BinSet, HeapTyped
    <3>2. CASE m = n
      <4>1. bins'[m] = [bins[m] EXCEPT ![i] = v] /\ DOMAIN bins[m] = 0..(m - 1)
        BY <1>2, <3>2 DEF BinSet, HeapTyped
      <4> QED
        BY <3>2, <4>1
    <3> QED
      BY <3>1, <3>2
  <2> QED
    BY <2>1, <2>2 DEF BinsOver
<1> QED
  BY <1>1, <1>2

(* The bin of a planner is locked. *)
LEMMA PlannerBinLocked ==
    ASSUME MapTyped, IInv, CInv, Lists, NEW u \in Threads, Planning(u), NEW n, NEW i,
           bins[n][i] \notin locked
    PROVE  ~(n = table /\ i = idx[u])
  BY PlannerKnows

(* The plans that are left alone, when no bin they are of is stored over and
   their lists are still theirs *)
LEMMA PlansStay ==
    ASSUME MapTyped, IInv, CInv, Lists, UNCHANGED <<resizeVars, plan, locked>>,
           NEW n, NEW i, NEW v, BinsOver(n, i, v), bins[n][i] \notin locked,
           \A u \in Threads : Planning(u) =>
              /\ IsList(node', plan[u].low, 2 * table, idx[u])
              /\ IsList(node', plan[u].high, 2 * table, idx[u] + table)
    PROVE  PlansApart' /\ \A u \in Threads : PlanFits(u)'
<1>1. PlansApart'
  BY DEF Lists, PlansApart, Planning
<1>2. ASSUME NEW u \in Threads PROVE PlanFits(u)'
  <2> SUFFICES ASSUME Planning(u) PROVE PlanFits(u)'
    BY DEF PlanFits, Planning
  <2>1. PlanFits(u) /\ tab[u] = table /\ table \in Caps /\ idx[u] \in 0..(table - 1)
    BY PlannerKnows DEF Lists
  <2>2. bins'[table][idx[u]] = bins[table][idx[u]]
    BY <2>1, PlannerBinLocked DEF BinsOver
  <2>3. BinAt(u)' = BinAt(u)
    BY <2>1, <2>2 DEF BinAt
  <2> QED
    BY <2>1, <2>3 DEF PlanFits, Planning
<1> QED
  BY <1>1, <1>2

LEMMA ListsShrink ==
    ASSUME MapTyped, IInv, CInv, Lists, UNCHANGED <<resizeVars, plan, locked>>, Cuts,
           NEW n, NEW i, NEW v \in 0..Len(node),
           bins' = bins \/ BinSet(n, i, v), bins[n][i] \notin locked,
           Reach(node, v) \subseteq Reach(node, bins[n][i]),
           v = 0 \/ (Live(n, i) /\ i \notin moved[n])
    PROVE  Lists'
<1>1. HeapTyped /\ BinsOver(n, i, v) /\ SharedTypes
  BY BinSetOver DEF MapTyped, IInv, TypeOK
<1>2. UNCHANGED <<table, moved, tab, idx, pc, plan, locked>>
  OBVIOUS
<1>3. /\ \A j \in 1..Len(node) : node'[j].key = node[j].key
      /\ \A x \in 0..Len(node) : Reach(node', x) \subseteq Reach(node, x)
  BY DEF Cuts, KeysKept
<1>4. ASSUME NEW m \in Caps, NEW j \in 0..(m - 1)
      PROVE  Reach(node', bins'[m][j]) \subseteq Reach(node, bins[m][j])
  <2>1. bins[m][j] \in 0..Len(node)
    BY <1>1 DEF HeapTyped
  <2>2. Reach(node', bins[m][j]) \subseteq Reach(node, bins[m][j]) /\ Reach(node', v) \subseteq Reach(node, v)
    BY <1>3, <2>1
  <2> QED
    BY <1>1, <2>2 DEF BinsOver
<1>5. LiveBins'
  <2> SUFFICES ASSUME NEW m \in Caps, NEW j \in 0..(m - 1), Live(m, j)
               PROVE  IsList(node', bins'[m][j], m, j)
    BY <1>2 DEF LiveBins, Live
  <2>1. IsList(node, bins[m][j], m, j)
    BY DEF Lists, LiveBins
  <2> QED
    BY <1>3, <1>4, <2>1, ListShrinks
<1>6. OtherBins'
  <2> SUFFICES ASSUME NEW m \in Caps, NEW j \in 0..(m - 1), ~Live(m, j)
               PROVE  Drafts(m, j, bins[m][j])'
    BY <1>2 DEF OtherBins, Live
  <2>1. Drafts(m, j, bins[m][j])
    BY DEF Lists, OtherBins
  <2>2. bins'[m][j] = bins[m][j] \/ bins'[m][j] = 0
    BY <1>1 DEF BinsOver
  <2>3. \A u : Draft(u, m, j, bins[m][j]) => Draft(u, m, j, bins[m][j])'
                  \/ bins'[m][j] # bins[m][j]
    BY <1>2 DEF Draft, Planning
  <2> QED
    BY <2>1, <2>2, <2>3 DEF Drafts
<1>7. MovedEmpty'
  <2> SUFFICES ASSUME NEW m \in Caps, NEW j \in moved[m] PROVE bins'[m][j] = 0
    BY <1>2 DEF MovedEmpty
  <2>1. bins[m][j] = 0 /\ j \in 0..(m - 1)
    BY <1>1 DEF Lists, MovedEmpty, SharedTypes
  <2> QED
    BY <1>1, <2>1 DEF BinsOver
<1>8. ASSUME NEW u \in Threads, Planning(u)
      PROVE  /\ IsList(node', plan[u].low, 2 * table, idx[u])
             /\ IsList(node', plan[u].high, 2 * table, idx[u] + table)
  <2>1. /\ IsList(node, plan[u].low, 2 * table, idx[u])
        /\ IsList(node, plan[u].high, 2 * table, idx[u] + table)
        /\ plan[u].low \in 0..Len(node) /\ plan[u].high \in 0..Len(node)
    BY <1>8, PlannerKnows
  <2> QED
    BY <1>3, <2>1, ListShrinks
<1> QED
  BY <1>1, <1>5, <1>6, <1>7, <1>8, PlansStay DEF Lists

-----------------------------------------------------------------------------
(* The lists after a node is put behind one of them *)

LEMMA ListGrows ==
    ASSUME NEW nd, NEW nd2, NEW x, NEW y, NEW n, NEW i, NEW k, IsList(nd, x, n, i), Bini(k, n) = i,
           NEW id, nd2[id].key = k, \A m \in Reach(nd, x) : nd[m].key # k,
           Reach(nd2, y) \subseteq Reach(nd, x) \cup {id},
           \A j \in 1..Len(nd) : nd2[j].key = nd[j].key
    PROVE  IsList(nd2, y, n, i)
<1>1. \A a \in Reach(nd, x) : a \in 1..Len(nd) /\ nd2[a].key = nd[a].key
  BY DEF Reach
<1> QED
  BY <1>1 DEF IsList

LEMMA ListsGrow ==
    ASSUME MapTyped, IInv, CInv, Lists, UNCHANGED <<resizeVars, plan, locked>>,
           NEW n \in Caps, NEW i \in 0..(n - 1), NEW k \in Keys, Bini(k, n) = i,
           Live(n, i), i \notin moved[n], bins[n][i] \notin locked,
           Adds(bins[n][i], k), \A m \in Reach(node, bins[n][i]) : node[m].key # k,
           \/ bins[n][i] # 0 /\ bins' = bins
           \/ bins[n][i] = 0 /\ BinSet(n, i, Len(node) + 1)
    PROVE  Lists'
<1> DEFINE h == bins[n][i]
           id == Len(node) + 1
<1>1. HeapTyped /\ BinsOver(n, i, id) /\ SharedTypes /\ Len(node) \in Nat
  BY BinSetOver, LenTyped DEF MapTyped, IInv, TypeOK
<1>2. UNCHANGED <<table, moved, tab, idx, pc, plan, locked>>
  OBVIOUS
<1>3. /\ \A j \in 1..Len(node) : node'[j].key = node[j].key
      /\ node'[id].key = k /\ Reach(node', id) \subseteq {id}
      /\ \A x \in 0..Len(node) :
          /\ Reach(node', x) \subseteq Reach(node, x) \cup {id}
          /\ Reach(node, x) \cap Reach(node, h) = {} => Reach(node', x) \subseteq Reach(node, x)
  BY DEF Adds, KeysKept
<1>4. h \in 0..Len(node) /\ IsList(node, h, n, i)
  BY <1>1 DEF HeapTyped, Lists, LiveBins
<1>5. PICK r : RootOf(n, i, r) /\ (n = table <=> r \notin moved[table])
  BY LiveRoot
<1> HIDE DEF id
<1>6. IsList(node', bins'[n][i], n, i)
  <2>1. Reach(node', bins'[n][i]) \subseteq Reach(node, h) \cup {id}
    <3>1. CASE bins' = bins
      BY <1>3, <1>4, <3>1
    <3>2. CASE BinSet(n, i, id)
      <4>1. bins'[n][i] = id
        BY <1>1, <3>2 DEF BinSet, HeapTyped
      <4> QED
        BY <1>3, <4>1
    <3> QED
      BY <3>1, <3>2 DEF id
  <2> QED
    BY <1>3, <1>4, <2>1, ListGrows
<1>7. ASSUME NEW x \in 0..Len(node), NEW m, NEW j, NEW s, IsList(node, x, m, j), RootOf(m, j, s),
             r # s \/ (n = m /\ i # j)
      PROVE  IsList(node', x, m, j)
  <2>1. Reach(node, h) \cap Reach(node, x) = {}
    BY <1>1, <1>4, <1>5, <1>7, RootsApart DEF HeapTyped
  <2>2. Reach(node', x) \subseteq Reach(node, x)
    BY <1>3, <2>1
  <2> QED
    BY <1>3, <1>7, <2>2, ListShrinks
<1>8. ASSUME NEW m \in Caps, NEW j \in 0..(m - 1), m # n \/ j # i
      PROVE  bins'[m][j] = bins[m][j] /\ bins[m][j] \in 0..Len(node)
  BY <1>1, <1>8 DEF BinsOver, HeapTyped
<1>9. LiveBins'
  <2> SUFFICES ASSUME NEW m \in Caps, NEW j \in 0..(m - 1), Live(m, j)
               PROVE  IsList(node', bins'[m][j], m, j)
    BY <1>2 DEF LiveBins, Live
  <2>1. CASE m = n /\ j = i
    BY <1>6, <2>1
  <2>2. CASE m # n \/ j # i
    <3>1. CASE j \in moved[m]
      <4>1. bins'[m][j] = 0
        BY <1>8, <2>2, <3>1 DEF Lists, MovedEmpty
      <4> QED
        BY <4>1, EmptyList
    <3>2. CASE j \notin moved[m]
      <4>1. PICK s : RootOf(m, j, s) /\ (m = table <=> s \notin moved[table])
        BY <3>2, LiveRoot
      <4>2. r # s \/ (n = m /\ i # j)
        <5>1. r = s => n = m
          BY <1>5, <4>1 DEF RootOf
        <5> QED
          BY <2>2, <5>1
      <4>3. IsList(node, bins[m][j], m, j)
        BY DEF Lists, LiveBins
      <4> QED
        BY <1>7, <1>8, <2>2, <4>1, <4>2, <4>3
    <3> QED
      BY <3>1, <3>2
  <2> QED
    BY <2>1, <2>2
<1>10. OtherBins'
  <2> SUFFICES ASSUME NEW m \in Caps, NEW j \in 0..(m - 1), ~Live(m, j)
               PROVE  Drafts(m, j, bins[m][j])'
    BY <1>2 DEF OtherBins, Live
  <2>1. Drafts(m, j, bins[m][j])
    BY DEF Lists, OtherBins
  <2>2. bins'[m][j] = bins[m][j]
    BY <1>8
  <2>3. \A u : Draft(u, m, j, bins[m][j]) => Draft(u, m, j, bins[m][j])'
    BY <1>2, <2>2 DEF Draft, Planning
  <2> QED
    BY <2>1, <2>2, <2>3 DEF Drafts
<1>11. MovedEmpty'
  <2> SUFFICES ASSUME NEW m \in Caps, NEW j \in moved[m] PROVE bins'[m][j] = 0
    BY <1>2 DEF MovedEmpty
  <2>1. bins[m][j] = 0 /\ j \in 0..(m - 1)
    BY <1>1 DEF Lists, MovedEmpty, SharedTypes
  <2> QED
    BY <1>8, <2>1
<1>12. ASSUME NEW u \in Threads, Planning(u)
      PROVE  /\ IsList(node', plan[u].low, 2 * table, idx[u])
             /\ IsList(node', plan[u].high, 2 * table, idx[u] + table)
  <2>1. /\ IsList(node, plan[u].low, 2 * table, idx[u])
        /\ IsList(node, plan[u].high, 2 * table, idx[u] + table)
        /\ plan[u].low \in 0..Len(node) /\ plan[u].high \in 0..Len(node)
        /\ RootOf(2 * table, idx[u], idx[u]) /\ RootOf(2 * table, idx[u] + table, idx[u])
        /\ idx[u] \notin moved[table]
    BY <1>12, PlannerKnows DEF RootOf
  <2>2. r # idx[u]
    <3> SUFFICES ASSUME r = idx[u] PROVE FALSE
      OBVIOUS
    <3>1. n = table
      BY <1>5, <2>1
    <3>2. i = idx[u]
      <4>1. table # 2 * table
        BY <1>5 DEF RootOf
      <4> QED
        BY <1>5, <3>1, <4>1 DEF RootOf
    <3> QED
      BY <1>12, <3>1, <3>2, PlannerBinLocked
  <2> QED
    BY <1>7, <2>1, <2>2
<1> QED
  BY <1>1, <1>9, <1>10, <1>11, <1>12, PlansStay DEF Lists

-----------------------------------------------------------------------------
(* The lists after the steps of an operation *)

(* A step of one thread leaves the others where they are. *)
LEMMA OthersHere ==
    ASSUME MapTyped, IInv, NEW t \in Threads, AnyStep(t), NEW u \in Threads, u # t
    PROVE  MapSame(u) /\ Same(u)
<1>1. CASE UNCHANGED resizeVars
  BY <1>1, MapOthers DEF Same
<1>2. CASE Step(t) \/ AnyCall(t)
  BY <1>2, MapOthers, OthersSame DEF IInv, TypeOK, Elsewhere
<1> QED
  BY <1>1, <1>2, MapResizes

LEMMA Idle ==
    ASSUME NEW t, Operation(t) \/ \E c : Begin(t, c)
    PROVE  pc[t] = "idle"
<1>1. CASE \E c : Begin(t, c)
  BY <1>1 DEF Begin, At
<1>2. CASE OpLoadTable(t) \/ OpNoTable(t) \/ OpMovedBin(t) \/ OpEmptyBin(t) \/ OpListBin(t)
            \/ GetNode(t) \/ LoadValue(t) \/ PutCas(t) \/ OpHeadChanged(t)
  BY <1>2 DEF OpLoadTable, OpNoTable, OpMovedBin, OpEmptyBin, OpListBin, GetNode, LoadValue,
     PutCas, OpHeadChanged, CanLock, At
<1>3. CASE PutLocked(t) \/ RemoveLocked(t) \/ ComputeLocked(t) \/ PutTreeify(t) \/ OpCount(t) \/ End(t)
  BY <1>3 DEF PutLocked, RemoveLocked, ComputeLocked, PutTreeify, OpCount, End, CanLock, At
<1>4. CASE WalkBin(t) \/ WalkOn(t) \/ WalkEnd(t) \/ RetainLook(t) \/ RetainGoOn(t)
            \/ ClearBin(t) \/ ClearLocked(t) \/ ClearEnd(t)
  BY <1>4 DEF WalkBin, WalkOn, WalkEnd, RetainLook, RetainGoOn, ClearBin, ClearLocked, ClearEnd, At
<1> QED
  BY <1>1, <1>2, <1>3, <1>4 DEF Operation

(* Of the bins marked Moved, a step leaves those alone that have a list. *)
LEMMA ListsLeft ==
    ASSUME MapTyped, IInv, CInv, IInv', Lists, Marks, NEW t \in Threads, AnyStep(t),
           UNCHANGED <<heap, plan>>,
           Planning(t) => pc'[t] = pc[t] /\ tab'[t] = tab[t] /\ idx'[t] = idx[t],
           moved' # moved => BinAt(t) = 0
    PROVE  Lists'
<1>1. \A u \in Threads : Planning(u) => pc'[u] = pc[u] /\ tab'[u] = tab[u] /\ idx'[u] = idx[u]
  BY OthersHere DEF Same
<1>2. UNCHANGED <<table, moved>> \/ FirstStored \/ Swapped \/ Marked(t)
  <2>1. CASE UNCHANGED resizeVars
    BY <2>1
  <2>2. CASE Step(t) \/ AnyCall(t)
    BY <2>2, TableSteps
  <2> QED
    BY <2>1, <2>2, MapResizes
<1>3. Marked(t) => moved' # moved
  <2>1. SharedTypes
    BY DEF IInv, TypeOK
  <2> QED
    BY <2>1 DEF Marked, SharedTypes
<1> QED
  BY <1>1, <1>2, <1>3, ListsFrame

LEMMA QuietLists ==
    ASSUME MapTyped, IInv, CInv, IInv', Lists, Marks, NEW t \in Threads, AnyStep(t),
           UNCHANGED <<heap, plan>>, pc[t] # "TransferBin"
    PROVE  Lists'
<1>1. ~Planning(t)
  BY DEF Lists, PlanFits
<1>2. moved' = moved
  <2>1. CASE UNCHANGED resizeVars
    BY <2>1
  <2>2. CASE Step(t) \/ AnyCall(t)
    BY <2>2, MovedOnly DEF TransferMoveBin
  <2> QED
    BY <2>1, <2>2, MapResizes
<1> QED
  BY <1>1, <1>2, ListsLeft

LEMMA RoutineLists ==
    ASSUME MapTyped, IInv, CInv, IInv', Lists, Marks, NEW t \in Threads, AnyStep(t),
           Routine(t) \/ TransferBinMoved(t) \/ TransferBinForward(t) \/ TransferEmptyBin(t)
    PROVE  Lists'
<1>1. CASE Routine(t)
  <2>1. pc[t] # "TransferBin" /\ UNCHANGED <<heap, plan>>
    BY <1>1, RoutineLeaves
  <2> QED
    BY <2>1, QuietLists
<1>2. CASE TransferBinMoved(t)
  <2>1. idx[t] \in moved[tab[t]] /\ moved' = moved /\ UNCHANGED <<heap, plan>>
    BY <1>2 DEF TransferBinMoved, TransferSkipMoved
  <2>2. ~Planning(t)
    BY <2>1 DEF Lists, PlanFits
  <2> QED
    BY <2>1, <2>2, ListsLeft
<1>3. CASE TransferBinForward(t)
  <2>1. UNCHANGED <<heap, plan, moved, pc, tab, idx>>
    BY <1>3 DEF TransferBinForward, TransferForward
  <2> QED
    BY <2>1, ListsLeft
<1>4. CASE TransferEmptyBin(t)
  <2>1. BinAt(t) = 0 /\ UNCHANGED <<heap, plan>>
    BY <1>4 DEF TransferEmptyBin
  <2>2. ~Planning(t)
    BY <2>1 DEF Lists, PlanFits
  <2> QED
    BY <2>1, <2>2, ListsLeft
<1> QED
  BY <1>1, <1>2, <1>3, <1>4

LEMMA ReadLists ==
    ASSUME MapTyped, IInv, CInv, IInv', Lists, Marks, NEW t \in Threads, AnyStep(t),
           \/ \E c : Begin(t, c)
           \/ OpLoadTable(t) \/ OpNoTable(t) \/ OpMovedBin(t) \/ OpEmptyBin(t) \/ OpListBin(t)
           \/ GetNode(t) \/ LoadValue(t) \/ OpHeadChanged(t)
           \/ PutTreeify(t) \/ OpCount(t) \/ End(t)
           \/ WalkBin(t) \/ WalkOn(t) \/ WalkEnd(t) \/ RetainLook(t) \/ RetainGoOn(t)
           \/ ClearBin(t) \/ ClearEnd(t)
    PROVE  Lists'
<1>1. pc[t] # "TransferBin"
  BY Idle DEF Operation
<1>2. UNCHANGED <<heap, plan>>
  BY DEF Begin, OpLoadTable, OpNoTable, OpMovedBin, OpEmptyBin, OpListBin, GetNode, LoadValue,
     OpHeadChanged, PutTreeify, OpCount, End, WalkBin, WalkOn, WalkEnd, RetainLook, RetainGoOn,
     ClearBin, ClearEnd
<1> QED
  BY <1>1, <1>2, QuietLists

(* The bin a put stores in, or a critical section is in, has its entries. *)
LEMMA AimLive ==
    ASSUME MapTyped, IInv, NEW t \in Threads, Aims(t), opc[t] \in {"Cas", "Lock"}
    PROVE  /\ tab[t] \in Caps /\ Key(t) \in Keys /\ Bini(Key(t), tab[t]) \in 0..(tab[t] - 1)
           /\ Live(tab[t], Bini(Key(t), tab[t]))
<1>1. Op(t) \in Keyed /\ tab[t] # Null
  BY PlaceTyped DEF Control
<1> QED
  BY <1>1, BinTyped, KeyTyped DEF Aims

LEMMA PutCasLists ==
    ASSUME MapTyped, IInv, CInv, IInv', Lists, Marks, NEW t \in Threads, AnyStep(t), Aims(t), PutCas(t)
    PROVE  Lists'
<1>1. /\ tab[t] \in Caps /\ Key(t) \in Keys /\ Bini(Key(t), tab[t]) \in 0..(tab[t] - 1)
      /\ Live(tab[t], Bini(Key(t), tab[t])) /\ UNCHANGED <<resizeVars, plan, locked>>
  BY PutCasDoes, AimLive
<1>2. CASE /\ ThisBin(t) = 0 /\ ~ThisBinMoved(t) /\ Adds(0, Key(t))
           /\ BinSet(tab[t], Bini(Key(t), tab[t]), Len(node) + 1)
  <2>1. bins[tab[t]][Bini(Key(t), tab[t])] = 0 /\ Bini(Key(t), tab[t]) \notin moved[tab[t]]
    BY <1>2 DEF ThisBin, ThisBinMoved
  <2>2. 0 \notin locked /\ Reach(node, 0) = {}
    BY ReachNothing DEF MapTyped, HeapTyped
  <2> QED
    BY <1>1, <1>2, <2>1, <2>2, ListsGrow
<1>3. CASE UNCHANGED heap
  <2>1. pc[t] # "TransferBin"
    BY Idle DEF Operation
  <2> QED
    BY <1>1, <1>3, <2>1, QuietLists
<1> QED
  BY <1>2, <1>3, PutCasDoes

LEMMA PutLockedLists ==
    ASSUME MapTyped, IInv, CInv, IInv', Lists, Marks, NEW t \in Threads, AnyStep(t), Aims(t), PutLocked(t)
    PROVE  Lists'
<1>1. /\ tab[t] \in Caps /\ Key(t) \in Keys /\ Bini(Key(t), tab[t]) \in 0..(tab[t] - 1)
      /\ Live(tab[t], Bini(Key(t), tab[t])) /\ UNCHANGED <<resizeVars, plan, locked, bins>>
      /\ bins[tab[t]][Bini(Key(t), tab[t])] = cur[t] /\ Bini(Key(t), tab[t]) \notin moved[tab[t]]
      /\ cur[t] \notin locked /\ cur[t] # 0
  BY PutLockedDoes, LockedKnows, AimLive DEF ThisBin, ThisBinMoved, CanLock
<1>2. CASE Cuts
  <2>1. Reach(node, 0) = {} /\ 0 \in 0..Len(node)
    BY ReachNothing, PlaceTyped
  <2> QED
    BY <1>1, <1>2, <2>1, ListsShrink
<1>3. CASE Adds(cur[t], Key(t)) /\ \A m \in Reach(node, cur[t]) : node[m].key # Key(t)
  BY <1>1, <1>3, ListsGrow
<1> QED
  BY <1>2, <1>3, PutLockedDoes

LEMMA CutsLists ==
    ASSUME MapTyped, IInv, CInv, IInv', Lists, Marks, NEW t \in Threads, AnyStep(t), Aims(t),
           RemoveLocked(t) \/ ComputeLocked(t)
    PROVE  Lists'
<1>1. /\ tab[t] \in Caps /\ Key(t) \in Keys /\ Bini(Key(t), tab[t]) \in 0..(tab[t] - 1)
      /\ Live(tab[t], Bini(Key(t), tab[t])) /\ UNCHANGED <<resizeVars, plan, locked>>
      /\ bins[tab[t]][Bini(Key(t), tab[t])] = cur[t] /\ Bini(Key(t), tab[t]) \notin moved[tab[t]]
      /\ cur[t] \notin locked /\ ThisBin(t) = cur[t] /\ Cuts
  BY CutsDoes, LockedKnows, AimLive DEF ThisBin, ThisBinMoved, CanLock
<1>2. CASE bins' = bins
  <2>1. Reach(node, 0) = {} /\ 0 \in 0..Len(node)
    BY ReachNothing, PlaceTyped
  <2> QED
    BY <1>1, <1>2, <2>1, ListsShrink
<1>3. ASSUME NEW v \in 0..Len(node), BinSet(tab[t], Bini(Key(t), tab[t]), v),
             Reach(node, v) \subseteq Reach(node, ThisBin(t))
      PROVE  Lists'
  BY <1>1, <1>3, ListsShrink
<1> QED
  BY <1>2, <1>3, CutsDoes

LEMMA ClearLists ==
    ASSUME MapTyped, IInv, CInv, IInv', Lists, Marks, NEW t \in Threads, AnyStep(t), ClearLocked(t)
    PROVE  Lists'
<1> DEFINE n == tab[t]
           i == walk[t].at.index
<1>1. UNCHANGED <<resizeVars, plan, locked, node>> /\ cur[t] \notin locked /\ HeapTyped
  BY DEF ClearLocked, MapTyped
<1>2. CASE bins' = bins
  BY <1>1, <1>2, Idle, QuietLists DEF Operation
<1>3. CASE bins' # bins
  <2>1. bins[n][i] = cur[t] /\ BinSet(n, i, 0)
    BY <1>3 DEF ClearLocked, BinSet
  <2>2. Reach(node, 0) = {} /\ 0 \in 0..Len(node) /\ Cuts
    BY <1>1, ReachNothing, PlaceTyped, SameCuts
  <2> QED
    BY <1>1, <2>1, <2>2, ListsShrink
<1> QED
  BY <1>2, <1>3

-----------------------------------------------------------------------------
(* The lists after the steps of a transfer *)

LEMMA SplitTwoLists ==
    ASSUME MapTyped, IInv, CInv, Lists, NEW t \in Threads, TransferSplit(t)
    PROVE  Lists'
<1> DEFINE h == BinAt(t)
           s == Chain(h)
           half == [id \in 1..Len(node) |-> High(id, tab[t])]
<1>1. /\ pc[t] = "TransferBin" /\ plan[t] = NoPlan /\ idx[t] \notin moved[tab[t]]
      /\ h # 0 /\ h \notin locked /\ locked' = locked \cup {h}
      /\ UNCHANGED <<resizeVars, bins>>
  BY SplitLeaves
<1>2. /\ tab[t] = table /\ table \in Caps /\ 2 * table \in Caps /\ idx[t] \in 0..(table - 1)
  BY <1>1, BinOfTable
<1>3. /\ h \in 1..Len(node)
      /\ \E run, link, first :
            /\ IsSplit(node, s, half, run, link, node', first)
            /\ plan' = Set(plan, t, [head |-> h, low |-> first[0], high |-> first[1],
                                     stage |-> "low"])
  BY SplitIs
<1>4. \A m \in 1..Len(node) : half[m] = High(m, table)
  BY <1>2
<1>5. HeapTyped /\ Linked(node) /\ Ranked(node) /\ Len(node) \in Nat /\ t \in DOMAIN plan
      /\ plan \in [Threads -> Plans]
  BY LenTyped DEF MapTyped, HeapTyped
<1>6. IsList(node, h, table, idx[t]) /\ bins[table][idx[t]] = h
  BY <1>2 DEF BinAt, Lists, LiveBins, Live
<1> HIDE DEF half, h
<1>7. Walks(node, h, s)
  <2>1. h \in 0..Len(node)
    BY <1>3, <1>5
  <2> QED
    BY <1>5, <2>1, ChainWalks
<1> HIDE DEF s
<1>8. PICK run : \E link, first :
            /\ IsSplit(node, s, half, run, link, node', first)
            /\ plan' = Set(plan, t, [head |-> h, low |-> first[0], high |-> first[1],
                                     stage |-> "low"])
  BY <1>3
<1>9. PICK link, first :
            /\ IsSplit(node, s, half, run, link, node', first)
            /\ plan' = Set(plan, t, [head |-> h, low |-> first[0], high |-> first[1],
                                     stage |-> "low"])
  BY <1>8
<1>10. \A j \in 1..Len(node) : node'[j] = node[j]
  BY <1>3, <1>5, <1>7, <1>9, SplitNodes
<1>11. \A x \in 0..Len(node) : Reach(node', x) \subseteq Reach(node, x)
  BY <1>3, <1>5, <1>7, <1>9, SplitRanked
<1>12. ASSUME NEW x \in 0..Len(node), NEW n, NEW i, IsList(node, x, n, i)
       PROVE  IsList(node', x, n, i)
  BY <1>10, <1>11, <1>12, ListShrinks
<1>13. /\ \A b \in {0, 1} : \A a \in Reach(node', first[b]) :
              \E m \in Reach(node, h) : node'[a].key = node[m].key /\ half[m] = b
       /\ \A b, c \in {0, 1} : \A a \in Reach(node', first[b]), d \in Reach(node', first[c]) :
              node'[a].key = node'[d].key => a = d /\ b = c
  <2>1. \A a, b \in Reach(node, h) : node[a].key = node[b].key => a = b
    BY <1>6 DEF IsList
  <2>2. /\ \A b \in {0, 1} : first[b] \in 0..Len(node')
        /\ \A b \in {0, 1} : \A a \in Reach(node', first[b]) :
              /\ a \in Reach(node, h) \/ (a \in Nat /\ a > Len(node))
              /\ \E m \in Reach(node, h) :
                    /\ node'[a].key = node[m].key /\ node'[a].val = node[m].val /\ half[m] = b
        /\ \A b, c \in {0, 1} : \A a \in Reach(node', first[b]), d \in Reach(node', first[c]) :
              node'[a].key = node'[d].key => a = d /\ b = c
    BY <1>3, <1>5, <1>7, <1>9, <2>1, SplitLists, Zenon
  <2> QED
    BY <2>2
<1>14. ASSUME NEW b \in {0, 1}
       PROVE  IsList(node', first[b], 2 * table, IF b = 0 THEN idx[t] ELSE idx[t] + table)
  <2>1. ASSUME NEW a \in Reach(node', first[b])
        PROVE  Bini(node'[a].key, 2 * table) = IF b = 0 THEN idx[t] ELSE idx[t] + table
    <3>1. PICK m \in Reach(node, h) : node'[a].key = node[m].key /\ half[m] = b
      BY <1>13, <2>1
    <3>2. m \in 1..Len(node)
      BY DEF Reach
    <3>3. node[m].key \in Keys /\ Bini(node[m].key, table) = idx[t]
      BY <1>5, <1>6, <3>2 DEF Linked, IsList
    <3>4. (Hash[node[m].key] \div table) % 2 = b
      BY <1>4, <3>1, <3>2 DEF High
    <3> QED
      BY <1>2, <3>1, <3>3, <3>4, BiniHalves
  <2>2. \A a, d \in Reach(node', first[b]) : node'[a].key = node'[d].key => a = d
    BY <1>13
  <2> QED
    BY <2>1, <2>2 DEF IsList
<1>15. /\ plan'[t].head = h /\ plan'[t].low = first[0] /\ plan'[t].high = first[1]
       /\ \A u \in Threads : u # t => plan'[u] = plan[u]
  BY <1>5, <1>9 DEF Set
<1>16. UNCHANGED <<table, moved, tab, idx, pc, bins>>
  BY <1>1
<1>17. LiveBins'
  <2> SUFFICES ASSUME NEW m \in Caps, NEW j \in 0..(m - 1), Live(m, j)
               PROVE  IsList(node', bins[m][j], m, j)
    BY <1>16 DEF LiveBins, Live
  <2>1. IsList(node, bins[m][j], m, j) /\ bins[m][j] \in 0..Len(node)
    BY <1>5 DEF Lists, LiveBins, HeapTyped
  <2> QED
    BY <1>12, <2>1
<1>18. ~Planning(t)
  BY <1>1 DEF Planning, NoPlan
<1>19. OtherBins'
  <2> SUFFICES ASSUME NEW m \in Caps, NEW j \in 0..(m - 1), ~Live(m, j)
               PROVE  Drafts(m, j, bins[m][j])'
    BY <1>16 DEF OtherBins, Live
  <2>1. Drafts(m, j, bins[m][j])
    BY DEF Lists, OtherBins
  <2>2. ASSUME NEW u \in Threads, Draft(u, m, j, bins[m][j]) PROVE Draft(u, m, j, bins[m][j])'
    <3>1. u # t
      BY <1>18, <2>2 DEF Draft
    <3> QED
      BY <1>15, <1>16, <2>2, <3>1 DEF Draft, Planning
  <2> QED
    BY <1>16, <2>1, <2>2 DEF Drafts
<1>20. MovedEmpty'
  BY <1>16 DEF Lists, MovedEmpty
<1>21. ASSUME NEW u \in Threads, Planning(u), u # t PROVE idx[u] # idx[t]
  BY <1>1, <1>6, <1>21, PlannerKnows
<1>22. PlansApart'
  <2>1. \A u \in Threads : u # t => (Planning(u)' <=> Planning(u))
    BY <1>15 DEF Planning
  <2> QED
    BY <1>16, <1>21, <2>1 DEF Lists, PlansApart
<1>23. ASSUME NEW u \in Threads PROVE PlanFits(u)'
  <2>1. CASE u = t
    <3>1. plan'[t].head = h /\ h # 0 /\ h \in locked' /\ idx[t] \notin moved[tab[t]]
          /\ pc[t] = "TransferBin" /\ BinAt(t)' = h
      BY <1>1, <1>2, <1>6, <1>15, <1>16 DEF BinAt
    <3>2. IsList(node', first[0], 2 * table, idx[t]) /\ IsList(node', first[1], 2 * table, idx[t] + table)
      BY <1>14
    <3> QED
      BY <1>2, <1>15, <1>16, <2>1, <3>1, <3>2 DEF PlanFits
  <2>2. CASE u # t
    <3> SUFFICES ASSUME Planning(u) PROVE PlanFits(u)'
      BY <1>15, <2>2 DEF PlanFits, Planning
    <3>1. PlanFits(u) /\ tab[u] = table /\ plan[u].low \in 0..Len(node) /\ plan[u].high \in 0..Len(node)
      BY PlannerKnows DEF Lists
    <3>2. IsList(node', plan[u].low, 2 * tab[u], idx[u]) /\ IsList(node', plan[u].high, 2 * tab[u], idx[u] + tab[u])
      BY <1>12, <3>1 DEF PlanFits
    <3>3. plan'[u] = plan[u] /\ BinAt(u)' = BinAt(u) /\ locked \subseteq locked'
      BY <1>1, <1>15, <1>16, <2>2 DEF BinAt
    <3> QED
      BY <1>16, <3>1, <3>2, <3>3 DEF PlanFits
  <2> QED
    BY <2>1, <2>2
<1> QED
  BY <1>17, <1>19, <1>20, <1>22, <1>23 DEF Lists

(* A bin of the next table is stored. *)
LEMMA NotYetLive ==
    ASSUME IInv, Marks, NEW j \in 0..(table - 1), table \in Caps, 2 * table \in Caps,
           j \notin moved[table], NEW i \in {j, j + table}
    PROVE  ~Live(2 * table, i)
<1>1. table \in Nat /\ table > 0 /\ moved[table] \subseteq 0..(table - 1)
  BY DEF IInv, TypeOK, SharedTypes
<1>2. moved[2 * table] = {}
  BY <1>1 DEF Marks, MovedBelow
<1>3. ASSUME NEW m \in moved[table], i \in {m, m + table} PROVE FALSE
  <2>1. m \in 0..(table - 1)
    BY <1>1
  <2>2. m = j
    BY <1>1, <1>3, <2>1
  <2> QED
    BY <2>2
<1> QED
  BY <1>1, <1>2, <1>3 DEF Live

LEMMA DraftLists ==
    ASSUME MapTyped, IInv, CInv, Lists, Marks, NEW t \in Threads, Planning(t),
           UNCHANGED <<resizeVars, node, locked>>,
           NEW s \in {"low", "high", "moved"}, plan' = [plan EXCEPT ![t].stage = s],
           NEW i, NEW x, Draft(t, 2 * table, i, x), BinSet(2 * table, i, x)
    PROVE  Lists'
<1>1. /\ tab[t] = table /\ table \in Caps /\ 2 * table \in Caps /\ idx[t] \in 0..(table - 1)
      /\ idx[t] \notin moved[table] /\ i \in {idx[t], idx[t] + table} /\ table \in Nat
  BY PlannerKnows DEF Draft
<1>2. ~Live(2 * table, i)
  BY <1>1, NotYetLive
<1>3. HeapTyped /\ plan \in [Threads -> Plans] /\ BinsOver(2 * table, i, x)
  BY BinSetOver DEF MapTyped, HeapTyped
<1>4. /\ \A u \in Threads : /\ plan'[u].head = plan[u].head /\ plan'[u].low = plan[u].low
                            /\ plan'[u].high = plan[u].high
                            /\ Planning(u)' <=> Planning(u)
  BY <1>3, StageStored DEF Planning
<1>5. UNCHANGED <<table, moved, tab, idx, pc, locked, node>>
  OBVIOUS
<1>6. LiveBins'
  <2> SUFFICES ASSUME NEW m \in Caps, NEW j \in 0..(m - 1), Live(m, j)
               PROVE  IsList(node', bins'[m][j], m, j)
    BY <1>5 DEF LiveBins, Live
  <2>1. IsList(node, bins[m][j], m, j)
    BY DEF Lists, LiveBins
  <2>2. bins'[m][j] = bins[m][j]
    BY <1>2, <1>3 DEF BinsOver
  <2> QED
    BY <1>5, <2>1, <2>2 DEF IsList
<1>7. OtherBins'
  <2> SUFFICES ASSUME NEW m \in Caps, NEW j \in 0..(m - 1), ~Live(m, j)
               PROVE  Drafts(m, j, bins[m][j])'
    BY <1>5 DEF OtherBins, Live
  <2>1. Drafts(m, j, bins[m][j])
    BY DEF Lists, OtherBins
  <2>2. ASSUME NEW u \in Threads, NEW y, Draft(u, m, j, y), bins'[m][j] = y
        PROVE  Draft(u, m, j, bins[m][j])'
    BY <1>4, <1>5, <2>2 DEF Draft
  <2>3. bins'[m][j] = bins[m][j] \/ (m = 2 * table /\ j = i /\ bins'[m][j] = x)
    BY <1>3 DEF BinsOver
  <2> QED
    BY <2>1, <2>2, <2>3 DEF Drafts
<1>8. MovedEmpty'
  <2> SUFFICES ASSUME NEW m \in Caps, NEW j \in moved[m] PROVE bins'[m][j] = 0
    BY <1>5 DEF MovedEmpty
  <2>1. bins[m][j] = 0 /\ j \in 0..(m - 1) /\ Live(m, j)
    BY DEF Lists, MovedEmpty, IInv, TypeOK, SharedTypes, Live
  <2> QED
    BY <1>2, <1>3, <2>1 DEF BinsOver
<1>9. PlansApart'
  BY <1>4, <1>5 DEF Lists, PlansApart
<1>10. ASSUME NEW u \in Threads PROVE PlanFits(u)'
  <2> SUFFICES ASSUME Planning(u) PROVE PlanFits(u)'
    BY <1>4 DEF PlanFits
  <2>1. PlanFits(u) /\ tab[u] = table /\ idx[u] \in 0..(table - 1)
    BY PlannerKnows DEF Lists
  <2>2. bins'[table][idx[u]] = bins[table][idx[u]]
    BY <1>1, <1>3, <2>1 DEF BinsOver
  <2>3. BinAt(u)' = BinAt(u)
    BY <1>5, <2>1, <2>2 DEF BinAt
  <2> QED
    BY <1>4, <1>5, <2>1, <2>3 DEF PlanFits, IsList
<1> QED
  BY <1>6, <1>7, <1>8, <1>9, <1>10 DEF Lists

LEMMA StoresLists ==
    ASSUME MapTyped, IInv, CInv, Lists, Marks, NEW t \in Threads,
           TransferStoreLow(t) \/ TransferStoreHigh(t)
    PROVE  Lists'
<1>1. Planning(t) /\ UNCHANGED <<resizeVars, node, locked>>
  BY DEF Planning, TransferStoreLow, TransferStoreHigh
<1>2. tab[t] = table /\ nt[t] = 2 * table
  BY <1>1, PlannerKnows
<1>3. CASE TransferStoreLow(t)
  <2>1. /\ plan' = [plan EXCEPT ![t].stage = "high"] /\ BinSet(2 * table, idx[t], plan[t].low)
        /\ Draft(t, 2 * table, idx[t], plan[t].low)
    BY <1>1, <1>2, <1>3 DEF TransferStoreLow, BinSet, Draft
  <2> QED
    BY <1>1, <2>1, DraftLists
<1>4. CASE TransferStoreHigh(t)
  <2>1. /\ plan' = [plan EXCEPT ![t].stage = "moved"]
        /\ BinSet(2 * table, idx[t] + table, plan[t].high)
        /\ Draft(t, 2 * table, idx[t] + table, plan[t].high)
    BY <1>1, <1>2, <1>4 DEF TransferStoreHigh, BinSet, Draft
  <2> QED
    BY <1>1, <2>1, DraftLists
<1> QED
  BY <1>3, <1>4

LEMMA ListBinLists ==
    ASSUME MapTyped, IInv, CInv, IInv', Lists, Marks, NEW t \in Threads, AnyStep(t), TransferListBin(t)
    PROVE  Lists'
<1>1. /\ Planning(t) /\ TransferMoveBin(t) /\ BinSet(tab[t], idx[t], 0) /\ node' = node
      /\ locked' = locked \ {plan[t].head} /\ plan' = Set(plan, t, NoPlan)
  BY DEF TransferListBin, Planning, BinSet
<1>2. /\ pc[t] = "TransferBin" /\ tab[t] = table /\ table \in Caps /\ 2 * table \in Caps
      /\ idx[t] \in 0..(table - 1) /\ idx[t] \notin moved[table] /\ table \in Nat /\ table > 0
      /\ bins[table][idx[t]] = plan[t].head /\ plan[t].head # 0 /\ nt[t] = 2 * table
  BY <1>1, PlannerKnows
<1>3. /\ HeapTyped /\ Linked(node) /\ BinsOver(table, idx[t], 0) /\ plan \in [Threads -> Plans]
      /\ SharedTypes
  BY <1>1, <1>2, BinSetOver DEF MapTyped, HeapTyped, IInv, TypeOK
<1>4. table' = table /\ moved' = [moved EXCEPT ![table] = @ \cup {idx[t]}] /\ Marked(t)
  BY <1>1, <1>2 DEF TransferMoveBin, Marked
<1>5. moved'[table] = moved[table] \cup {idx[t]} /\ \A n \in Caps : n # table => moved'[n] = moved[n]
  BY <1>2, <1>3, <1>4 DEF SharedTypes
<1>6. /\ \A u \in Threads : u # t => /\ plan'[u] = plan[u] /\ pc'[u] = pc[u] /\ tab'[u] = tab[u]
                                     /\ idx'[u] = idx[u]
      /\ ~Planning(t)'
  BY <1>1, <1>3, OthersHere DEF Same, Set, Planning, NoPlan
<1>7. ASSUME NEW x, NEW n, NEW i, IsList(node, x, n, i) PROVE IsList(node', x, n, i)
  BY <1>1, <1>7
<1>8. LiveBins'
  <2> SUFFICES ASSUME NEW n \in Caps, NEW i \in 0..(n - 1), Live(n, i)'
               PROVE  IsList(node', bins'[n][i], n, i)
    BY DEF LiveBins
  <2>1. IsList(node, 0, n, i)
    BY EmptyList
  <2>2. IsList(node, bins[n][i], n, i)
    <3>1. CASE Live(n, i)
      BY <3>1 DEF Lists, LiveBins
    <3>2. CASE ~Live(n, i)
      <4>1. Drafts(n, i, bins[n][i])
        BY <3>2 DEF Lists, OtherBins
      <4> QED
        BY <2>1, <4>1, DraftKnows DEF Drafts
    <3> QED
      BY <3>1, <3>2
  <2>3. bins'[n][i] = bins[n][i] \/ bins'[n][i] = 0
    BY <1>3 DEF BinsOver
  <2> QED
    BY <1>7, <2>1, <2>2, <2>3
<1>9. OtherBins'
  <2> SUFFICES ASSUME NEW n \in Caps, NEW i \in 0..(n - 1), ~Live(n, i)'
               PROVE  Drafts(n, i, bins[n][i])'
    BY DEF OtherBins
  <2>1. ~Live(n, i)
    BY <1>4, LiveStays
  <2>2. Drafts(n, i, bins[n][i])
    BY <2>1 DEF Lists, OtherBins
  <2>3. bins'[n][i] = bins[n][i]
    BY <1>3, <2>1 DEF BinsOver, Live
  <2>4. ASSUME NEW u \in Threads, Draft(u, n, i, bins[n][i]) PROVE Draft(u, n, i, bins[n][i])'
    <3>1. CASE u = t
      <4>1. n = 2 * table /\ i \in {idx[t], idx[t] + table}
        BY <1>2, <2>4, <3>1 DEF Draft
      <4>2. Live(n, i)'
        BY <1>4, <1>5, <4>1 DEF Live
      <4> QED
        BY <4>2
    <3>2. CASE u # t
      BY <1>6, <2>3, <2>4, <3>2 DEF Draft, Planning
    <3> QED
      BY <3>1, <3>2
  <2> QED
    BY <2>2, <2>3, <2>4 DEF Drafts
<1>10. MovedEmpty'
  <2> SUFFICES ASSUME NEW n \in Caps, NEW i \in moved'[n] PROVE bins'[n][i] = 0
    BY DEF MovedEmpty
  <2>1. CASE i \in moved[n]
    <3>1. bins[n][i] = 0 /\ i \in 0..(n - 1)
      BY <1>3, <2>1 DEF Lists, MovedEmpty, SharedTypes
    <3> QED
      BY <1>3, <3>1 DEF BinsOver
  <2>2. CASE i \notin moved[n]
    <3>1. n = table /\ i = idx[t]
      BY <1>5, <2>2
    <3> QED
      BY <1>1, <1>2, <1>3, <3>1 DEF BinSet, HeapTyped
  <2> QED
    BY <2>1, <2>2
<1>11. PlansApart'
  <2>1. \A u \in Threads : Planning(u)' => u # t /\ Planning(u) /\ idx'[u] = idx[u]
    BY <1>6 DEF Planning
  <2> QED
    BY <2>1 DEF Lists, PlansApart
<1>12. ASSUME NEW u \in Threads PROVE PlanFits(u)'
  <2> SUFFICES ASSUME Planning(u), u # t PROVE PlanFits(u)'
    BY <1>6 DEF PlanFits, Planning
  <2>1. /\ PlanFits(u) /\ tab[u] = table /\ idx[u] \in 0..(table - 1) /\ idx[u] \notin moved[table]
        /\ bins[table][idx[u]] = plan[u].head /\ plan[u].head # 0
    BY PlannerKnows DEF Lists
  <2>2. idx[u] # idx[t]
    BY <1>1 DEF Lists, PlansApart
  <2>3. plan[u].head # plan[t].head
    <3> SUFFICES ASSUME plan[u].head = plan[t].head PROVE FALSE
      OBVIOUS
    <3> DEFINE h == plan[t].head
    <3>1. h \in 0..Len(node)
      BY <1>2, <1>3 DEF HeapTyped
    <3>2. h \in Reach(node, h)
      BY <1>2, <1>3, <3>1, ReachIs
    <3>3. IsList(node, h, table, idx[t]) /\ IsList(node, h, table, idx[u])
      BY <1>2, <2>1 DEF Lists, LiveBins, Live
    <3> QED
      BY <2>2, <3>2, <3>3 DEF IsList
  <2>4. bins'[table][idx[u]] = bins[table][idx[u]]
    BY <1>2, <1>3, <2>1, <2>2 DEF BinsOver
  <2>5. BinAt(u)' = BinAt(u)
    BY <1>6, <2>1, <2>4 DEF BinAt
  <2>6. plan'[u] = plan[u] /\ pc'[u] = pc[u] /\ tab'[u] = tab[u] /\ idx'[u] = idx[u]
    BY <1>6
  <2>7. plan[u].head \in locked' /\ idx[u] \notin moved'[tab[u]]
    BY <1>1, <1>5, <2>1, <2>2, <2>3 DEF PlanFits
  <2>8. IsList(node', plan[u].low, 2 * tab[u], idx[u]) /\ IsList(node', plan[u].high, 2 * tab[u], idx[u] + tab[u])
    BY <1>7, <2>1 DEF PlanFits
  <2> QED
    BY <2>1, <2>5, <2>6, <2>7, <2>8 DEF PlanFits
<1> QED
  BY <1>8, <1>9, <1>10, <1>11, <1>12 DEF Lists

-----------------------------------------------------------------------------
(* Where a call is going *)

Searches(u) == opc[u] \in {"Bin", "Cas", "Lock"}

LEMMA MapTableSteps ==
    ASSUME MapTyped, IInv, CInv, IInv', NEW t \in Threads, AnyStep(t)
    PROVE  /\ UNCHANGED <<table, moved>> \/ FirstStored \/ Swapped \/ Marked(t)
           /\ \A n \in Caps : moved[n] \subseteq moved'[n]
<1>1. UNCHANGED <<table, moved>> \/ FirstStored \/ Swapped \/ Marked(t)
  <2>1. CASE UNCHANGED resizeVars
    BY <2>1
  <2>2. CASE Step(t) \/ AnyCall(t)
    BY <2>2, TableSteps
  <2> QED
    BY <2>1, <2>2, MapResizes
<1>2. SharedTypes
  BY DEF IInv, TypeOK
<1> QED
  BY <1>1, <1>2 DEF FirstStored, Swapped, Marked, SharedTypes

LEMMA SearchKnows ==
    ASSUME MapTyped, IInv, NEW u \in Threads, Searches(u)
    PROVE  /\ Key(u) \in Keys /\ tab[u] \in Caps \cup {Null}
           /\ tab[u] # Null => Bini(Key(u), tab[u]) \in 0..(tab[u] - 1)
<1>1. Op(u) \in Keyed
  BY PlaceTyped DEF Control, Searches
<1> QED
  BY <1>1, KeyTyped, BinTyped DEF IInv, TypeOK, LocalTypes

(* The bin that a Moved bin leads to *)
LEMMA NextLive ==
    ASSUME IInv, CInv, Marks, NEW n \in Caps, NEW k \in Keys, Bini(k, n) \in moved[n]
    PROVE  /\ fwd[n] = 2 * n /\ 2 * n \in Caps /\ Bini(k, 2 * n) \in 0..(2 * n - 1)
           /\ Live(2 * n, Bini(k, 2 * n))
<1>1. SharedTypes
  BY DEF IInv, TypeOK
<1>2. fwd[n] = 2 * n /\ n \in Nat /\ n > 0
  BY DEF CInv, Forwards
<1>3. 2 * n \in Caps
  BY <1>1, <1>2 DEF SharedTypes
<1>4. Bini(k, 2 * n) \in 0..(2 * n - 1)
  BY <1>3, BiniTyped
<1>5. n <= table /\ table \in Caps
  BY <1>1, <1>2 DEF Marks, MovedBelow, SharedTypes
<1>6. CASE n = table
  <2>1. Bini(k, 2 * n) \in {Bini(k, n), Bini(k, n) + n}
    BY <1>3, BiniHalves
  <2> QED
    BY <1>2, <1>3, <1>4, <1>6, <2>1 DEF Live
<1>7. CASE n # table
  <2>1. 2 * n <= table /\ table \in Nat
    BY <1>2, <1>5, <1>7
  <2>2. CASE 2 * n = table
    BY <1>2, <1>3, <1>4, <2>2 DEF Live
  <2>3. CASE 2 * n # table
    <3>1. 2 * n < table /\ n <= 2 * n
      BY <1>2, <2>1, <2>3
    <3>2. moved[2 * n] = 0..(2 * n - 1)
      BY <1>3, <3>1 DEF Marks, MovedWhole
    <3> QED
      BY <1>2, <1>3, <1>4, <3>2 DEF Live
  <2> QED
    BY <2>2, <2>3
<1> QED
  BY <1>2, <1>3, <1>4, <1>6, <1>7

(* The call goes on with the table it has, in ResizeCtl or out of it. *)
LEMMA AimsKept ==
    ASSUME MapTyped, IInv, CInv, IInv', NEW t \in Threads, AnyStep(t),
           NEW u \in Threads, Aims(u), Searches(u)' => Searches(u),
           Key(u)' = Key(u), tab'[u] = tab[u],
           \/ pc'[u] \in {"idle"} \cup InitPcs
           \/ pc'[u] = pc[u] /\ rt'[u] = rt[u]
           \/ pc'[u] \in HelpPcs \cup FillPcs /\ rt'[u] = "help" /\ ThisBinMoved(u) /\ tab[u] # Null
    PROVE  Aims(u)'
<1> SUFFICES ASSUME Searches(u)', Searches(u) PROVE Aims(u)'
  BY DEF Aims, Searches
<1>1. PICK n : n = tab[u]
  OBVIOUS
<1>2. PICK i : i = Bini(Key(u), n)
  OBVIOUS
<1>3. n \in Caps \cup {Null} /\ (n # Null => i \in 0..(n - 1))
  BY <1>1, <1>2, SearchKnows
<1>4. n = Null \/ Live(n, i)'
  <2>1. n = Null \/ Live(n, i)
    BY <1>1, <1>2 DEF Aims, Searches
  <2> QED
    BY <1>3, <2>1, MapTableSteps, LiveStays
<1>10. tab'[u] = n /\ Bini(Key(u), tab[u])' = i
  BY <1>1, <1>2 DEF Bini
<1>5. ASSUME ThisBinMoved(u), tab[u] # Null PROVE ThisBinMoved(u)'
  BY <1>1, <1>2, <1>3, <1>5, <1>10, MapTableSteps DEF ThisBinMoved
<1>6. n = Null => ~(pc[u] \in HelpPcs \cup FillPcs)
  <2>1. Locals(u)
    BY DEF IInv
  <2> QED
    BY <1>1, <2>1 DEF Locals, TabPcs, HelpPcs, TransferPcs
<1>8. (tab[u] = Null \/ Live(tab[u], Bini(Key(u), tab[u])))'
  BY <1>4, <1>10 DEF Live
<1>9. (pc[u] \notin {"idle"} \cup InitPcs =>
          pc[u] \in HelpPcs \cup FillPcs /\ rt[u] = "help" /\ ThisBinMoved(u))'
  BY <1>1, <1>5, <1>6, <1>10 DEF Aims, Searches
<1> QED
  BY <1>8, <1>9 DEF Aims

(* The call goes on in another table, out of ResizeCtl or before the first. *)
LEMMA AimsAnew ==
    ASSUME NEW u \in Threads, pc'[u] \in {"idle"} \cup InitPcs, NEW n, NEW i, tab'[u] = n,
           Bini(Key(u), tab[u])' = i, n = table' \/ Live(n, i)'
    PROVE  Aims(u)'
  BY DEF Aims, Live

-----------------------------------------------------------------------------
(* Where the routines of the resize leave a call *)

LEMMA InitGoes ==
    ASSUME IInv, NEW t \in Threads, InitTable(t)
    PROVE  pc'[t] \in {"idle"} \cup InitPcs /\ (tab'[t] = tab[t] \/ tab'[t] = table')
<1>1. LocalTypes
  BY DEF IInv, TypeOK
<1> QED
  BY <1>1 DEF LocalTypes, InitTable, InitLoadTable, InitLoadSizeCtl, InitClaim, InitRecheck,
     InitStoreTable, InitStoreSizeCtl, Goto, Set, Return, InitPcs

LEMMA HelpGoes ==
    ASSUME IInv, CInv, NEW t \in Threads, HelpTransfer(t)
    PROVE  \/ pc'[t] \in HelpPcs \cup FillPcs /\ tab'[t] = tab[t] /\ rt'[t] = rt[t]
           \/ pc'[t] = "idle" /\ tab'[t] = tab[t]
           \/ pc'[t] = "idle" /\ tab'[t] = 2 * tab[t]
<1>1. LocalTypes
  BY DEF IInv, TypeOK
<1>2. KnowsNext(t) /\ Locals(t)
  BY DEF CInv, Knows, IInv
<1>3. CASE HelpForward(t)
  BY <1>1, <1>3 DEF LocalTypes, HelpForward, Goto, Set, Return, HelpPcs
<1>4. CASE HelpCheckNext(t) \/ HelpCheckTable(t) \/ HelpLoadSizeCtl(t) \/ HelpLoadIndex(t)
  <2>1. nt[t] = 2 * tab[t]
    BY <1>2, <1>4 DEF KnowsNext, HelpPcs, HelpCheckNext, HelpCheckTable, HelpLoadSizeCtl, HelpLoadIndex
  <2> QED
    BY <1>1, <1>4, <2>1 DEF LocalTypes, HelpCheckNext, HelpCheckTable, HelpLoadSizeCtl,
       HelpLoadIndex, Goto, Set, Return, HelpPcs
<1>5. CASE HelpJoin(t)
  <2>1. nt[t] # Null
    BY <1>2, <1>5 DEF HelpJoin, Locals, NextPcs, HelpPcs
  <2> QED
    BY <1>1, <1>5, <2>1 DEF LocalTypes, HelpJoin, EnterTransfer, Goto, Set, HelpPcs, FillPcs
<1> QED
  BY <1>3, <1>4, <1>5 DEF HelpTransfer

LEMMA FillGoes ==
    ASSUME IInv, CInv, NEW t \in Threads, TransferLoop(t), pc[t] \in FillPcs, rt[t] = "help"
    PROVE  \/ pc'[t] \in HelpPcs \cup FillPcs /\ tab'[t] = tab[t] /\ rt'[t] = rt[t]
           \/ pc'[t] = "idle" /\ tab'[t] = 2 * tab[t]
<1>1. LocalTypes
  BY DEF IInv, TypeOK
<1>2. nt[t] = 2 * tab[t]
  BY DEF CInv, Knows, KnowsNext
<1>3. \A i : BodyFor(t, i) \in FillPcs
  BY DEF BodyFor, FillPcs, CommitPcs
<1>4. CASE TransferAdvance(t)
  BY <1>1, <1>3, <1>4 DEF LocalTypes, TransferAdvance, Goto, Set, FillPcs
<1>5. CASE TransferClaim(t)
  BY <1>1, <1>3, <1>5 DEF LocalTypes, TransferClaim, Goto, Set, FillPcs
<1>6. CASE TransferLoadSizeCtl(t) \/ TransferDone(t)
  BY <1>1, <1>2, <1>6 DEF LocalTypes, TransferLoadSizeCtl, TransferDone, LeaveTransfer, Return, Goto,
     Set, FillPcs
<1>7. CASE TransferClearNext(t) \/ TransferSwap(t) \/ TransferCommit(t)
  BY <1>1, <1>2, <1>7 DEF LocalTypes, TransferClearNext, TransferSwap, TransferCommit, LeaveTransfer,
     Return, Goto, Set, FillPcs, CommitPcs
<1>8. CASE TransferAllocate(t) \/ TransferOpen(t) \/ TransferLoadNext(t)
  BY <1>8 DEF TransferAllocate, TransferOpen, TransferLoadNext, FillPcs, CommitPcs
<1> QED
  BY <1>4, <1>5, <1>6, <1>7, <1>8 DEF TransferLoop

LEMMA RoutineAt ==
    ASSUME NEW t, Routine(t)
    PROVE  /\ pc[t] \in InitPcs => InitTable(t)
           /\ pc[t] \in HelpPcs => HelpTransfer(t)
           /\ pc[t] \in FillPcs => TransferLoop(t)
           /\ pc[t] # "idle" /\ UNCHANGED <<heap, opLocals>>
<1>1. InitTable(t) => pc[t] \in InitPcs
  BY DEF InitTable, InitLoadTable, InitLoadSizeCtl, InitClaim, InitRecheck, InitStoreTable,
     InitStoreSizeCtl, InitPcs
<1>2. AddCount(t) => pc[t] \in AddPcs
  BY DEF AddCount, AddLoadSizeCtl, AddLoadTable, AddLoadNext, AddLoadIndex, AddJoin, AddStart,
     AddReload, AddPcs
<1>3. HelpTransfer(t) => pc[t] \in HelpPcs
  BY DEF HelpTransfer, HelpForward, HelpCheckNext, HelpCheckTable, HelpLoadSizeCtl, HelpLoadIndex,
     HelpJoin, HelpPcs
<1>4. TryPresize(t) => pc[t] \in PresizePcs
  BY DEF TryPresize, PresizeLoad, PresizeLoadTable, PresizeClaim, PresizeRecheck, PresizeStoreTable,
     PresizeStoreSizeCtl, PresizeCheckTable, PresizeStart, PresizePcs
<1>5. TransferLoop(t) => pc[t] \in TransferPcs
  BY DEF TransferLoop, TransferAllocate, TransferOpen, TransferLoadNext, TransferAdvance, TransferClaim,
     TransferLoadSizeCtl, TransferDone, TransferClearNext, TransferSwap, TransferCommit, TransferPcs,
     FillPcs, CommitPcs
<1> QED
  BY <1>1, <1>2, <1>3, <1>4, <1>5
  DEF Routine, InitPcs, AddPcs, HelpPcs, PresizePcs, TransferPcs, FillPcs, CommitPcs

LEMMA RoutineAims ==
    ASSUME MapTyped, IInv, CInv, IInv', Marks, NEW t \in Threads, AnyStep(t), Aims(t), Routine(t)
    PROVE  Aims(t)'
<1> SUFFICES ASSUME Searches(t) PROVE Aims(t)'
  BY RoutineAt DEF Aims, Searches
<1>1. /\ pc[t] # "idle" /\ UNCHANGED <<heap, opLocals>> /\ Key(t)' = Key(t)
  BY RoutineAt, OpSame
<1>2. Searches(t)' => Searches(t)
  BY <1>1 DEF Searches
<1>3. CASE pc[t] \in InitPcs
  <2>1. pc'[t] \in {"idle"} \cup InitPcs /\ (tab'[t] = tab[t] \/ tab'[t] = table')
    BY <1>3, RoutineAt, InitGoes
  <2>2. CASE tab'[t] = tab[t]
    BY <1>1, <1>2, <2>1, <2>2, AimsKept
  <2>3. CASE tab'[t] = table'
    <3>1. PICK n : n = table'
      OBVIOUS
    <3>2. PICK i : i = Bini(Key(t), tab[t])'
      OBVIOUS
    <3> QED
      BY <2>1, <2>3, <3>1, <3>2, AimsAnew
  <2> QED
    BY <2>1, <2>2, <2>3
<1>4. CASE pc[t] \notin InitPcs
  <2>1. pc[t] \in HelpPcs \cup FillPcs /\ rt[t] = "help" /\ ThisBinMoved(t)
    BY <1>1, <1>4 DEF Aims, Searches
  <2>2. \/ pc'[t] \in HelpPcs \cup FillPcs /\ tab'[t] = tab[t] /\ rt'[t] = rt[t]
        \/ pc'[t] = "idle" /\ tab'[t] = tab[t]
        \/ pc'[t] = "idle" /\ tab'[t] = 2 * tab[t]
    BY <2>1, RoutineAt, HelpGoes, FillGoes
  <2>3. tab[t] # Null
    <3>1. Locals(t)
      BY DEF IInv
    <3> QED
      BY <2>1, <3>1 DEF Locals, TabPcs, TransferPcs
  <2>4. CASE tab'[t] = tab[t]
    BY <1>1, <1>2, <2>1, <2>2, <2>3, <2>4, AimsKept
  <2>5. CASE pc'[t] = "idle" /\ tab'[t] = 2 * tab[t]
    <3>1. PICK n : n = 2 * tab[t]
      OBVIOUS
    <3>2. PICK i : i = Bini(Key(t), n)
      OBVIOUS
    <3>3. n \in Caps /\ i \in 0..(n - 1) /\ Live(n, i)
      BY <2>1, <2>3, <3>1, <3>2, SearchKnows, NextLive DEF ThisBinMoved
    <3>4. Live(n, i)'
      BY <3>3, MapTableSteps, LiveStays
    <3>5. tab'[t] = n /\ Bini(Key(t), tab[t])' = i
      BY <1>1, <2>5, <3>1, <3>2 DEF Bini
    <3> QED
      BY <2>5, <3>4, <3>5, AimsAnew
  <2> QED
    BY <2>2, <2>4, <2>5
<1> QED
  BY <1>3, <1>4

-----------------------------------------------------------------------------
(* Where the steps of an operation leave its call *)

LEMMA ToIs ==
    ASSUME MapTyped, NEW t \in Threads, NEW l, NEW c, To(t, l, c)
    PROVE  opc'[t] = l
  BY DEF To, Set, MapTyped, Domains

(* A step that goes to none of these places *)
LEMMA AimsElsewhere ==
    ASSUME NEW t, ~Searches(t)'
    PROVE  Aims(t)'
  BY DEF Aims, Searches

LEMMA TransferAims ==
    ASSUME MapTyped, IInv, CInv, IInv', Marks, NEW t \in Threads, AnyStep(t), Aims(t), Transfer(t)
    PROVE  Aims(t)'
<1>1. UNCHANGED <<call, walk, opc, tab, rt>>
  BY SplitLeaves DEF Transfer, TransferBinMoved, TransferBinForward, TransferEmptyBin,
     TransferStoreLow, TransferStoreHigh, TransferListBin, TransferSkipMoved, TransferForward,
     TransferMoveBin
<1>2. Key(t)' = Key(t) /\ (Searches(t)' => Searches(t))
  BY <1>1, OpSame DEF Searches
<1>3. SUFFICES ASSUME Searches(t) PROVE Aims(t)'
  BY <1>2, AimsElsewhere
<1>4. CASE TransferSplit(t) \/ TransferStoreLow(t) \/ TransferStoreHigh(t) \/ TransferBinForward(t)
  <2>1. pc' = pc
    BY <1>4, SplitLeaves DEF TransferStoreLow, TransferStoreHigh, TransferBinForward, TransferForward
  <2> QED
    BY <1>1, <1>2, <2>1, AimsKept
<1>5. CASE TransferBinMoved(t) \/ TransferEmptyBin(t) \/ TransferListBin(t)
  <2>1. pc[t] = "TransferBin" /\ Goto(t, "TransferAdvance")
    BY <1>5 DEF TransferBinMoved, TransferEmptyBin, TransferListBin, TransferSkipMoved, TransferMoveBin
  <2>2. pc'[t] = "TransferAdvance"
    BY <2>1 DEF IInv, TypeOK, LocalTypes, Goto
  <2>3. rt[t] = "help" /\ ThisBinMoved(t)
    BY <1>3, <2>1 DEF Aims, Searches, InitPcs
  <2>4. tab[t] # Null
    BY <2>1, InBin
  <2>5. pc'[t] \in HelpPcs \cup FillPcs
    BY <2>2 DEF FillPcs
  <2> QED
    BY <1>1, <1>2, <2>3, <2>4, <2>5, AimsKept
<1> QED
  BY <1>4, <1>5 DEF Transfer

(* The steps of a search that leave the table alone *)
LEMMA SearchAims ==
    ASSUME MapTyped, IInv, CInv, IInv', Marks, NEW t \in Threads, AnyStep(t), Aims(t),
           OpEmptyBin(t) \/ OpListBin(t) \/ PutCas(t) \/ OpHeadChanged(t)
    PROVE  Aims(t)'
<1>1. /\ UNCHANGED <<call, walk, tab, rt, pc>> /\ Searches(t)
  BY DEF OpEmptyBin, OpListBin, PutCas, OpHeadChanged, CanLock, At, Searches
<1>2. Key(t)' = Key(t)
  BY <1>1, OpSame
<1> QED
  BY <1>1, <1>2, AimsKept

LEMMA LoadTableAims ==
    ASSUME MapTyped, IInv, NEW t \in Threads, OpLoadTable(t)
    PROVE  Aims(t)'
<1>1. tab' = Set(tab, t, table) /\ UNCHANGED <<table, pc>> /\ pc[t] = "idle"
  BY DEF OpLoadTable, At
<1>2. tab'[t] = table'
  BY <1>1 DEF IInv, TypeOK, LocalTypes, Set
<1>3. PICK n : n = table'
  OBVIOUS
<1>4. PICK i : i = Bini(Key(t), tab[t])'
  OBVIOUS
<1> QED
  BY <1>1, <1>2, <1>3, <1>4, AimsAnew

LEMMA NoTableAims ==
    ASSUME MapTyped, IInv, CInv, IInv', Marks, NEW t \in Threads, AnyStep(t), Aims(t), OpNoTable(t)
    PROVE  Aims(t)'
<1>1. UNCHANGED <<call, walk, opc, tab>> /\ Searches(t) /\ Goto(t, "InitLoadTable")
  BY DEF OpNoTable, CallInitTable, At, Searches
<1>2. Key(t)' = Key(t) /\ (Searches(t)' => Searches(t))
  BY <1>1, OpSame DEF Searches
<1>3. pc'[t] \in InitPcs
  BY <1>1 DEF IInv, TypeOK, LocalTypes, Goto, InitPcs
<1> QED
  BY <1>1, <1>2, <1>3, AimsKept

LEMMA MovedBinAims ==
    ASSUME MapTyped, IInv, CInv, IInv', Marks, NEW t \in Threads, AnyStep(t), Aims(t), OpMovedBin(t)
    PROVE  Aims(t)'
<1>1. /\ UNCHANGED <<call, walk, opc>> /\ Searches(t) /\ tab[t] # Null /\ ThisBinMoved(t) /\ pc[t] = "idle"
      /\ LocalTypes
  BY DEF OpMovedBin, At, Searches, IInv, TypeOK
<1>2. Key(t)' = Key(t) /\ (Searches(t)' => Searches(t))
  BY <1>1, OpSame DEF Searches
<1>3. CASE IsUpdate(t)
  <2>1. CallHelpTransfer(t)
    BY <1>3 DEF OpMovedBin
  <2>2. pc'[t] = "HelpForward" /\ rt'[t] = "help" /\ tab' = tab
    BY <1>1, <2>1 DEF CallHelpTransfer, LocalTypes, Goto, Set
  <2>3. pc'[t] \in HelpPcs \cup FillPcs
    BY <2>2 DEF HelpPcs
  <2> QED
    BY <1>1, <1>2, <2>2, <2>3, AimsKept
<1>4. CASE ~IsUpdate(t)
  <2>1. tab' = Set(tab, t, fwd[tab[t]]) /\ pc' = pc
    BY <1>4 DEF OpMovedBin
  <2>2. PICK n : n = 2 * tab[t]
    OBVIOUS
  <2>3. PICK i : i = Bini(Key(t), n)
    OBVIOUS
  <2>4. n \in Caps /\ i \in 0..(n - 1) /\ Live(n, i) /\ fwd[tab[t]] = n
    BY <1>1, <2>2, <2>3, SearchKnows, NextLive DEF ThisBinMoved
  <2>5. Live(n, i)'
    BY <2>4, MapTableSteps, LiveStays
  <2>6. tab'[t] = n
    BY <1>1, <2>1, <2>4 DEF LocalTypes, Set
  <2>7. Bini(Key(t), tab[t])' = i
    BY <1>2, <2>3, <2>6 DEF Bini
  <2> QED
    BY <1>1, <2>1, <2>5, <2>6, <2>7, AimsAnew
<1> QED
  BY <1>3, <1>4

(* The steps that end a search, or are in none *)
LEMMA RestAims ==
    ASSUME MapTyped, IInv, NEW t \in Threads,
           \/ \E c : Begin(t, c)
           \/ GetNode(t) \/ LoadValue(t) \/ PutLocked(t) \/ RemoveLocked(t) \/ ComputeLocked(t)
           \/ PutTreeify(t) \/ OpCount(t) \/ End(t)
           \/ WalkBin(t) \/ WalkOn(t) \/ WalkEnd(t) \/ RetainLook(t) \/ RetainGoOn(t)
           \/ ClearBin(t) \/ ClearLocked(t) \/ ClearEnd(t)
    PROVE  Aims(t)'
<1>1. \A l, c : To(t, l, c) => opc'[t] = l
  BY ToIs
<1>2. CASE \E c : Begin(t, c)
  BY <1>1, <1>2, AimsElsewhere DEF Begin, Searches
<1>3. CASE GetNode(t) \/ LoadValue(t)
  BY <1>1, <1>3, AimsElsewhere DEF GetNode, LoadValue, Finish, Searches
<1>4. CASE PutLocked(t)
  BY <1>1, <1>4, PutLockedDoes, AimsElsewhere DEF Searches
<1>5. CASE RemoveLocked(t) \/ ComputeLocked(t)
  BY <1>1, <1>5, CutsDoes, AimsElsewhere DEF Searches
<1>6. CASE PutTreeify(t) \/ OpCount(t) \/ End(t)
  <2>1. \E l \in {"Count", "Done", "idle"} : To(t, l, 0)
    BY <1>6, Zenon DEF PutTreeify, OpCount, End
  <2> QED
    BY <1>1, <2>1, AimsElsewhere, Zenon DEF Searches
<1>7. CASE WalkBin(t) \/ WalkOn(t) \/ WalkEnd(t)
  BY <1>1, <1>7, AimsElsewhere DEF WalkBin, WalkOn, WalkEnd, Meets, At, Searches
<1>8. CASE RetainLook(t) \/ RetainGoOn(t)
  BY <1>1, <1>8, AimsElsewhere DEF RetainLook, RetainGoOn, Searches
<1>9. CASE ClearBin(t) \/ ClearLocked(t) \/ ClearEnd(t)
  BY <1>1, <1>9, AimsElsewhere DEF ClearBin, ClearLocked, ClearEnd, At, Searches
<1> QED
  BY <1>2, <1>3, <1>4, <1>5, <1>6, <1>7, <1>8, <1>9

-----------------------------------------------------------------------------
(* The lists in every state *)

LEMMA StepLists ==
    ASSUME MapTyped, IInv, CInv, IInv', KInv, NEW t \in Threads, AnyStep(t)
    PROVE  Lists'
<1>1. Lists /\ Marks /\ Aims(t)
  BY DEF KInv
<1>2. CASE \E c : Begin(t, c)
  BY <1>1, <1>2, ReadLists
<1>3. CASE Operation(t)
  <2>1. CASE PutCas(t)
    BY <1>1, <2>1, PutCasLists
  <2>2. CASE PutLocked(t)
    BY <1>1, <2>2, PutLockedLists
  <2>3. CASE RemoveLocked(t) \/ ComputeLocked(t)
    BY <1>1, <2>3, CutsLists
  <2>4. CASE ClearLocked(t)
    BY <1>1, <2>4, ClearLists
  <2>5. CASE \/ OpLoadTable(t) \/ OpNoTable(t) \/ OpMovedBin(t) \/ OpEmptyBin(t) \/ OpListBin(t)
             \/ GetNode(t) \/ LoadValue(t) \/ OpHeadChanged(t)
             \/ PutTreeify(t) \/ OpCount(t) \/ End(t)
             \/ WalkBin(t) \/ WalkOn(t) \/ WalkEnd(t) \/ RetainLook(t) \/ RetainGoOn(t)
             \/ ClearBin(t) \/ ClearEnd(t)
    BY <1>1, <2>5, ReadLists
  <2> QED
    BY <1>3, <2>1, <2>2, <2>3, <2>4, <2>5 DEF Operation
<1>4. CASE Routine(t)
  BY <1>1, <1>4, RoutineLists
<1>5. CASE Transfer(t)
  <2>1. CASE TransferBinMoved(t) \/ TransferBinForward(t) \/ TransferEmptyBin(t)
    BY <1>1, <2>1, RoutineLists
  <2>2. CASE TransferSplit(t)
    BY <1>1, <2>2, SplitTwoLists
  <2>3. CASE TransferStoreLow(t) \/ TransferStoreHigh(t)
    BY <1>1, <2>3, StoresLists
  <2>4. CASE TransferListBin(t)
    BY <1>1, <2>4, ListBinLists
  <2> QED
    BY <1>5, <2>1, <2>2, <2>3, <2>4 DEF Transfer
<1> QED
  BY <1>2, <1>3, <1>4, <1>5 DEF AnyStep, MapStep

LEMMA StepAims ==
    ASSUME MapTyped, IInv, CInv, IInv', KInv, NEW t \in Threads, AnyStep(t)
    PROVE  Aims(t)'
<1>1. Marks /\ Aims(t)
  BY DEF KInv
<1>2. CASE \E c : Begin(t, c)
  BY <1>2, RestAims
<1>3. CASE Operation(t)
  <2>1. CASE OpLoadTable(t)
    BY <2>1, LoadTableAims
  <2>2. CASE OpNoTable(t)
    BY <1>1, <2>2, NoTableAims
  <2>3. CASE OpMovedBin(t)
    BY <1>1, <2>3, MovedBinAims
  <2>4. CASE OpEmptyBin(t) \/ OpListBin(t) \/ PutCas(t) \/ OpHeadChanged(t)
    BY <1>1, <2>4, SearchAims
  <2>5. CASE \/ GetNode(t) \/ LoadValue(t) \/ PutLocked(t) \/ RemoveLocked(t) \/ ComputeLocked(t)
             \/ PutTreeify(t) \/ OpCount(t) \/ End(t)
             \/ WalkBin(t) \/ WalkOn(t) \/ WalkEnd(t) \/ RetainLook(t) \/ RetainGoOn(t)
             \/ ClearBin(t) \/ ClearLocked(t) \/ ClearEnd(t)
    BY <2>5, RestAims
  <2> QED
    BY <1>3, <2>1, <2>2, <2>3, <2>4, <2>5 DEF Operation
<1>4. CASE Routine(t)
  BY <1>1, <1>4, RoutineAims
<1>5. CASE Transfer(t)
  BY <1>1, <1>5, TransferAims
<1> QED
  BY <1>2, <1>3, <1>4, <1>5 DEF AnyStep, MapStep

LEMMA StepKInv ==
    ASSUME MapTyped, IInv, CInv, IInv', KInv, NEW t \in Threads, AnyStep(t)
    PROVE  KInv'
<1>1. Lists'
  BY StepLists
<1>2. Marks'
  BY MapTableSteps, MarksNext DEF KInv
<1>3. ASSUME NEW u \in Threads PROVE Aims(u)'
  <2>1. CASE u = t
    BY <2>1, StepAims
  <2>2. CASE u # t
    <3>1. MapSame(u) /\ Same(u)
      BY <2>2, OthersHere
    <3>2. Key(u)' = Key(u)
      BY <3>1, OpSame DEF MapSame
    <3>3. Aims(u) /\ (Searches(u)' => Searches(u))
      BY <3>1 DEF KInv, MapSame, Searches
    <3> QED
      BY <3>1, <3>2, <3>3, AimsKept DEF Same
  <2> QED
    BY <2>1, <2>2
<1> QED
  BY <1>1, <1>2, <1>3 DEF KInv

LEMMA RestKInv ==
    ASSUME KInv, UNCHANGED <<resizeVars, heap, opLocals>>
    PROVE  KInv'
<1>1. \A n, i : Live(n, i)' <=> Live(n, i)
  BY DEF Live
<1>2. \A t : Planning(t)' <=> Planning(t)
  BY DEF Planning
<1>3. \A t, n, i, x : Draft(t, n, i, x)' <=> Draft(t, n, i, x)
  BY <1>2 DEF Draft
<1>4. \A n, i, x : Drafts(n, i, x)' <=> Drafts(n, i, x)
  BY <1>3 DEF Drafts
<1>5. Lists'
  <2>1. LiveBins' /\ OtherBins' /\ MovedEmpty'
    BY <1>1, <1>4 DEF KInv, Lists, LiveBins, OtherBins, MovedEmpty
  <2>2. PlansApart'
    BY <1>2 DEF KInv, Lists, PlansApart
  <2>3. ASSUME NEW t \in Threads PROVE PlanFits(t)'
    BY <1>2 DEF KInv, Lists, PlanFits, BinAt
  <2> QED
    BY <2>1, <2>2, <2>3 DEF Lists
<1>6. Marks'
  BY DEF KInv, Marks, MovedBelow, MovedWhole
<1>7. ASSUME NEW t \in Threads PROVE Aims(t)'
  <2>1. Key(t)' = Key(t)
    BY DEF Key, Removing
  <2>2. (ThisBinMoved(t)' <=> ThisBinMoved(t)) /\ Bini(Key(t), tab[t])' = Bini(Key(t), tab[t])
    BY <2>1 DEF ThisBinMoved, Bini
  <2>3. Live(tab[t], Bini(Key(t), tab[t]))' <=> Live(tab[t], Bini(Key(t), tab[t]))
    BY <2>2 DEF Live
  <2>4. Aims(t)
    BY DEF KInv
  <2> QED
    BY <2>2, <2>3, <2>4 DEF Aims
<1> QED
  BY <1>5, <1>6, <1>7 DEF KInv

(* The invariants of the map, of the resize and of the lists together *)
MapInv == MapTyped /\ IInv /\ CInv /\ KInv

LEMMA InitKInv == Init2 => MapInv
<1> SUFFICES ASSUME Init2 PROVE MapInv
  OBVIOUS
<1>1. MapTyped /\ IInv /\ CInv
  BY InitMapTyped, InitCInv DEF Init2
<1>2. /\ table = Null /\ \A n \in Caps : moved[n] = {} /\ \A i \in 0..(n - 1) : bins[n][i] = 0
      /\ \A t \in Threads : plan[t].stage = "none" /\ opc[t] = "idle"
  BY DEF Init2, Init, NoPlan
<1>3. LiveBins /\ OtherBins /\ MovedEmpty
  <2>1. ASSUME NEW n \in Caps, NEW i \in 0..(n - 1)
        PROVE  IsList(node, bins[n][i], n, i) /\ Drafts(n, i, bins[n][i])
    <3>1. bins[n][i] = 0
      BY <1>2
    <3> QED
      BY <3>1, EmptyList DEF Drafts
  <2>2. LiveBins /\ OtherBins
    BY <2>1 DEF LiveBins, OtherBins
  <2>3. MovedEmpty
    BY <1>2 DEF MovedEmpty
  <2> QED
    BY <2>2, <2>3
<1>4. PlansApart /\ \A t \in Threads : PlanFits(t)
  BY <1>2 DEF PlansApart, PlanFits, Planning
<1>5. Marks
  BY <1>2 DEF Marks, MovedBelow, MovedWhole
<1>6. \A t \in Threads : Aims(t)
  BY <1>2 DEF Aims
<1> QED
  BY <1>1, <1>3, <1>4, <1>5, <1>6 DEF MapInv, KInv, Lists

LEMMA NextKInv == MapInv /\ [MapNext /\ JoinsMatch]_vars => MapInv'
<1> SUFFICES ASSUME MapInv, [MapNext /\ JoinsMatch]_vars PROVE MapInv'
  OBVIOUS
<1>1. MapTyped /\ IInv /\ CInv /\ KInv
  BY DEF MapInv
<1>2. [MapNext]_vars
  OBVIOUS
<1>3. MapTyped' /\ IInv'
  BY <1>1, <1>2, NextMapTyped
<1>4. CASE UNCHANGED <<resizeVars, heap, opLocals>>
  <2>1. [Next /\ JoinsMatch]_resizeVars
    BY <1>4
  <2>2. CInv'
    BY <1>1, <2>1, NextCInv
  <2>3. KInv'
    BY <1>1, <1>4, RestKInv
  <2> QED
    BY <1>3, <2>2, <2>3 DEF MapInv
<1>5. ASSUME JoinsMatch, NEW t \in Threads, AnyStep(t) PROVE MapInv'
  <2>1. CInv'
    BY <1>1, <1>5, MapCInv
  <2>2. KInv'
    BY <1>1, <1>3, <1>5, StepKInv
  <2> QED
    BY <1>3, <2>1, <2>2 DEF MapInv
<1>6. CASE UNCHANGED vars
  BY <1>4, <1>6 DEF vars
<1> QED
  BY <1>2, <1>4, <1>5, <1>6, MapSteps

(* A step after which nobody has joined late is one whose joins match. *)
LEMMA MapStepsMatch ==
    [MapNext]_vars /\ ~lateJoin' => ~lateJoin /\ [MapNext /\ JoinsMatch]_vars
<1>1. CASE UNCHANGED vars
  BY <1>1 DEF vars
<1>2. CASE MapNext
  BY <1>2 DEF MapNext, Watch, Remember
<1> QED
  BY <1>1, <1>2

LEMMA MapInvKeys == MapInv => KeysOnce
<1> SUFFICES ASSUME MapInv, NEW n \in Caps, NEW i \in 0..(n - 1), i \notin moved[n],
                    NEW chain, chain = Chain(bins[n][i])
             PROVE  /\ \A j \in DOMAIN chain : Bini(node[chain[j]].key, n) = i
                    /\ \A j, m \in DOMAIN chain :
                          node[chain[j]].key = node[chain[m]].key => j = m
  BY DEF KeysOnce
<1>1. MapTyped /\ IInv /\ CInv /\ Lists
  BY DEF MapInv, KInv
<1>2. IsList(node, bins[n][i], n, i)
  <2>1. CASE Live(n, i)
    BY <1>1, <2>1 DEF Lists, LiveBins
  <2>2. CASE ~Live(n, i)
    <3>1. Drafts(n, i, bins[n][i])
      BY <1>1, <2>2 DEF Lists, OtherBins
    <3>2. CASE bins[n][i] = 0
      BY <3>2, EmptyList
    <3>3. ASSUME NEW t \in Threads, Draft(t, n, i, bins[n][i]) PROVE IsList(node, bins[n][i], n, i)
      BY <1>1, <3>3, DraftKnows
    <3> QED
      BY <3>1, <3>2, <3>3 DEF Drafts
  <2> QED
    BY <2>1, <2>2
<1>3. Linked(node) /\ Ranked(node) /\ bins[n][i] \in 0..Len(node)
  BY <1>1 DEF MapTyped, HeapTyped
<1>4. Walks(node, bins[n][i], chain)
  BY <1>3, ChainWalks
<1>5. chain \in Seq(1..Len(node)) /\ DOMAIN chain = 1..Len(chain)
  BY <1>4 DEF Walks
<1>6. \A j \in DOMAIN chain : chain[j] \in Reach(node, bins[n][i])
  BY <1>4, <1>5, ElementOfSeq DEF Walks
<1>7. \A j, m \in DOMAIN chain : chain[j] = chain[m] => j = m
  BY <1>4, <1>5 DEF Walks
<1> QED
  BY <1>2, <1>6, <1>7 DEF IsList

(* Until a thread joins a resize late: however calls and transfers of any
   number of threads interleave, a list of any table has a key at most once and
   only keys of its bin, before, while and after the bin moves to the next
   table. *)
THEOREM KeysOnceCorrect == MapSpec => [](lateJoin \/ KeysOnce)
<1>1. (lateJoin \/ MapInv) /\ [MapNext]_vars => (lateJoin \/ MapInv)'
  BY NextKInv, MapStepsMatch
<1> QED
  BY <1>1, InitKInv, MapInvKeys, PTL DEF MapSpec

-----------------------------------------------------------------------------
(* Addresses *)

LEMMA LeastOutside ==
    ASSUME NEW S, IsFiniteSet(S)
    PROVE  Min(0..Cardinality(S) \ S) \notin S
<1> DEFINE n == Cardinality(S)
           T == 0..n \ S
<1>1. n \in Nat
  BY FS_CardinalityType
<1>2. T # {}
  <2> SUFFICES ASSUME T = {} PROVE FALSE
    OBVIOUS
  <2>1. (0..n) \in SUBSET S
    OBVIOUS
  <2>2. Cardinality(0..n) <= n
    BY <2>1, FS_Subset
  <2>3. Cardinality(0..n) = n + 1
    BY <1>1, FS_Interval
  <2> QED
    BY <1>1, <2>2, <2>3
<1>3. T \in SUBSET Nat
  BY <1>1
<1> HIDE DEF T
<1>4. \E x \in T : \A y \in T : x <= y
  BY <1>2, <1>3, LeastNat
<1>5. Min(T) \in T
  BY <1>4 DEF Min
<1> QED
  BY <1>5 DEF T

(* A new address is that of no value that anyone holds or has seen. *)
LEMMA AddressNew ==
    ASSUME HeapTyped, NEW k
    PROVE  /\ \A p \in 1..Len(node) : node[p].key = k => node[p].address # NewAddress(k)
           /\ \A t \in Threads : walk[t].sight.address # NewAddress(k)
<1> DEFINE P == {q \in DOMAIN node : node[q].key = k}
           A == {node[p].address : p \in P}
           B == {walk[t].sight.address : t \in Threads}
           f == [p \in P |-> node[p].address]
           g == [t \in Threads |-> walk[t].sight.address]
<1>1. Len(node) \in Nat /\ DOMAIN node = 1..Len(node)
  BY LenTyped
<1>2. IsFiniteSet(P)
  <2>1. IsFiniteSet(1..Len(node))
    BY <1>1, FS_Interval
  <2>2. P \in SUBSET (1..Len(node))
    BY <1>1
  <2> QED
    BY <2>1, <2>2, FS_Subset
<1>3. IsFiniteSet(A)
  <2>1. f \in Surjection(P, A)
    BY DEF Surjection
  <2> QED
    BY <1>2, <2>1, FS_Surjection
<1>4. IsFiniteSet(B)
  <2>1. g \in Surjection(Threads, B)
    BY DEF Surjection
  <2> QED
    BY <2>1, ThreadsAssumption, FS_Surjection
<1>5. IsFiniteSet(A \cup B)
  BY <1>3, <1>4, FS_Union
<1>6. NewAddress(k) = Min(0..Cardinality(A \cup B) \ (A \cup B))
  BY DEF NewAddress
<1>7. NewAddress(k) \notin A \cup B
  BY <1>5, <1>6, LeastOutside
<1>8. \A p \in 1..Len(node) : node[p].key = k => node[p].address \in A
  BY <1>1
<1>9. \A t \in Threads : walk[t].sight.address \in B
  OBVIOUS
<1> QED
  BY <1>7, <1>8, <1>9

(* One address, one value; and what a retain has seen there still is. *)
SameAddress ==
    \A p, q \in 1..Len(node) :
        node[p].key = node[q].key /\ node[p].address = node[q].address => node[p].val = node[q].val
SightFits(t) ==
    Removing(t) /\ call[t].op = "retain" =>
        \A p \in 1..Len(node) :
            node[p].key = walk[t].sight.key /\ node[p].address = walk[t].sight.address
                => node[p].val = call[t].val
AInv == SameAddress /\ \A t \in Threads : SightFits(t)

(* A node that is there, or a copy of one, after a step *)
Kept(q) ==
    \E p \in 1..Len(node) : /\ node'[q].key = node[p].key /\ node'[q].val = node[p].val
                            /\ node'[q].address = node[p].address

(* Only one node, f, is not, and it has a new address. *)
OneNew(f, k) ==
    \A q \in 1..Len(node') :
        Kept(q) \/ (q = f /\ node'[q].key = k /\ node'[q].address = NewAddress(k))

LEMMA AddressesStay ==
    ASSUME HeapTyped, SameAddress, NEW f, NEW k, OneNew(f, k)
    PROVE  /\ SameAddress'
           /\ \A u \in Threads : SightFits(u) /\ walk'[u].sight = walk[u].sight /\ call'[u] = call[u]
                                    => SightFits(u)'
<1>1. /\ \A p \in 1..Len(node) : node[p].key = k => node[p].address # NewAddress(k)
      /\ \A t \in Threads : walk[t].sight.address # NewAddress(k)
  BY AddressNew
<1>2. SameAddress'
  <2> SUFFICES ASSUME NEW p \in 1..Len(node'), NEW q \in 1..Len(node'), node'[p].key = node'[q].key,
                      node'[p].address = node'[q].address
               PROVE  node'[p].val = node'[q].val
    BY DEF SameAddress
  <2>1. CASE Kept(p) /\ Kept(q)
    BY <2>1 DEF Kept, SameAddress
  <2>2. CASE ~Kept(p) /\ Kept(q)
    BY <1>1, <2>2 DEF Kept, OneNew
  <2>3. CASE Kept(p) /\ ~Kept(q)
    BY <1>1, <2>3 DEF Kept, OneNew
  <2>4. CASE ~Kept(p) /\ ~Kept(q)
    BY <2>4 DEF OneNew
  <2> QED
    BY <2>1, <2>2, <2>3, <2>4
<1>3. ASSUME NEW u \in Threads, SightFits(u), walk'[u].sight = walk[u].sight, call'[u] = call[u]
      PROVE  SightFits(u)'
  <2> SUFFICES ASSUME Removing(u), call[u].op = "retain", NEW p \in 1..Len(node'),
                      node'[p].key = walk[u].sight.key, node'[p].address = walk[u].sight.address
               PROVE  node'[p].val = call[u].val
    BY <1>3 DEF SightFits, Removing
  <2>1. CASE Kept(p)
    BY <1>3, <2>1 DEF Kept, SightFits
  <2>2. CASE ~Kept(p)
    BY <1>1, <2>2 DEF OneNew
  <2> QED
    BY <2>1, <2>2
<1> QED
  BY <1>2, <1>3

LEMMA NoneNew ==
    ASSUME \A q \in 1..Len(node') : Kept(q)
    PROVE  \A f, k : OneNew(f, k)
  BY DEF OneNew

-----------------------------------------------------------------------------
(* Where the entries of a key are *)

LEMMA HoldingHeld ==
    ASSUME Linked(node), Ranked(node), NEW k, NEW h \in 0..Len(node)
    PROVE  ChainHolding(k, h) = 0 <=> ValuesAt(node, h, k) = {}
<1> DEFINE p == ChainHolding(k, h)
<1>1. /\ p \in Reach(node, h) \cup {0}
      /\ p # 0 => node[p].key = k
      /\ p = 0 => \A m \in Reach(node, h) : node[m].key # k
  BY HoldingFinds
<1> HIDE DEF p
<1>2. ValuesAt(node, h, k) = {} <=> \A m \in Reach(node, h) : node[m].key # k
  BY HeldNone
<1>3. p = 0 <=> ValuesAt(node, h, k) = {}
  BY <1>1, <1>2
<1> QED
  BY <1>3 DEF p

HomeTable(k) == IF Bini(k, table) \in moved[table] THEN 2 * table ELSE table
HomeBin(k) == Bini(k, HomeTable(k))
HomeHead(k) == bins[HomeTable(k)][HomeBin(k)]

(* The one bin that has its entries and has not moved *)
LEMMA LiveHome ==
    ASSUME IInv, NEW k \in Keys, NEW n \in Caps, Live(n, Bini(k, n)), Bini(k, n) \notin moved[n]
    PROVE  n = HomeTable(k)
<1>1. SharedTypes
  BY DEF IInv, TypeOK
<1>2. CASE n = table
  BY <1>2 DEF HomeTable
<1>3. CASE n # table
  <2>1. n = 2 * table /\ \E j \in moved[table] : Bini(k, n) \in {j, j + table}
    BY <1>3 DEF Live
  <2>2. table \in Caps
    BY <1>1, <2>1 DEF SharedTypes
  <2>3. PICK j \in moved[table] : Bini(k, n) \in {j, j + table}
    BY <2>1
  <2>4. j \in 0..(table - 1)
    BY <1>1, <2>2 DEF SharedTypes
  <2>5. Bini(k, table) = j
    BY <2>1, <2>2, <2>3, <2>4, HalfOf
  <2> QED
    BY <2>1, <2>3, <2>5 DEF HomeTable
<1> QED
  BY <1>2, <1>3

LEMMA HomeLive ==
    ASSUME MapTyped, IInv, CInv, Marks, table # Null, NEW k \in Keys
    PROVE  /\ table \in Caps /\ table \in Nat /\ table # 2 * table
           /\ HomeTable(k) \in Caps /\ HomeBin(k) \in 0..(HomeTable(k) - 1)
           /\ HomeBin(k) \notin moved[HomeTable(k)] /\ Live(HomeTable(k), HomeBin(k))
           /\ HomeHead(k) \in 0..Len(node)
<1>1. table \in Caps /\ table \in Nat /\ table > 0 /\ table # 2 * table
  BY DEF IInv, TypeOK, SharedTypes
<1>2. CASE Bini(k, table) \in moved[table]
  <2>1. HomeTable(k) = 2 * table
    BY <1>2 DEF HomeTable
  <2>2. 2 * table \in Caps /\ Bini(k, 2 * table) \in 0..(2 * table - 1) /\ Live(2 * table, Bini(k, 2 * table))
    BY <1>1, <1>2, NextLive
  <2>3. moved[2 * table] = {}
    BY <1>1, <2>2 DEF Marks, MovedBelow
  <2> QED
    BY <1>1, <2>1, <2>2, <2>3 DEF HomeBin, HomeHead, MapTyped, HeapTyped
<1>3. CASE Bini(k, table) \notin moved[table]
  <2>1. HomeTable(k) = table
    BY <1>3 DEF HomeTable
  <2>2. Bini(k, table) \in 0..(table - 1) /\ Live(table, Bini(k, table))
    BY <1>1, BiniTyped DEF Live
  <2> QED
    BY <1>1, <1>3, <2>1, <2>2 DEF HomeBin, HomeHead, MapTyped, HeapTyped
<1> QED
  BY <1>2, <1>3

(* Following the Moved bins from the table leads there. *)
LEMMA HomeIs ==
    ASSUME MapTyped, IInv, CInv, Marks, table # Null, NEW k \in Keys
    PROVE  Home(k, table) = HomeTable(k)
<1> DEFINE f == CHOOSE f : f = [n \in Caps |-> IF Bini(k, n) \in moved[n] THEN f[fwd[n]] ELSE n]
           g == [n \in Caps |-> IF Bini(k, n) \in moved[n] THEN HomeTable(k) ELSE n]
<1>1. \A n \in Caps : Bini(k, n) \in moved[n] =>
         fwd[n] = 2 * n /\ 2 * n \in Caps /\ Live(2 * n, Bini(k, 2 * n))
  BY NextLive
<1>2. g = [n \in Caps |-> IF Bini(k, n) \in moved[n] THEN g[fwd[n]] ELSE n]
  <2>1. ASSUME NEW n \in Caps, Bini(k, n) \in moved[n] PROVE g[fwd[n]] = HomeTable(k)
    <3>1. fwd[n] \in Caps /\ Live(fwd[n], Bini(k, fwd[n]))
      BY <1>1, <2>1
    <3>2. Bini(k, fwd[n]) \notin moved[fwd[n]] => fwd[n] = HomeTable(k)
      BY <3>1, LiveHome
    <3> QED
      BY <3>1, <3>2
  <2> QED
    BY <2>1
<1>3. f = [n \in Caps |-> IF Bini(k, n) \in moved[n] THEN f[fwd[n]] ELSE n]
  <2>1. \E h : h = [n \in Caps |-> IF Bini(k, n) \in moved[n] THEN h[fwd[n]] ELSE n]
    BY <1>2
  <2> QED
    BY <2>1
<1>4. Home(k, table) = f[table]
  BY DEF Home
<1> HIDE DEF f, g
<1>5. /\ table \in Caps /\ HomeTable(k) \in Caps
      /\ HomeBin(k) \notin moved[HomeTable(k)]
  BY HomeLive
<1>6. f[HomeTable(k)] = HomeTable(k)
  BY <1>3, <1>5 DEF HomeBin
<1>7. CASE Bini(k, table) \in moved[table]
  <2>1. f[table] = f[2 * table]
    BY <1>1, <1>3, <1>5, <1>7
  <2> QED
    BY <1>4, <1>6, <1>7, <2>1 DEF HomeTable
<1>8. CASE Bini(k, table) \notin moved[table]
  BY <1>4, <1>6, <1>8 DEF HomeTable
<1> QED
  BY <1>7, <1>8

Only(v) == IF v = None THEN {} ELSE {v}

HomeFits(k) ==
    /\ HomeTable(k) \in Caps /\ HomeBin(k) \in 0..(HomeTable(k) - 1)
    /\ HomeBin(k) \notin moved[HomeTable(k)] /\ Live(HomeTable(k), HomeBin(k))
    /\ HomeHead(k) \in 0..Len(node) /\ IsList(node, HomeHead(k), HomeTable(k), HomeBin(k))
    /\ ValuesAt(node, HomeHead(k), k) = Only(Contents[k])

(* What the map holds for a key is what that bin's list has. *)
HomesFit ==
    /\ Contents \in [Keys -> Values \cup {None}]
    /\ table = Null => \A k \in Keys : Contents[k] = None
    /\ table # Null => \A k \in Keys : HomeFits(k)

LEMMA HomeKnown == MapInv => HomesFit
<1> SUFFICES ASSUME MapInv PROVE HomesFit
  OBVIOUS
<1>1. MapTyped /\ IInv /\ CInv /\ Lists /\ Marks
  BY DEF MapInv, KInv
<1>2. Linked(node) /\ Ranked(node)
  BY <1>1 DEF MapTyped, HeapTyped
<1>3. DOMAIN Contents = Keys /\ Contents = [k \in Keys |-> Contents[k]]
  BY DEF Contents
<1>4. CASE table = Null
  <2>1. \A k \in Keys : Contents[k] = None
    BY <1>4 DEF Contents
  <2> QED
    BY <1>3, <1>4, <2>1 DEF HomesFit
<1>5. CASE table # Null
  <2>1. ASSUME NEW k \in Keys PROVE HomeFits(k) /\ Contents[k] \in Values \cup {None}
    <3>1. /\ HomeTable(k) \in Caps /\ HomeBin(k) \in 0..(HomeTable(k) - 1)
          /\ HomeBin(k) \notin moved[HomeTable(k)] /\ Live(HomeTable(k), HomeBin(k))
          /\ HomeHead(k) \in 0..Len(node)
      BY <1>1, <1>5, HomeLive
    <3>2. IsList(node, HomeHead(k), HomeTable(k), HomeBin(k))
      BY <1>1, <3>1 DEF Lists, LiveBins, HomeHead
    <3> DEFINE p == ChainHolding(k, HomeHead(k))
    <3>3. Contents[k] = IF p = 0 THEN None ELSE node[p].val
      <4>1. Home(k, table) = HomeTable(k)
        BY <1>1, <1>5, HomeIs
      <4> QED
        BY <1>5, <4>1 DEF Contents, HomeList, HomeHead, HomeBin
    <3>4. /\ p \in Reach(node, HomeHead(k)) \cup {0} /\ (p # 0 => node[p].key = k)
          /\ p = 0 => \A m \in Reach(node, HomeHead(k)) : node[m].key # k
      BY <1>2, <3>1, HoldingFinds
    <3> HIDE DEF p
    <3>5. CASE p = 0
      <4>1. ValuesAt(node, HomeHead(k), k) = {}
        BY <1>2, <3>1, <3>4, <3>5, HeldNone
      <4> QED
        BY <3>1, <3>2, <3>3, <3>5, <4>1 DEF HomeFits, Only
    <3>6. CASE p # 0
      <4>1. p \in Reach(node, HomeHead(k)) /\ node[p].key = k
        BY <3>4, <3>6
      <4>2. \A q \in Reach(node, HomeHead(k)) : node[q].key = node[p].key => q = p
        BY <3>2, <4>1 DEF IsList
      <4>3. ValuesAt(node, HomeHead(k), k) = {node[p].val}
        <5>1. ValuesAt(node, HomeHead(k), node[p].key) = {node[p].val}
          BY <1>2, <3>1, <4>1, <4>2, HeldOnce
        <5> QED
          BY <4>1, <5>1
      <4>4. node[p].val \in Values
        BY <4>3 DEF ValuesAt
      <4> QED
        BY <3>1, <3>2, <3>3, <3>6, <4>3, <4>4, NoneAssumption DEF HomeFits, Only
    <3> QED
      BY <3>5, <3>6
  <2> QED
    BY <1>3, <1>5, <2>1 DEF HomesFit
<1> QED
  BY <1>4, <1>5

LEMMA HomeKnownNext == MapInv' => HomesFit'
  BY HomeKnown, PTL

-----------------------------------------------------------------------------
(* What planners have to do with the keys *)

LEMMA InvParts ==
    ASSUME MapInv
    PROVE  /\ MapTyped /\ IInv /\ CInv /\ Lists /\ Marks /\ Linked(node) /\ Ranked(node)
           /\ HeapTyped /\ Len(node) \in Nat /\ DOMAIN node = 1..Len(node)
           /\ \A n \in Caps : \A i \in 0..(n - 1) : bins[n][i] \in 0..Len(node)
  BY LenTyped DEF MapInv, KInv, MapTyped, HeapTyped

(* The keys of the bin a thread holds are at home there. *)
PlanHome(u) ==
    /\ table \in Caps /\ table \in Nat /\ table # Null /\ 2 * table \in Caps
    /\ idx[u] \in 0..(table - 1) /\ idx[u] \notin moved[table]
    /\ bins[table][idx[u]] = plan[u].head /\ plan[u].head # 0 /\ plan[u].head \in locked
    /\ plan[u].head \in 0..Len(node) /\ plan[u].low \in 0..Len(node) /\ plan[u].high \in 0..Len(node)
    /\ \A k \in Keys :
          /\ ValuesAt(node, plan[u].head, k) # {} => Bini(k, table) = idx[u]
          /\ Bini(k, table) = idx[u] =>
                HomeTable(k) = table /\ HomeBin(k) = idx[u] /\ HomeHead(k) = plan[u].head

PlansHome == \A u \in Threads : Planning(u) => PlanHome(u)

LEMMA PlansKnown == MapInv => PlansHome
<1> SUFFICES ASSUME MapInv, NEW u \in Threads, Planning(u) PROVE PlanHome(u)
  BY DEF PlansHome
<1>1. /\ MapTyped /\ IInv /\ CInv /\ Lists /\ Linked(node)
      /\ \A n \in Caps : \A i \in 0..(n - 1) : bins[n][i] \in 0..Len(node)
  BY InvParts
<1>2. /\ table \in Caps /\ 2 * table \in Caps /\ idx[u] \in 0..(table - 1)
      /\ idx[u] \notin moved[table] /\ table \in Nat
      /\ bins[table][idx[u]] = plan[u].head /\ plan[u].head # 0 /\ plan[u].head \in locked
      /\ plan[u].low \in 0..Len(node) /\ plan[u].high \in 0..Len(node)
  BY <1>1, PlannerKnows
<1>3. plan[u].head \in 0..Len(node) /\ table # Null
  BY <1>1, <1>2
<1>4. IsList(node, plan[u].head, table, idx[u])
  <2>1. Live(table, idx[u])
    BY DEF Live
  <2> QED
    BY <1>1, <1>2, <2>1 DEF Lists, LiveBins
<1>5. ASSUME NEW k \in Keys, ValuesAt(node, plan[u].head, k) # {} PROVE Bini(k, table) = idx[u]
  BY <1>4, <1>5 DEF ValuesAt, IsList
<1>6. ASSUME NEW k \in Keys, Bini(k, table) = idx[u]
      PROVE  HomeTable(k) = table /\ HomeBin(k) = idx[u] /\ HomeHead(k) = plan[u].head
  BY <1>2, <1>6 DEF HomeTable, HomeBin, HomeHead
<1> QED
  BY <1>2, <1>3, <1>5, <1>6 DEF PlanHome

LEMMA PlansKnownNext == MapInv' => PlansHome'
  BY PlansKnown, PTL

(* A key that a clear has taken out of the bin it is to move to *)
Spoiled(u, k) ==
    /\ Planning(u)
    /\ plan[u].stage = "moved" \/ (plan[u].stage = "high" /\ Bini(k, 2 * table) = idx[u])
    /\ ValuesAt(node, plan[u].head, k) # {}
    /\ ValuesAt(node, bins[2 * table][Bini(k, 2 * table)], k) = {}

DoomedIs == Doomed = {k \in Keys : \E u \in Threads : Spoiled(u, k)}

LEMMA DoomedKnown == MapInv => DoomedIs
<1> SUFFICES ASSUME MapInv, NEW k \in Keys
             PROVE  k \in Doomed <=> \E u \in Threads : Spoiled(u, k)
  BY DEF Doomed, DoomedIs
<1>1. /\ MapTyped /\ IInv /\ CInv /\ Lists /\ Linked(node) /\ Ranked(node)
      /\ \A n \in Caps : \A i \in 0..(n - 1) : bins[n][i] \in 0..Len(node)
  BY InvParts
<1>2. ASSUME NEW u \in Threads
      PROVE  (LET i == Bini(k, nt[u]) IN
              /\ plan[u].stage = "moved" \/ (plan[u].stage = "high" /\ i = idx[u])
              /\ ChainHolding(k, plan[u].head) # 0
              /\ ChainHolding(k, bins[nt[u]][i]) = 0) <=> Spoiled(u, k)
  <2>1. CASE ~Planning(u)
    BY <2>1 DEF Spoiled, Planning
  <2>2. CASE Planning(u)
    <3>1. nt[u] = 2 * table
      BY <1>1, <2>2, PlannerKnows
    <3>2. PlanHome(u)
      BY <2>2, PlansKnown DEF PlansHome
    <3> DEFINE x == plan[u].head
               y == bins[2 * table][Bini(k, 2 * table)]
    <3>3. x \in 0..Len(node) /\ y \in 0..Len(node)
      <4>1. Bini(k, 2 * table) \in 0..(2 * table - 1)
        BY <3>2, BiniTyped DEF PlanHome
      <4> QED
        BY <1>1, <3>2, <4>1 DEF PlanHome
    <3> HIDE DEF x, y
    <3>4. ChainHolding(k, x) # 0 <=> ValuesAt(node, x, k) # {}
      BY <1>1, <3>3, HoldingHeld
    <3>5. ChainHolding(k, y) = 0 <=> ValuesAt(node, y, k) = {}
      BY <1>1, <3>3, HoldingHeld
    <3> QED
      BY <2>2, <3>1, <3>4, <3>5 DEF Spoiled, x, y
  <2> QED
    BY <2>1, <2>2
<1> QED
  BY <1>2 DEF Doomed

LEMMA DoomedKnownNext == MapInv' => DoomedIs'
  BY DoomedKnown, PTL

(* Where a bin is not held, its keys are not doomed. *)
LEMMA KeyFree ==
    ASSUME MapInv, NEW k \in Keys, HomeHead(k) \notin locked
    PROVE  /\ k \notin Doomed
           /\ \A u \in Threads : Planning(u) => Bini(k, table) # idx[u]
<1>1. ASSUME NEW u \in Threads, Planning(u) PROVE Bini(k, table) # idx[u]
  BY <1>1, PlansKnown DEF PlanHome, PlansHome
<1>2. k \notin Doomed
  <2>1. ASSUME NEW u \in Threads, Spoiled(u, k) PROVE FALSE
    BY <1>1, <2>1, PlansKnown DEF Spoiled, PlanHome, PlansHome
  <2> QED
    BY <2>1, DoomedKnown DEF DoomedIs
<1> QED
  BY <1>1, <1>2

(* What a thread has made of a bin has what the bin's list has. *)
NewHead(u, k) == IF Bini(k, 2 * table) = idx[u] THEN plan[u].low ELSE plan[u].high
PlanWhole(u) ==
    Planning(u) =>
        \A k \in Keys : Bini(k, table) = idx[u] =>
            ValuesAt(node, plan[u].head, k) = ValuesAt(node, NewHead(u, k), k)
PInv == \A u \in Threads : PlanWhole(u)

=============================================================================
