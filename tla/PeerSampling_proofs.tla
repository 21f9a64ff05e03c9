------------------------ MODULE PeerSampling_proofs -------------------------
(***************************************************************************)
(* What a node knows of the others is bounded, sound and the youngest, for *)
(* any nodes, sizes and contacts, whatever messages arrive.                *)
(***************************************************************************)
EXTENDS PeerSampling, FiniteSetTheorems, SequenceTheorems, NaturalsInduction,
        WellFoundedInduction, TLAPS

(* Nothing comes to a node that does not run here. *)
OnlyHere ==
    \A n \in Hosts \ world.here : DOMAIN view[n] = {} /\ inbox[n] = << >>

IInv == ViewsSound /\ OnlyHere

-----------------------------------------------------------------------------
(* Views *)

(* A configuration is what it is assumed to be. *)
LEMMA WorldTyped ==
    ASSUME world \in Worlds
    PROVE  /\ world.maxAge \in Nat
           /\ world.viewSize \in Nat /\ world.viewSize >= 2 /\ world.healing \in Nat
           /\ world.here \subseteq Hosts /\ world.elsewhere \subseteq Peers
           /\ world.contacts \in [world.here -> SUBSET Peers]
BY WorldsAssumption

(* A view has peers, and their ages. *)
LEMMA ViewsAre ==
    /\ \A v \in Views : DOMAIN v \subseteq Peers /\ \A q \in DOMAIN v : v[q] \in 0..world.maxAge
    /\ \A known \in SUBSET Peers : [known -> 0..world.maxAge] \subseteq Views
BY DEF Views

(* A view without peers *)
LEMMA EmptyTyped == << >> \in Views /\ DOMAIN << >> = {} /\ Cardinality(DOMAIN << >>) = 0
<1>1. DOMAIN << >> = {} /\ << >> \in [{} -> 0..world.maxAge]
    OBVIOUS
<1>2. {} \in SUBSET Peers
    OBVIOUS
<1> QED BY <1>1, <1>2, ViewsAre, FS_EmptySet

(* The size of a view is a number. *)
LEMMA SizeTyped ==
    ASSUME NEW v \in Views
    PROVE  IsFiniteSet(DOMAIN v) /\ Size(v) \in Nat
<1>1. IsFiniteSet(DOMAIN v)
    BY ViewsAre, PeersAssumption, FS_Subset
<1> QED BY <1>1, FS_CardinalityType DEF Size

(* Growing older changes no peer. *)
LEMMA AgedTyped ==
    ASSUME world \in Worlds, NEW v \in Views
    PROVE  Aged(v) \in Views /\ DOMAIN Aged(v) = DOMAIN v
<1>1. world.maxAge \in Nat
    BY WorldTyped
<1>2. DOMAIN v \in SUBSET Peers /\ \A q \in DOMAIN v : v[q] \in 0..world.maxAge
    BY ViewsAre
<1>3. Aged(v) \in [DOMAIN v -> 0..world.maxAge]
    BY <1>1, <1>2 DEF Aged, Least
<1> QED BY <1>2, <1>3, ViewsAre

(* What a node tells of: itself and peers of its view *)
LEMMA BufferTyped ==
    ASSUME world \in Worlds, NEW n \in Hosts, view[n] \in Views, NEW head \in Heads(view[n])
    PROVE  Buffer(n, head) \in Views
<1>1. world.maxAge \in Nat
    BY WorldTyped
<1>2. head \subseteq DOMAIN view[n]
    BY DEF Heads, kSubset
<1>3. head \cup {n} \in SUBSET Peers
    BY <1>2, ViewsAre, PeersAssumption
<1>4. Buffer(n, head) \in [head \cup {n} -> 0..world.maxAge]
    BY <1>1, <1>2, ViewsAre DEF Buffer
<1> QED BY <1>3, <1>4, ViewsAre

(* Merging adds the peers of a message, not the node itself. *)
LEMMA MergedTyped ==
    ASSUME world \in Worlds, NEW n \in Hosts, NEW v \in Views, NEW buffer \in Views
    PROVE  Merged(n, v, buffer) \in Views
           /\ DOMAIN Merged(n, v, buffer) = DOMAIN v \cup (DOMAIN buffer \ {n})
<1>1. /\ DOMAIN v \cup (DOMAIN buffer \ {n}) \in SUBSET Peers
      /\ \A q \in DOMAIN v : v[q] \in 0..world.maxAge
      /\ \A q \in DOMAIN buffer : buffer[q] \in 0..world.maxAge
    BY ViewsAre
<1>2. Merged(n, v, buffer) \in [DOMAIN v \cup (DOMAIN buffer \ {n}) -> 0..world.maxAge]
    BY <1>1 DEF Merged, Least
<1> QED BY <1>1, <1>2, ViewsAre

(* select removes exactly as many as are too many, the oldest among them if
   it heals at all. *)
LEMMA SelectedSize ==
    ASSUME world \in Worlds, NEW n \in Hosts, NEW v \in Views, NEW buffer \in Views,
           NEW s \in Selected(n, v, buffer)
    PROVE  LET m == Merged(n, v, buffer)
           IN /\ s \in Views /\ DOMAIN s \subseteq DOMAIN m
              /\ Size(s) <= world.viewSize
              /\ Over(m) = 0 => DOMAIN s = DOMAIN m
              /\ Over(m) > 0 => Size(s) = world.viewSize
              /\ Over(m) > 0 /\ world.healing > 0 =>
                    \E gone \in DOMAIN m \ DOMAIN s : \A kept \in DOMAIN s : m[kept] <= m[gone]
<1> DEFINE m == Merged(n, v, buffer)
           healed == Least(world.healing, Over(m))
<1>0. world.viewSize \in Nat /\ world.healing \in Nat
    BY WorldTyped
<1>1. m \in Views
    BY MergedTyped
<1>2. PICK old \in Oldest(m, healed) : \E any \in kSubset(Over(m) - healed, DOMAIN m \ old) :
          s = Restrict(m, DOMAIN m \ (old \cup any))
    BY DEF Selected
<1>3. PICK any \in kSubset(Over(m) - healed, DOMAIN m \ old) :
          s = Restrict(m, DOMAIN m \ (old \cup any))
    BY <1>2
<1> HIDE DEF m
<1>4. IsFiniteSet(DOMAIN m) /\ Size(m) \in Nat
    BY <1>1, SizeTyped
<1>5. /\ Over(m) \in Nat /\ Over(m) <= Size(m)
      /\ Over(m) = 0 => Size(m) <= world.viewSize
      /\ Over(m) > 0 => Size(m) - Over(m) = world.viewSize
    BY <1>0, <1>4 DEF Over
<1>6. healed \in Nat /\ healed <= Over(m) /\ (Over(m) > 0 /\ world.healing > 0 => healed > 0)
    BY <1>0, <1>5 DEF Least
<1> HIDE DEF healed
<1>7. /\ old \subseteq DOMAIN m /\ Cardinality(old) = healed
      /\ \A o \in old, q \in DOMAIN m \ old : m[q] <= m[o]
    BY DEF Oldest, kSubset
<1>8. any \subseteq DOMAIN m \ old /\ Cardinality(any) = Over(m) - healed
    BY DEF kSubset
<1>9. IsFiniteSet(old) /\ IsFiniteSet(any)
    BY <1>4, <1>7, <1>8, FS_Subset
<1>10. IsFiniteSet(old \cup any) /\ Cardinality(old \cup any) = Over(m)
    <2>1. old \cap any = {}
        BY <1>8
    <2>2. Cardinality(old \cap any) = 0
        BY <2>1, FS_EmptySet
    <2>3. /\ IsFiniteSet(old \cup any)
          /\ Cardinality(old \cup any) = Cardinality(old) + Cardinality(any) - Cardinality(old \cap any)
        BY <1>9, FS_Union
    <2> QED BY <1>5, <1>6, <1>7, <1>8, <2>2, <2>3
<1>11. DOMAIN s = DOMAIN m \ (old \cup any) /\ s = [q \in DOMAIN s |-> m[q]]
    BY <1>3 DEF Restrict
<1>12. Size(s) = Size(m) - Over(m)
    <2>1. old \cup any \subseteq DOMAIN m
        BY <1>7, <1>8
    <2>2. (DOMAIN m) \cap (old \cup any) = old \cup any
        BY <2>1
    <2>3. Cardinality(DOMAIN m \ (old \cup any)) = Cardinality(DOMAIN m) - Cardinality((DOMAIN m) \cap (old \cup any))
        BY <1>4, FS_Difference
    <2> QED BY <1>10, <1>11, <2>2, <2>3 DEF Size
<1>13. s \in Views
    <2>1. DOMAIN s \in SUBSET Peers /\ \A q \in DOMAIN s : m[q] \in 0..world.maxAge
        BY <1>1, <1>11, ViewsAre
    <2>2. s \in [DOMAIN s -> 0..world.maxAge]
        BY <1>11, <2>1
    <2> QED BY <2>1, <2>2, ViewsAre
<1>14. Over(m) = 0 => DOMAIN s = DOMAIN m
    <2>1. SUFFICES ASSUME Over(m) = 0 PROVE old \cup any = {}
        BY <1>11
    <2> QED BY <1>10, <2>1, FS_EmptySet
<1>15. ASSUME Over(m) > 0, world.healing > 0
       PROVE  \E gone \in DOMAIN m \ DOMAIN s : \A kept \in DOMAIN s : m[kept] <= m[gone]
    <2>1. old # {}
        BY <1>6, <1>7, <1>15, FS_EmptySet
    <2>2. PICK gone \in old : TRUE
        BY <2>1
    <2> QED BY <1>7, <1>11, <2>2
<1>16. Size(s) <= world.viewSize /\ (Over(m) > 0 => Size(s) = world.viewSize)
    BY <1>0, <1>4, <1>5, <1>12
<1> QED BY <1>11, <1>13, <1>14, <1>15, <1>16 DEF m

-----------------------------------------------------------------------------
(* Messages *)

Boxes == [Hosts -> Seq(Messages)]

(* A message to a node that has a listener, or has not *)
LEMMA SendingTyped ==
    ASSUME world \in Worlds, NEW boxes \in Boxes, NEW to \in Peers, NEW m \in Messages
    PROVE  /\ Sent(boxes, to, m) \in Boxes
           /\ \A n \in Hosts \ world.here : Sent(boxes, to, m)[n] = boxes[n]
<1>1. world.here \subseteq Hosts
    BY WorldTyped
<1>2. CASE to \in world.here
    <2>1. to \in Hosts /\ Append(boxes[to], m) \in Seq(Messages)
        BY <1>1, <1>2, AppendProperties DEF Boxes
    <2> QED BY <1>2, <2>1 DEF Sent, Boxes
<1>3. CASE to \notin world.here
    BY <1>3 DEF Sent
<1> QED BY <1>2, <1>3

(* The first message of a box, and the others *)
LEMMA TakingTyped ==
    ASSUME NEW boxes \in Boxes, NEW n \in Hosts, boxes[n] # << >>
    PROVE  /\ Head(boxes[n]) \in Messages
           /\ [boxes EXCEPT ![n] = Tail(@)] \in Boxes
<1>1. boxes[n] \in Seq(Messages)
    BY DEF Boxes
<1>2. Head(boxes[n]) \in Messages /\ Tail(boxes[n]) \in Seq(Messages)
    BY <1>1, HeadTailProperties
<1> QED BY <1>2 DEF Boxes

(* A box whose last messages are not read *)
LEMMA CuttingTyped ==
    ASSUME NEW boxes \in Boxes, NEW n \in Hosts, NEW taken \in Prefixes(boxes[n])
    PROVE  [boxes EXCEPT ![n] = taken] \in Boxes
<1>1. boxes[n] \in Seq(Messages)
    BY DEF Boxes
<1>2. PICK l \in 0..Len(boxes[n]) : taken = SubSeq(boxes[n], 1, l)
    BY DEF Prefixes
<1>3. taken \in Seq(Messages)
    BY <1>1, <1>2, SubSeqProperties
<1> QED BY <1>3 DEF Boxes

-----------------------------------------------------------------------------
(* The invariant *)

(* What the invariant says, in the words of the lemmas *)
LEMMA Knowns ==
    ASSUME IInv
    PROVE  /\ world \in Worlds /\ world.here \subseteq Hosts
           /\ view \in [Hosts -> Views] /\ inbox \in Boxes
           /\ \A n \in Hosts :
                 /\ view[n] \in Views /\ n \notin DOMAIN view[n]
                 /\ Size(view[n]) > world.viewSize => DOMAIN view[n] \subseteq world.contacts[n]
           /\ \A n \in Hosts \ world.here : DOMAIN view[n] = {} /\ inbox[n] = << >>
<1>1. world \in Worlds /\ view \in [Hosts -> Views] /\ inbox \in Boxes
    BY DEF IInv, ViewsSound, Boxes
<1>2. world.here \subseteq Hosts
    BY <1>1, WorldTyped
<1> QED BY <1>1, <1>2 DEF IInv, ViewsSound, OnlyHere

(* A step that gives a node a view as sound as its last *)
LEMMA ViewKeeps ==
    ASSUME IInv, UNCHANGED world, inbox' \in Boxes,
           \A n \in Hosts \ world.here : inbox'[n] = << >>,
           NEW n \in Hosts, NEW v \in Views, view' = [view EXCEPT ![n] = v],
           n \notin DOMAIN v, n \in world.here \/ DOMAIN v = {},
           Size(v) <= world.viewSize \/ DOMAIN v = DOMAIN view[n]
    PROVE  IInv'
<1>0. /\ world \in Worlds /\ view \in [Hosts -> Views]
      /\ \A m \in Hosts :
            /\ view[m] \in Views /\ m \notin DOMAIN view[m]
            /\ Size(view[m]) > world.viewSize => DOMAIN view[m] \subseteq world.contacts[m]
      /\ \A m \in Hosts \ world.here : DOMAIN view[m] = {}
    BY Knowns
<1>1. world.viewSize \in Nat /\ Size(v) \in Nat
    BY <1>0, WorldTyped, SizeTyped
<1>2. Views' = Views /\ Messages' = Messages
    BY DEF Views, Messages
<1>3. /\ view' \in [Hosts -> Views] /\ view'[n] = v
      /\ \A m \in Hosts \ {n} : view'[m] = view[m]
    BY <1>0
<1>4. ASSUME NEW m \in Hosts
      PROVE  /\ m \notin DOMAIN view'[m]
             /\ Size(view'[m]) > world.viewSize => DOMAIN view'[m] \subseteq world.contacts[m]
             /\ m \notin world.here => DOMAIN view'[m] = {}
    <2>1. CASE m # n
        BY <1>0, <1>3, <2>1
    <2>2. CASE m = n
        <3>1. n \notin DOMAIN v /\ (n \notin world.here => DOMAIN v = {})
            OBVIOUS
        <3>2. CASE Size(v) <= world.viewSize
            BY <1>1, <1>3, <2>2, <3>1, <3>2
        <3>3. CASE DOMAIN v = DOMAIN view[n]
            <4>1. Size(v) = Size(view[n])
                BY <3>3 DEF Size
            <4> QED BY <1>0, <1>3, <2>2, <3>1, <3>3, <4>1
        <3> QED BY <3>2, <3>3
    <2> QED BY <2>1, <2>2
<1>5. /\ \A m \in Hosts :
            /\ m \notin DOMAIN view'[m]
            /\ Size(view'[m]) > world'.viewSize => DOMAIN view'[m] \subseteq world'.contacts[m]
      /\ \A m \in Hosts \ world'.here : DOMAIN view'[m] = {} /\ inbox'[m] = << >>
    BY <1>4
<1>6. ViewsSound'
    BY <1>0, <1>2, <1>3, <1>5 DEF ViewsSound, Boxes, Size
<1>7. OnlyHere'
    BY <1>5 DEF OnlyHere
<1> QED BY <1>6, <1>7 DEF IInv

(* A step that changes messages only *)
LEMMA InboxKeeps ==
    ASSUME IInv, UNCHANGED <<world, view>>, inbox' \in Boxes,
           \A n \in Hosts \ world.here : inbox'[n] = << >>
    PROVE  IInv'
<1>1. Views' = Views /\ Messages' = Messages
    BY DEF Views, Messages
<1> QED BY <1>1 DEF IInv, ViewsSound, OnlyHere, Boxes, Size

(* A message a peer makes of a view *)
LEMMA MessageTyped ==
    ASSUME NEW n \in Peers, NEW type \in {"request", "response"}, NEW v \in Views
    PROVE  Message(n, type, v) \in Messages
BY DEF Message, Messages

(* A node that waits to handle a message, or knows somebody, runs here. *)
LEMMA RunsHere ==
    ASSUME IInv, NEW n \in Hosts, inbox[n] # << >> \/ DOMAIN view[n] # {}
    PROVE  n \in world.here /\ n \in Peers
BY Knowns, PeersAssumption

(* The contacts a node begins with *)
LEMMA InitInvariant == Init => IInv
<1> SUFFICES ASSUME Init PROVE IInv
    OBVIOUS
<1> DEFINE first(n) == IF n \in world.here THEN world.contacts[n] \ {n} ELSE {}
<1>1. world \in Worlds
    BY DEF Init
<1>2. /\ world.maxAge \in Nat /\ world.viewSize \in Nat
      /\ world.contacts \in [world.here -> SUBSET Peers]
    BY <1>1, WorldTyped
<1>3. \A n \in Hosts : view[n] = [q \in first(n) |-> 0]
    BY DEF Init
<1>4. ASSUME NEW n \in Hosts
      PROVE  /\ view[n] \in Views /\ DOMAIN view[n] = first(n)
             /\ n \notin DOMAIN view[n]
             /\ Size(view[n]) > world.viewSize => DOMAIN view[n] \subseteq world.contacts[n]
    <2>1. first(n) \in SUBSET Peers /\ n \notin first(n)
        BY <1>2
    <2>2. [q \in first(n) |-> 0] \in [first(n) -> 0..world.maxAge]
        BY <1>2
    <2>3. view[n] \in Views /\ DOMAIN view[n] = first(n)
        BY <1>3, <2>1, <2>2, ViewsAre
    <2>4. CASE n \in world.here
        BY <2>1, <2>3, <2>4
    <2>5. CASE n \notin world.here
        <3>1. Size(view[n]) = 0
            BY <2>3, <2>5, FS_EmptySet DEF Size
        <3> QED BY <1>2, <2>1, <2>3, <3>1
    <2> QED BY <2>1, <2>3, <2>4, <2>5
<1>5. view \in [Hosts -> Views]
    <2>1. view = [n \in Hosts |-> view[n]]
        BY DEF Init
    <2> QED BY <1>4, <2>1
<1>6. inbox \in Boxes /\ \A n \in Hosts : inbox[n] = << >>
    BY DEF Init, Boxes
<1>7. ViewsSound
    BY <1>1, <1>4, <1>5, <1>6 DEF ViewsSound, Boxes
<1>8. OnlyHere
    BY <1>4, <1>6 DEF OnlyHere
<1> QED BY <1>7, <1>8 DEF IInv

(* The sampling thread ages its view, having told a peer of some of it. *)
LEMMA SampleKeeps ==
    ASSUME IInv, NEW n \in Hosts, NEW p \in Peers, NEW head \in SUBSET DOMAIN view[n],
           Sample(n, p, head)
    PROVE  IInv'
<1> DEFINE v == IF world.push THEN Buffer(n, head) ELSE NoView
           m == Message(n, "request", v)
<1>1. /\ world \in Worlds /\ inbox \in Boxes /\ view[n] \in Views /\ n \notin DOMAIN view[n]
      /\ \A q \in Hosts \ world.here : inbox[q] = << >>
    BY Knowns
<1>2. n \in world.here /\ n \in Peers
    BY RunsHere DEF Sample
<1>3. v \in Views
    <2>1. head \in Heads(view[n])
        BY DEF Sample
    <2> QED BY <1>1, <2>1, BufferTyped, EmptyTyped DEF NoView
<1>4. m \in Messages
    BY <1>2, <1>3, MessageTyped
<1>5. inbox' = Sent(inbox, p, m) /\ view' = [view EXCEPT ![n] = Aged(view[n])] /\ UNCHANGED world
    BY DEF Sample
<1> HIDE DEF m, v
<1>6. inbox' \in Boxes /\ \A q \in Hosts \ world.here : inbox'[q] = << >>
    BY <1>1, <1>4, <1>5, SendingTyped
<1>7. Aged(view[n]) \in Views /\ DOMAIN Aged(view[n]) = DOMAIN view[n]
    BY <1>1, AgedTyped
<1> QED BY <1>1, <1>2, <1>5, <1>6, <1>7, ViewKeeps

(* What the receiver answers with leaves all messages typed. *)
LEMMA AnsweredTyped ==
    ASSUME IInv, NEW n \in Hosts, inbox[n] # << >>,
           NEW boxes \in Answered(n, Head(inbox[n]))
    PROVE  boxes \in Boxes /\ \A q \in Hosts \ world.here : boxes[q] = << >>
<1> DEFINE m == Head(inbox[n])
           rest == [inbox EXCEPT ![n] = Tail(@)]
<1>1. /\ world \in Worlds /\ inbox \in Boxes /\ view[n] \in Views
      /\ \A q \in Hosts \ world.here : inbox[q] = << >>
    BY Knowns
<1>2. n \in world.here /\ n \in Peers
    BY RunsHere
<1>3. m \in Messages /\ rest \in Boxes
    BY <1>1, TakingTyped
<1>4. m.from \in Peers
    BY <1>3 DEF Messages
<1>5. \A q \in Hosts \ world.here : rest[q] = << >>
    BY <1>1, <1>2 DEF Boxes
<1>6. boxes = rest
      \/ \E head \in Heads(view[n]) : boxes = Sent(rest, m.from, Message(n, "response", Buffer(n, head)))
    BY DEF Answered
<1> HIDE DEF m, rest
<1>7. ASSUME NEW head \in Heads(view[n]),
             boxes = Sent(rest, m.from, Message(n, "response", Buffer(n, head)))
      PROVE  boxes \in Boxes /\ \A q \in Hosts \ world.here : boxes[q] = << >>
    <2>1. Buffer(n, head) \in Views
        BY <1>1, BufferTyped
    <2>2. Message(n, "response", Buffer(n, head)) \in Messages
        BY <1>2, <2>1, MessageTyped
    <2> QED BY <1>1, <1>3, <1>4, <1>5, <1>7, <2>2, SendingTyped
<1> QED BY <1>3, <1>5, <1>6, <1>7

(* The receiver ages its view, merged with what came or not. *)
LEMMA ReceiveKeeps ==
    ASSUME IInv, NEW n \in Hosts, Receive(n)
    PROVE  IInv'
<1> DEFINE m == Head(inbox[n])
<1>1. /\ world \in Worlds /\ inbox \in Boxes /\ view[n] \in Views /\ n \notin DOMAIN view[n]
    BY Knowns
<1>2. inbox[n] # << >> /\ inbox' \in Answered(n, m) /\ UNCHANGED world
    BY DEF Receive
<1>3. n \in world.here
    BY <1>2, RunsHere
<1>4. inbox' \in Boxes /\ \A q \in Hosts \ world.here : inbox'[q] = << >>
    BY <1>2, AnsweredTyped
<1>5. m.view \in Views
    BY <1>1, <1>2, TakingTyped DEF Messages
<1>6. view' = [view EXCEPT ![n] = Aged(view[n])]
      \/ \E v \in Selected(n, view[n], m.view) : view' = [view EXCEPT ![n] = Aged(v)]
    BY DEF Receive
<1> HIDE DEF m
<1>7. CASE view' = [view EXCEPT ![n] = Aged(view[n])]
    <2>1. Aged(view[n]) \in Views /\ DOMAIN Aged(view[n]) = DOMAIN view[n]
        BY <1>1, AgedTyped
    <2> QED BY <1>1, <1>2, <1>3, <1>4, <1>7, <2>1, ViewKeeps
<1>8. ASSUME NEW v \in Selected(n, view[n], m.view), view' = [view EXCEPT ![n] = Aged(v)]
      PROVE  IInv'
    <2>1. /\ v \in Views /\ Size(v) <= world.viewSize
          /\ DOMAIN v \subseteq DOMAIN Merged(n, view[n], m.view)
        BY <1>1, <1>5, <1>8, SelectedSize
    <2>2. n \notin DOMAIN v
        <3>1. DOMAIN Merged(n, view[n], m.view) = DOMAIN view[n] \cup (DOMAIN m.view \ {n})
            BY <1>1, <1>5, MergedTyped
        <3> QED BY <1>1, <2>1, <3>1
    <2>3. Aged(v) \in Views /\ DOMAIN Aged(v) = DOMAIN v
        BY <1>1, <2>1, AgedTyped
    <2>4. Size(Aged(v)) <= world.viewSize
        BY <2>1, <2>3 DEF Size
    <2> QED BY <1>2, <1>3, <1>4, <1>8, <2>2, <2>3, <2>4, ViewKeeps
<1> QED BY <1>6, <1>7, <1>8

(* A message of a node elsewhere, which tells of itself and of a few others *)
LEMMA ArriveKeeps ==
    ASSUME IInv, NEW n \in Hosts, NEW from \in Peers, Arrive(n, from)
    PROVE  IInv'
<1>1. /\ world \in Worlds /\ inbox \in Boxes
      /\ \A q \in Hosts \ world.here : inbox[q] = << >>
    BY Knowns
<1>2. world.maxAge \in Nat
    BY <1>1, WorldTyped
<1>3. n \in Peers /\ UNCHANGED <<world, view>>
    BY PeersAssumption DEF Arrive
<1>4. \E m \in Messages : inbox' = Sent(inbox, n, m)
    <2>1. PICK type \in {"request", "response"}, others \in SUBSET (Peers \ {from}) :
              \E age \in [others -> 0..world.maxAge] :
                \/ inbox' = Sent(inbox, n, Message(from, type,
                               [q \in others \cup {from} |-> IF q = from THEN 0 ELSE age[q]]))
                \/ inbox' = Sent(inbox, n, Message(from, "request", NoView))
        BY DEF Arrive
    <2>2. PICK age \in [others -> 0..world.maxAge] :
                \/ inbox' = Sent(inbox, n, Message(from, type,
                               [q \in others \cup {from} |-> IF q = from THEN 0 ELSE age[q]]))
                \/ inbox' = Sent(inbox, n, Message(from, "request", NoView))
        BY <2>1
    <2> DEFINE told == [q \in others \cup {from} |-> IF q = from THEN 0 ELSE age[q]]
    <2>3. others \cup {from} \in SUBSET Peers /\ told \in [others \cup {from} -> 0..world.maxAge]
        BY <1>2
    <2>4. told \in Views /\ NoView \in Views
        BY <2>3, ViewsAre, EmptyTyped DEF NoView
    <2> HIDE DEF told
    <2>5. Message(from, type, told) \in Messages /\ Message(from, "request", NoView) \in Messages
        BY <2>4, MessageTyped
    <2> QED BY <2>2, <2>5 DEF told
<1>5. inbox' \in Boxes /\ \A q \in Hosts \ world.here : inbox'[q] = << >>
    BY <1>1, <1>3, <1>4, SendingTyped
<1> QED BY <1>3, <1>5, InboxKeeps

(* A message that is lost *)
LEMMA LoseKeeps ==
    ASSUME IInv, NEW n \in Hosts, Lose(n)
    PROVE  IInv'
<1>1. inbox \in Boxes /\ \A q \in Hosts \ world.here : inbox[q] = << >>
    BY Knowns
<1>2. inbox[n] # << >> /\ inbox' = [inbox EXCEPT ![n] = Tail(@)] /\ UNCHANGED <<world, view>>
    BY DEF Lose
<1>3. n \in world.here
    BY <1>2, RunsHere
<1>4. inbox' \in Boxes
    BY <1>1, <1>2, TakingTyped
<1>5. \A q \in Hosts \ world.here : inbox'[q] = << >>
    BY <1>1, <1>2, <1>3 DEF Boxes
<1> QED BY <1>2, <1>4, <1>5, InboxKeeps

(* Messages that the listener left *)
LEMMA CloseListenerKeeps ==
    ASSUME IInv, NEW n \in Hosts, CloseListener(n)
    PROVE  IInv'
<1>1. inbox \in Boxes /\ \A q \in Hosts \ world.here : inbox[q] = << >>
    BY Knowns
<1>2. n \in world.here /\ UNCHANGED <<world, view>>
    BY DEF CloseListener
<1>3. PICK taken \in Prefixes(inbox[n]) : inbox' = [inbox EXCEPT ![n] = taken]
    BY DEF CloseListener
<1>4. inbox' \in Boxes
    BY <1>1, <1>3, CuttingTyped
<1>5. \A q \in Hosts \ world.here : inbox'[q] = << >>
    BY <1>1, <1>2, <1>3 DEF Boxes
<1> QED BY <1>2, <1>4, <1>5, InboxKeeps

(* A service that shuts down forgets its view. *)
LEMMA ShutdownKeeps ==
    ASSUME IInv, NEW n \in Hosts, Shutdown(n)
    PROVE  IInv'
<1>1. /\ world \in Worlds /\ inbox \in Boxes
      /\ \A q \in Hosts \ world.here : inbox[q] = << >>
    BY Knowns
<1>2. UNCHANGED <<world, inbox>> /\ view' = [view EXCEPT ![n] = << >>]
    BY DEF Shutdown
<1>3. world.viewSize \in Nat
    BY <1>1, WorldTyped
<1>4. << >> \in Views /\ DOMAIN << >> = {} /\ Size(<< >>) <= world.viewSize
    BY <1>3, EmptyTyped DEF Size
<1>5. n \notin DOMAIN << >> /\ inbox' \in Boxes /\ \A q \in Hosts \ world.here : inbox'[q] = << >>
    BY <1>1, <1>2, <1>4
<1> QED BY <1>2, <1>4, <1>5, ViewKeeps

(* No step loses the invariant. *)
LEMMA StepInvariant == IInv /\ [Next]_vars => IInv'
<1> SUFFICES ASSUME IInv, [Next]_vars PROVE IInv'
    OBVIOUS
<1>0. inbox \in Boxes /\ \A q \in Hosts \ world.here : inbox[q] = << >>
    BY Knowns
<1>1. ASSUME UNCHANGED <<world, view, inbox>> PROVE IInv'
    BY <1>0, <1>1, InboxKeeps
<1>2. ASSUME NEW n \in Hosts, LeaveSampling(n) \/ GetPeer(n) PROVE IInv'
    BY <1>1, <1>2 DEF LeaveSampling, GetPeer
<1>3. CASE UNCHANGED vars
    BY <1>1, <1>3 DEF vars
<1>4. CASE Next
    BY <1>2, <1>4, ArriveKeeps, SampleKeeps, ReceiveKeeps, LoseKeeps, CloseListenerKeeps,
       ShutdownKeeps DEF Next
<1> QED BY <1>3, <1>4

(* The invariant holds whatever happens. *)
LEMMA InvariantHolds == Spec => []IInv
<1>1. Init => IInv
    BY InitInvariant
<1>2. IInv /\ [Next]_vars => IInv'
    BY StepInvariant
<1> QED BY <1>1, <1>2, PTL DEF Spec

-----------------------------------------------------------------------------
(* The theorems *)

(* A view never names its own node nor outgrows its size, and what messages
   say is a view: for any number of nodes, any sizes and any contacts. *)
THEOREM ViewsSoundCorrect == Spec => []ViewsSound
<1>1. IInv => ViewsSound
    BY DEF IInv
<1> QED BY <1>1, InvariantHolds, PTL

(* Each node here is in one of the phases of its life. *)
PhasesTyped == phase \in [Hosts -> {"running", "closed", "stopped"}]

(* Only closing the listener and the shutdown change a phase. *)
LEMMA PhasesHold == Spec => []PhasesTyped
<1>1. Init => PhasesTyped
    BY DEF Init, PhasesTyped
<1>2. PhasesTyped /\ [Next]_vars => PhasesTyped'
    BY DEF PhasesTyped, Next, vars, Arrive, Sample, LeaveSampling, Receive, GetPeer, Lose,
           CloseListener, Shutdown
<1> QED BY <1>1, <1>2, PTL DEF Spec

(* A step in which a node forgets peers, other than its shutdown, is its
   receiver's select. *)
LEMMA ForgettingIsSelecting ==
    ASSUME IInv, PhasesTyped, Next, NEW n \in Hosts,
           DOMAIN view[n] \ DOMAIN view'[n] # {}, phase'[n] = phase[n]
    PROVE  /\ inbox[n] # << >>
           /\ \E v \in Selected(n, view[n], Head(inbox[n]).view) :
                 view' = [view EXCEPT ![n] = Aged(v)]
<1>1. world \in Worlds /\ view \in [Hosts -> Views] /\ view[n] \in Views
    BY Knowns
<1>2. ASSUME NEW k \in Hosts, view' = [view EXCEPT ![k] = Aged(view[k])] PROVE FALSE
    <2>1. view'[n] = view[n] \/ view'[n] = Aged(view[n])
        BY <1>1, <1>2
    <2>2. DOMAIN view'[n] = DOMAIN view[n]
        BY <1>1, <2>1, AgedTyped
    <2> QED BY <2>2
<1>3. ASSUME UNCHANGED view PROVE FALSE
    BY <1>3
<1>4. ASSUME NEW k \in Hosts, Shutdown(k) PROVE FALSE
    <2>1. CASE k = n
        BY <1>4, <2>1 DEF Shutdown, PhasesTyped
    <2>2. CASE k # n
        <3>1. view'[n] = view[n]
            BY <1>1, <1>4, <2>2 DEF Shutdown
        <3> QED BY <3>1
    <2> QED BY <2>1, <2>2
<1>5. ASSUME NEW k \in Hosts, Receive(k)
      PROVE  k = n /\ inbox[n] # << >>
             /\ \E v \in Selected(n, view[n], Head(inbox[n]).view) :
                   view' = [view EXCEPT ![n] = Aged(v)]
    <2>1. inbox[k] # << >>
          /\ \/ view' = [view EXCEPT ![k] = Aged(view[k])]
             \/ \E v \in Selected(k, view[k], Head(inbox[k]).view) :
                   view' = [view EXCEPT ![k] = Aged(v)]
        BY <1>5 DEF Receive
    <2>2. PICK v \in Selected(k, view[k], Head(inbox[k]).view) : view' = [view EXCEPT ![k] = Aged(v)]
        BY <1>2, <2>1
    <2>3. k = n
        <3>1. SUFFICES ASSUME k # n PROVE FALSE
            OBVIOUS
        <3>2. view'[n] = view[n]
            BY <1>1, <2>2, <3>1
        <3> QED BY <3>2
    <2> QED BY <2>1, <2>2, <2>3
<1>6. PICK k \in Hosts :
          \/ Shutdown(k) \/ Receive(k) \/ view' = [view EXCEPT ![k] = Aged(view[k])]
          \/ UNCHANGED view
    BY DEF Next, Arrive, Sample, LeaveSampling, GetPeer, Lose, CloseListener
<1> QED BY <1>2, <1>3, <1>4, <1>5, <1>6

(* A step that forgets leaves a view of the full size, and if it heals then
   one of those it forgets is as old as all it keeps. *)
LEMMA ForgettingStep ==
    ASSUME IInv, PhasesTyped, [Next]_vars, NEW n \in Hosts,
           DOMAIN view[n] \ DOMAIN view'[n] # {}, phase'[n] = phase[n]
    PROVE  LET m == Merged(n, view[n], Head(inbox[n]).view) IN
           /\ Size(view'[n]) = world.viewSize
           /\ world.healing > 0 =>
                 \E gone \in DOMAIN m \ DOMAIN view'[n] :
                     \A kept \in DOMAIN view'[n] : m[kept] <= m[gone]
<1> DEFINE buffer == Head(inbox[n]).view
           m == Merged(n, view[n], buffer)
<1>1. world \in Worlds /\ view \in [Hosts -> Views] /\ view[n] \in Views /\ inbox \in Boxes
    BY Knowns
<1>2. Next
    BY DEF vars
<1>3. /\ inbox[n] # << >>
      /\ \E v \in Selected(n, view[n], buffer) : view' = [view EXCEPT ![n] = Aged(v)]
    BY <1>2, ForgettingIsSelecting
<1>4. PICK v \in Selected(n, view[n], buffer) : view' = [view EXCEPT ![n] = Aged(v)]
    BY <1>3
<1>5. buffer \in Views
    BY <1>1, <1>3, TakingTyped DEF Messages
<1> HIDE DEF buffer
<1>6. /\ v \in Views
      /\ Over(m) = 0 => DOMAIN v = DOMAIN m
      /\ Over(m) > 0 => Size(v) = world.viewSize
      /\ Over(m) > 0 /\ world.healing > 0 =>
            \E gone \in DOMAIN m \ DOMAIN v : \A kept \in DOMAIN v : m[kept] <= m[gone]
    BY <1>1, <1>5, SelectedSize
<1>7. view'[n] = Aged(v)
    BY <1>1, <1>4
<1>8. DOMAIN view'[n] = DOMAIN v
    BY <1>1, <1>6, <1>7, AgedTyped
<1>9. DOMAIN view[n] \subseteq DOMAIN m /\ m \in Views
    <2>1. m \in Views /\ DOMAIN m = DOMAIN view[n] \cup (DOMAIN buffer \ {n})
        BY <1>1, <1>5, MergedTyped
    <2> QED BY <2>1
<1>10. Over(m) # 0
    BY <1>6, <1>8, <1>9
<1>11. Over(m) \in Nat
    <2>1. Size(m) \in Nat /\ world.viewSize \in Nat
        BY <1>1, <1>9, SizeTyped, WorldTyped
    <2> QED BY <2>1 DEF Over
<1>12. Size(view'[n]) = Size(v)
    BY <1>8 DEF Size
<1> HIDE DEF m
<1>13. Over(m) > 0
    BY <1>10, <1>11
<1> QED BY <1>6, <1>8, <1>12, <1>13 DEF m, buffer

(* A node forgets only what its view has no room for, the oldest first if it
   heals: for any sizes, ages and messages. *)
THEOREM HealingForgetsCorrect == Spec => HealingForgets
<1>1. IInv /\ PhasesTyped /\ [Next]_vars =>
        \A n \in Hosts :
         DOMAIN view[n] \ DOMAIN view'[n] # {} /\ phase'[n] = phase[n] =>
            LET m == Merged(n, view[n], Head(inbox[n]).view) IN
            /\ Size(view'[n]) = world.viewSize
            /\ world.healing > 0 =>
                  \E gone \in DOMAIN m \ DOMAIN view'[n] :
                      \A kept \in DOMAIN view'[n] : m[kept] <= m[gone]
    BY ForgettingStep
<1> QED BY <1>1, InvariantHolds, PhasesHold, PTL DEF Spec, HealingForgets
-----------------------------------------------------------------------------
(* The queue *)

(* A set of numbers has a least one. *)
LEMMA LeastNat ==
    ASSUME NEW T \in SUBSET Nat, T # {}
    PROVE  \E x \in T : \A y \in T : x <= y
<1> DEFINE R == OpToRel(<, Nat)
<1>1. IsWellFoundedOn(R, Nat)
    BY NatLessThanWellFounded
<1>2. PICK x \in T : \A y \in T : ~ (<<y, x>> \in R)
    <2> HIDE DEF R
    <2> QED BY <1>1, WFMin
<1>3. \A y \in T : <<y, x>> \in Nat \X Nat /\ ~(y < x)
    BY <1>2 DEF OpToRel
<1>4. ASSUME NEW y \in T PROVE x <= y
    <2>1. x \in Nat /\ y \in Nat /\ ~(y < x)
        BY <1>3
    <2> HIDE DEF R
    <2> QED BY <2>1
<1> QED BY <1>4

(* What Kept computes for the first k places of q *)
KeepsTo(f, q, v, k) ==
    f = [i \in 0..k |->
            IF i = 0 THEN << >>
            ELSE IF q[i] \in DOMAIN v THEN Append(f[i - 1], q[i]) ELSE f[i - 1]]

(* The recursive function that Kept names is there. *)
LEMMA KeptExists ==
    ASSUME NEW q, Len(q) \in Nat, NEW v
    PROVE  \E f : KeepsTo(f, q, v, Len(q))
<1> DEFINE Bad == {k \in 0..Len(q) : ~\E f : KeepsTo(f, q, v, k)}
<1>1. SUFFICES ASSUME Bad # {} PROVE FALSE
    OBVIOUS
<1>2. PICK k \in Bad : \A m \in Bad : k <= m
    <2>1. Bad \in SUBSET Nat
        OBVIOUS
    <2> HIDE DEF Bad
    <2> QED BY <1>1, <2>1, LeastNat
<1>3. k \in 0..Len(q) /\ ~\E f : KeepsTo(f, q, v, k)
    OBVIOUS
<1>4. k # 0
    <2> SUFFICES ASSUME k = 0 PROVE \E f : KeepsTo(f, q, v, k)
        BY <1>3
    <2> DEFINE f == [i \in 0..0 |-> << >>]
    <2>1. KeepsTo(f, q, v, 0)
        BY DEF KeepsTo
    <2> QED BY <2>1
<1>5. k - 1 \in 0..Len(q) /\ k - 1 \notin Bad
    <2>1. k \in Nat /\ k - 1 \in 0..Len(q) /\ ~(k <= k - 1)
        BY <1>3, <1>4
    <2> HIDE DEF Bad
    <2> QED BY <1>2, <2>1
<1>6. PICK f : KeepsTo(f, q, v, k - 1)
    BY <1>5
<1> DEFINE last == IF q[k] \in DOMAIN v THEN Append(f[k - 1], q[k]) ELSE f[k - 1]
           g == [i \in 0..k |-> IF i = k THEN last ELSE f[i]]
<1>7. \A i \in 0..(k - 1) : f[i] = IF i = 0 THEN << >>
                                   ELSE IF q[i] \in DOMAIN v THEN Append(f[i - 1], q[i]) ELSE f[i - 1]
    BY <1>3, <1>6 DEF KeepsTo
<1>8. ASSUME NEW i \in 0..k
      PROVE  g[i] = IF i = 0 THEN << >>
                    ELSE IF q[i] \in DOMAIN v THEN Append(g[i - 1], q[i]) ELSE g[i - 1]
    <2>1. i \in Int /\ k \in Int /\ 0 <= i /\ i <= k
        BY <1>3
    <2>2. i # 0 => i - 1 \in 0..k /\ i - 1 # k
        BY <2>1
    <2>3. i # 0 => g[i - 1] = f[i - 1]
        BY <2>2
    <2>4. CASE i = k
        BY <1>4, <2>3, <2>4
    <2>5. CASE i # k
        <3>1. i \in 0..(k - 1) /\ g[i] = f[i]
            BY <2>1, <2>5
        <3> QED BY <1>7, <2>3, <3>1
    <2> QED BY <2>4, <2>5
<1>9. g = [i \in 0..k |-> g[i]]
    OBVIOUS
<1> HIDE DEF g
<1>10. KeepsTo(g, q, v, k)
    BY <1>8, <1>9 DEF KeepsTo
<1> QED BY <1>3, <1>10

(* One more peer at the end, which was not there *)
LEMMA AppendQueued ==
    ASSUME NEW s \in Seq(Peers), IsInjective(s), NEW p \in Peers, p \notin Range(s)
    PROVE  /\ Append(s, p) \in Seq(Peers) /\ IsInjective(Append(s, p))
           /\ Range(Append(s, p)) = Range(s) \cup {p}
<1> DEFINE a == Append(s, p)
<1>1. /\ a \in Seq(Peers) /\ Len(a) = Len(s) + 1 /\ Len(s) \in Nat
      /\ \A i \in 1..Len(s) : a[i] = s[i]
      /\ a[Len(s) + 1] = p
    BY AppendProperties, LenProperties
<1>2. DOMAIN s = 1..Len(s) /\ DOMAIN a = 1..(Len(s) + 1)
    BY <1>1, LenProperties
<1> HIDE DEF a
<1>3. \A i \in DOMAIN a : i \in DOMAIN s \/ i = Len(s) + 1
    BY <1>1, <1>2
<1>4. \A i \in DOMAIN s : a[i] = s[i] /\ s[i] # p /\ i \in DOMAIN a
    BY <1>1, <1>2 DEF Range
<1>5. IsInjective(a)
    BY <1>1, <1>3, <1>4 DEF IsInjective
<1>6. Range(a) = Range(s) \cup {p}
    BY <1>1, <1>2, <1>3, <1>4 DEF Range
<1> QED BY <1>1, <1>5, <1>6 DEF a

(* Kept keeps the order, and so each peer once. *)
LEMMA KeptTyped ==
    ASSUME NEW q \in Seq(Peers), IsInjective(q), NEW v
    PROVE  /\ Kept(q, v) \in Seq(Peers) /\ IsInjective(Kept(q, v))
           /\ Range(Kept(q, v)) = Range(q) \cap DOMAIN v
<1> DEFINE f == CHOOSE kept : kept = [i \in 0..Len(q) |->
                       IF i = 0 THEN << >>
                       ELSE IF q[i] \in DOMAIN v THEN Append(kept[i - 1], q[i]) ELSE kept[i - 1]]
           Upto(k) == {q[i] : i \in 1..k}
           Ok(k) == /\ f[k] \in Seq(Peers) /\ IsInjective(f[k])
                    /\ Range(f[k]) = Upto(k) \cap DOMAIN v
           Bad == {k \in 0..Len(q) : ~Ok(k)}
<1>1. Len(q) \in Nat /\ DOMAIN q = 1..Len(q) /\ \A i \in 1..Len(q) : q[i] \in Peers
    BY LenProperties, ElementOfSeq
<1>2. KeepsTo(f, q, v, Len(q)) /\ Kept(q, v) = f[Len(q)]
    <2>1. \E kept : kept = [i \in 0..Len(q) |->
              IF i = 0 THEN << >>
              ELSE IF q[i] \in DOMAIN v THEN Append(kept[i - 1], q[i]) ELSE kept[i - 1]]
        BY <1>1, KeptExists DEF KeepsTo
    <2>2. KeepsTo(f, q, v, Len(q))
        BY <2>1 DEF KeepsTo
    <2>3. Kept(q, v) = f[Len(q)]
        BY DEF Kept
    <2> QED BY <2>2, <2>3
<1> HIDE DEF f
<1>3. \A i \in 0..Len(q) : f[i] = IF i = 0 THEN << >>
                                  ELSE IF q[i] \in DOMAIN v THEN Append(f[i - 1], q[i]) ELSE f[i - 1]
    BY <1>2 DEF KeepsTo
<1>4. Ok(0)
    <2>1. f[0] = << >> /\ Upto(0) = {}
        BY <1>1, <1>3
    <2>2. << >> \in Seq(Peers) /\ DOMAIN << >> = {}
        BY EmptySeq
    <2> QED BY <2>1, <2>2 DEF IsInjective, Range
<1>5. ASSUME NEW k \in 1..Len(q), Ok(k - 1) PROVE Ok(k)
    <2>1. k \in 0..Len(q) /\ k # 0 /\ k \in 1..Len(q) /\ q[k] \in Peers
        BY <1>1
    <2>2. Upto(k) = Upto(k - 1) \cup {q[k]}
        <3>1. \A i \in 1..k : i \in 1..(k - 1) \/ i = k
            BY <1>1
        <3>2. \A i \in 1..(k - 1) : i \in 1..k
            BY <1>1
        <3>3. k \in 1..k
            BY <1>1
        <3> QED BY <3>1, <3>2, <3>3
    <2>3. q[k] \notin Upto(k - 1)
        <3>1. \A i \in 1..(k - 1) : i \in DOMAIN q /\ k \in DOMAIN q /\ i # k
            BY <1>1
        <3> QED BY <3>1 DEF IsInjective
    <2>4. f[k - 1] \in Seq(Peers) /\ IsInjective(f[k - 1]) /\ Range(f[k - 1]) = Upto(k - 1) \cap DOMAIN v
        BY <1>5
    <2> HIDE DEF Upto
    <2>5. CASE q[k] \in DOMAIN v
        <3>1. f[k] = Append(f[k - 1], q[k])
            BY <1>3, <2>1, <2>5
        <3>2. q[k] \notin Range(f[k - 1])
            BY <2>3, <2>4
        <3>3. /\ f[k] \in Seq(Peers) /\ IsInjective(f[k])
              /\ Range(f[k]) = Range(f[k - 1]) \cup {q[k]}
            BY <2>1, <2>4, <3>1, <3>2, AppendQueued
        <3> QED BY <2>2, <2>4, <2>5, <3>3
    <2>6. CASE q[k] \notin DOMAIN v
        <3>1. f[k] = f[k - 1]
            BY <1>3, <2>1, <2>6
        <3> QED BY <2>2, <2>4, <2>6, <3>1
    <2> QED BY <2>5, <2>6
<1>6. Bad = {}
    <2> SUFFICES ASSUME Bad # {} PROVE FALSE
        OBVIOUS
    <2> HIDE DEF Ok
    <2>1. Bad \in SUBSET Nat
        OBVIOUS
    <2>2. PICK k \in Bad : \A m \in Bad : k <= m
        <3> HIDE DEF Bad
        <3> QED BY <2>1, LeastNat
    <2>3. k \in 0..Len(q) /\ ~Ok(k)
        OBVIOUS
    <2>4. k # 0
        BY <1>4, <2>3
    <2>5. k \in 1..Len(q) /\ k - 1 \in 0..Len(q) /\ k \in Nat /\ ~(k <= k - 1)
        BY <1>1, <2>3, <2>4
    <2>6. k - 1 \notin Bad
        <3> HIDE DEF Bad
        <3> QED BY <2>2, <2>5
    <2>7. Ok(k - 1)
        BY <2>5, <2>6
    <2> QED BY <1>5, <2>3, <2>5, <2>7
<1>7. Ok(Len(q))
    <2> HIDE DEF Ok
    <2> QED BY <1>1, <1>6
<1>8. Upto(Len(q)) = Range(q)
    BY <1>1 DEF Range
<1> QED BY <1>2, <1>7, <1>8

(* Two queues that share no peer, one behind the other *)
LEMMA ConcatQueued ==
    ASSUME NEW s \in Seq(Peers), NEW u \in Seq(Peers), IsInjective(s), IsInjective(u),
           Range(s) \cap Range(u) = {}
    PROVE  s \o u \in Seq(Peers) /\ IsInjective(s \o u) /\ Range(s \o u) = Range(s) \cup Range(u)
<1> DEFINE c == s \o u
<1>1. /\ c \in Seq(Peers) /\ Len(c) = Len(s) + Len(u) /\ Len(s) \in Nat /\ Len(u) \in Nat
      /\ \A i \in 1..(Len(s) + Len(u)) : c[i] = IF i <= Len(s) THEN s[i] ELSE u[i - Len(s)]
    BY ConcatProperties, LenProperties
<1>2. DOMAIN s = 1..Len(s) /\ DOMAIN u = 1..Len(u) /\ DOMAIN c = 1..(Len(s) + Len(u))
    BY <1>1, LenProperties
<1> HIDE DEF c
<1>3. \A i \in DOMAIN c : \/ i \in DOMAIN s /\ c[i] = s[i] /\ c[i] \in Range(s)
                          \/ i - Len(s) \in DOMAIN u /\ c[i] = u[i - Len(s)] /\ c[i] \in Range(u)
    BY <1>1, <1>2 DEF Range
<1>4. ASSUME NEW i \in DOMAIN c, NEW j \in DOMAIN c, c[i] = c[j] PROVE i = j
    <2>1. i \in Int /\ j \in Int
        BY <1>1, <1>2
    <2>2. CASE c[i] \in Range(s)
        <3>1. c[i] \notin Range(u) /\ c[j] \notin Range(u)
            BY <1>4, <2>2
        <3>2. i \in DOMAIN s /\ c[i] = s[i] /\ j \in DOMAIN s /\ c[j] = s[j]
            BY <1>3, <3>1
        <3> QED BY <1>4, <3>2 DEF IsInjective
    <2>3. CASE c[i] \notin Range(s)
        <3>1. c[j] \notin Range(s)
            BY <1>4, <2>3
        <3>2. /\ i - Len(s) \in DOMAIN u /\ c[i] = u[i - Len(s)]
              /\ j - Len(s) \in DOMAIN u /\ c[j] = u[j - Len(s)]
            BY <1>3, <2>3, <3>1
        <3>3. i - Len(s) = j - Len(s)
            BY <1>4, <3>2 DEF IsInjective
        <3> QED BY <1>1, <2>1, <3>3
    <2> QED BY <2>2, <2>3
<1>5. IsInjective(c)
    BY <1>4 DEF IsInjective
<1>6. Range(c) = Range(s) \cup Range(u)
    BY RangeConcatenation DEF c
<1> QED BY <1>1, <1>5, <1>6 DEF c

(* The peers of a view are in the queue after it was updated, each once. *)
LEMMA QueuesTyped ==
    ASSUME NEW q \in Seq(Peers), IsInjective(q), NEW v, DOMAIN v \in SUBSET Peers, NEW s \in Queues(q, v)
    PROVE  s \in Seq(Peers) /\ IsInjective(s) /\ Range(s) \subseteq DOMAIN v
<1>1. PICK new \in SetToSeqs(DOMAIN v \ Range(q)) : s = Kept(q, v) \o new
    BY DEF Queues
<1>2. /\ Kept(q, v) \in Seq(Peers) /\ IsInjective(Kept(q, v))
      /\ Range(Kept(q, v)) = Range(q) \cap DOMAIN v
    BY KeptTyped
<1>3. IsFiniteSet(DOMAIN v \ Range(q))
    BY PeersAssumption, FS_Subset
<1> DEFINE c == Cardinality(DOMAIN v \ Range(q))
<1>4. c \in Nat
    BY <1>3, FS_CardinalityType
<1>5. new \in [1..c -> DOMAIN v \ Range(q)] /\ \A i, j \in 1..c : i # j => new[i] # new[j]
    BY DEF SetToSeqs
<1> HIDE DEF c
<1>6. new \in [1..c -> Peers]
    BY <1>5
<1>7. new \in Seq(Peers)
    BY <1>4, <1>6, IsASeq
<1>8. IsInjective(new) /\ Range(new) \subseteq DOMAIN v \ Range(q)
    BY <1>5 DEF IsInjective, Range
<1> QED BY <1>1, <1>2, <1>7, <1>8, ConcatQueued

(* The queues name peers of the views, each once. *)
QueuesSound ==
    /\ queue \in [Hosts -> Seq(Peers)]
    /\ \A n \in Hosts : Range(queue[n]) \subseteq DOMAIN view[n] /\ IsInjective(queue[n])

(* A step that gives node n a view and a queue of its peers *)
LEMMA QueueKeeps ==
    ASSUME IInv, QueuesSound, NEW n \in Hosts, NEW v, NEW q \in Seq(Peers),
           view' = [view EXCEPT ![n] = v], queue' = [queue EXCEPT ![n] = q],
           Range(q) \subseteq DOMAIN v, IsInjective(q)
    PROVE  QueuesSound'
<1>1. view \in [Hosts -> Views]
    BY Knowns
<1>2. /\ queue' \in [Hosts -> Seq(Peers)] /\ view'[n] = v /\ queue'[n] = q
      /\ \A m \in Hosts \ {n} : view'[m] = view[m] /\ queue'[m] = queue[m]
    BY <1>1 DEF QueuesSound
<1> QED BY <1>2 DEF QueuesSound

LEMMA QueuesStep == IInv /\ QueuesSound /\ [Next]_vars => QueuesSound'
<1> SUFFICES ASSUME IInv, QueuesSound, [Next]_vars PROVE QueuesSound'
    OBVIOUS
<1>0. /\ world \in Worlds /\ view \in [Hosts -> Views] /\ inbox \in Boxes
      /\ queue \in [Hosts -> Seq(Peers)]
      /\ \A n \in Hosts : IsInjective(queue[n]) /\ Range(queue[n]) \subseteq DOMAIN view[n]
    BY Knowns DEF QueuesSound
<1>1. ASSUME UNCHANGED <<view, queue>> PROVE QueuesSound'
    BY <1>1 DEF QueuesSound
<1>2. ASSUME NEW n \in Hosts, view' = [view EXCEPT ![n] = Aged(view[n])], UNCHANGED queue
      PROVE  QueuesSound'
    <2>1. DOMAIN Aged(view[n]) = DOMAIN view[n]
        BY <1>0, AgedTyped
    <2>2. queue' = [queue EXCEPT ![n] = queue[n]] /\ queue[n] \in Seq(Peers)
        BY <1>0, <1>2
    <2> QED BY <1>0, <1>2, <2>1, <2>2, QueueKeeps
<1>3. ASSUME NEW n \in Hosts, Receive(n) PROVE QueuesSound'
    <2> DEFINE m == Head(inbox[n])
    <2>1. inbox[n] # << >>
          /\ \/ view' = [view EXCEPT ![n] = Aged(view[n])] /\ UNCHANGED queue
             \/ \E v \in Selected(n, view[n], m.view) : \E q \in Queues(queue[n], v) :
                   view' = [view EXCEPT ![n] = Aged(v)] /\ queue' = [queue EXCEPT ![n] = q]
        BY <1>3 DEF Receive
    <2>2. m.view \in Views /\ view[n] \in Views
        BY <1>0, <2>1, TakingTyped DEF Messages
    <2> HIDE DEF m
    <2>3. ASSUME NEW v \in Selected(n, view[n], m.view), NEW q \in Queues(queue[n], v),
                 view' = [view EXCEPT ![n] = Aged(v)], queue' = [queue EXCEPT ![n] = q]
          PROVE  QueuesSound'
        <3>1. v \in Views
            BY <1>0, <2>2, SelectedSize
        <3>2. DOMAIN Aged(v) = DOMAIN v /\ DOMAIN v \in SUBSET Peers
            BY <1>0, <3>1, AgedTyped, ViewsAre
        <3>3. queue[n] \in Seq(Peers) /\ IsInjective(queue[n])
            BY <1>0
        <3>4. q \in Seq(Peers) /\ IsInjective(q) /\ Range(q) \subseteq DOMAIN v
            BY <3>2, <3>3, QueuesTyped
        <3> QED BY <2>3, <3>2, <3>4, QueueKeeps
    <2> QED BY <1>2, <2>1, <2>3
<1>4. ASSUME NEW n \in Hosts, GetPeer(n) PROVE QueuesSound'
    <2>1. queue[n] # << >> /\ queue' = [queue EXCEPT ![n] = Tail(queue[n])] /\ UNCHANGED view
        BY <1>4 DEF GetPeer
    <2>2. /\ Tail(queue[n]) \in Seq(Peers) /\ Len(Tail(queue[n])) = Len(queue[n]) - 1
          /\ \A i \in 1..Len(Tail(queue[n])) : Tail(queue[n])[i] = queue[n][i + 1]
        BY <1>0, <2>1, HeadTailProperties
    <2>3. Len(queue[n]) \in Nat /\ DOMAIN queue[n] = 1..Len(queue[n])
          /\ DOMAIN Tail(queue[n]) = 1..Len(Tail(queue[n]))
        BY <1>0, <2>2, LenProperties
    <2> DEFINE rest == Tail(queue[n])
    <2>4. \A i \in DOMAIN rest : i \in Int /\ i + 1 \in DOMAIN queue[n] /\ rest[i] = queue[n][i + 1]
        BY <2>2, <2>3
    <2> HIDE DEF rest
    <2>5. Range(rest) \subseteq Range(queue[n])
        BY <2>4 DEF Range
    <2>6. IsInjective(rest)
        <3> SUFFICES ASSUME NEW i \in DOMAIN rest, NEW j \in DOMAIN rest, rest[i] = rest[j] PROVE i = j
            BY DEF IsInjective
        <3>1. i + 1 = j + 1
            BY <1>0, <2>4 DEF IsInjective
        <3> QED BY <2>4, <3>1
    <2>7. view' = [view EXCEPT ![n] = view[n]]
        BY <1>0, <2>1
    <2>8. queue' = [queue EXCEPT ![n] = rest] /\ rest \in Seq(Peers) /\ Range(rest) \subseteq DOMAIN view[n]
        BY <1>0, <2>1, <2>2, <2>5 DEF rest
    <2> QED BY <2>6, <2>7, <2>8, QueueKeeps
<1>5. ASSUME NEW n \in Hosts, Shutdown(n) PROVE QueuesSound'
    <2>1. view' = [view EXCEPT ![n] = << >>] /\ queue' = [queue EXCEPT ![n] = << >>]
        BY <1>5 DEF Shutdown
    <2>2. << >> \in Seq(Peers) /\ Range(<< >>) = {} /\ IsInjective(<< >>)
        BY EmptySeq DEF Range, IsInjective
    <2> QED BY <2>1, <2>2, QueueKeeps
<1>6. CASE UNCHANGED vars
    BY <1>1, <1>6 DEF vars
<1>7. CASE Next
    <2>1. ASSUME NEW n \in Hosts, LeaveSampling(n) \/ Lose(n) \/ CloseListener(n) PROVE QueuesSound'
        BY <1>1, <2>1 DEF LeaveSampling, Lose, CloseListener
    <2>2. ASSUME NEW n \in Hosts, NEW p \in Peers, Arrive(n, p) PROVE QueuesSound'
        BY <1>1, <2>2 DEF Arrive
    <2>3. ASSUME NEW n \in Hosts, NEW p \in Peers, NEW head, Sample(n, p, head) PROVE QueuesSound'
        BY <1>2, <2>3 DEF Sample
    <2> QED BY <1>3, <1>4, <1>5, <1>7, <2>1, <2>2, <2>3 DEF Next
<1> QED BY <1>6, <1>7

(* What is left of the types *)
FlagsTyped == sampling \in [Hosts -> BOOLEAN] /\ losses \in 0..MaxLosses

LEMMA FlagsHold == Spec => []FlagsTyped
<1>1. Init => FlagsTyped
    BY BoundAssumption DEF Init, FlagsTyped
<1>2. ASSUME FlagsTyped, [Next]_vars PROVE FlagsTyped'
    <2>1. ASSUME UNCHANGED <<sampling, losses>> PROVE FlagsTyped'
        BY <1>2, <2>1 DEF FlagsTyped
    <2>2. ASSUME NEW n \in Hosts, LeaveSampling(n) PROVE FlagsTyped'
        BY <1>2, <2>2 DEF LeaveSampling, FlagsTyped
    <2>3. ASSUME NEW n \in Hosts, NEW p \in Peers, NEW head, Sample(n, p, head) PROVE FlagsTyped'
        BY <1>2, <2>3 DEF Sample, FlagsTyped
    <2>4. ASSUME NEW n \in Hosts, Lose(n) PROVE FlagsTyped'
        BY <1>2, <2>4, BoundAssumption DEF Lose, FlagsTyped
    <2>5. ASSUME NEW n \in Hosts, Receive(n) \/ GetPeer(n) \/ CloseListener(n) \/ Shutdown(n)
          PROVE  FlagsTyped'
        BY <2>1, <2>5 DEF Receive, GetPeer, CloseListener, Shutdown
    <2>6. ASSUME NEW n \in Hosts, NEW p \in Peers, Arrive(n, p) PROVE FlagsTyped'
        BY <2>1, <2>6 DEF Arrive
    <2> QED BY <1>2, <2>1, <2>2, <2>3, <2>4, <2>5, <2>6 DEF Next, vars
<1> QED BY <1>1, <1>2, PTL DEF Spec

LEMMA QueuesHold == Spec => []QueuesSound
<1>1. Init => QueuesSound
    <2> SUFFICES ASSUME Init PROVE QueuesSound
        OBVIOUS
    <2>1. queue = [n \in Hosts |-> << >>]
        BY DEF Init
    <2>2. << >> \in Seq(Peers) /\ Range(<< >>) = {} /\ IsInjective(<< >>)
        BY EmptySeq DEF Range, IsInjective
    <2> QED BY <2>1, <2>2 DEF QueuesSound
<1>2. IInv /\ QueuesSound /\ [Next]_vars => QueuesSound'
    BY QueuesStep
<1> QED BY <1>1, <1>2, InvariantHolds, PTL DEF Spec

(* The queue of peers for the application names peers of the view, each once,
   whatever joins and leaves the view meanwhile. *)
THEOREM TypeCorrect == Spec => []TypeOK
<1>1. IInv /\ QueuesSound /\ PhasesTyped /\ FlagsTyped => TypeOK
    BY DEF IInv, QueuesSound, PhasesTyped, FlagsTyped, TypeOK
<1> QED BY <1>1, InvariantHolds, QueuesHold, PhasesHold, FlagsHold, PTL
=============================================================================
