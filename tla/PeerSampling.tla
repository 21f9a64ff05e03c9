---------------------------- MODULE PeerSampling ----------------------------
(***************************************************************************)
(* The view that each PeerSamplingService keeps of the other nodes, and    *)
(* how nodes exchange views: a sampling thread that pushes to, or asks, a  *)
(* random peer, and a receiver thread that answers and merges.  Both hold  *)
(* the lock of the view for a whole step, sending included.                *)
(*                                                                         *)
(* A view is a function from its peers to their ages: shuffling it, and    *)
(* the HashSet that removes duplicates, leave its order to chance.  That   *)
(* is also why the swapping factor is not here: the peers remove_head      *)
(* takes from the front are any peers, as those remove_at_random takes.    *)
(***************************************************************************)
EXTENDS Integers, Sequences, SequencesExt, FiniteSets, FiniteSetsExt, Functions

CONSTANTS
    Peers,
    Hosts,          \* the peers that may run the service here
    Worlds,         \* the configurations explored, with the nodes that run the
                    \* service here and those elsewhere, known by their messages
    Asking,         \* the hosts whose application asks for peers
    Stoppable,      \* the nodes that may be shut down
    MaxWaiting,     \* bound: messages not yet handled when one is sent
    MaxLosses       \* bound: messages lost

(* head computes viewSize / 2 - 1 without a sign. *)
ASSUME WorldsAssumption ==
    \A w \in Worlds :
        /\ w.push \in BOOLEAN /\ w.pull \in BOOLEAN
        /\ w.maxAge \in Nat  \* where ages stop, 65535 in the program
        /\ w.viewSize \in Nat /\ w.viewSize >= 2 /\ w.healing \in Nat
        /\ w.here \subseteq Hosts /\ w.elsewhere \subseteq Peers \ w.here
        /\ w.contacts \in [w.here -> SUBSET Peers]
ASSUME PeersAssumption == IsFiniteSet(Peers) /\ Asking \subseteq Hosts /\ Hosts \subseteq Peers
ASSUME BoundAssumption == MaxLosses \in Nat

VARIABLES
    world,
    view,
    queue,      \* the peers get_peer hands out next
    inbox,      \* the messages the receiver has yet to handle
    phase,      \* "running", "closed" once the listener is gone, "stopped"
                \* once the service was shut down
    sampling,   \* whether the sampling thread is in its loop
    losses

vars == <<world, view, queue, inbox, phase, sampling, losses>>

-----------------------------------------------------------------------------
(* View *)

Size(v) == Cardinality(DOMAIN v)
Least(a, b) == IF a < b THEN a ELSE b

(* The k oldest of a view; those of one age in any order *)
Oldest(v, k) ==
    {old \in kSubset(k, DOMAIN v) : \A o \in old, q \in DOMAIN v \ old : v[q] <= v[o]}

(* permute, move_oldest_to_end, head: the oldest are told of only when the
   others are too few. *)
Heads(v) ==
    LET last == IF Size(v) > world.healing THEN Oldest(v, world.healing) ELSE {{}}
    IN {head \in kSubset(Least(world.viewSize \div 2 - 1, Size(v)), DOMAIN v) :
           \E old \in last : head \cap old = {} \/ DOMAIN v \ old \subseteq head}

(* build_buffer *)
Buffer(n, head) == [q \in head \cup {n} |-> IF q = n THEN 0 ELSE view[n][q]]

(* increase_age *)
Aged(v) == [q \in DOMAIN v |-> Least(v[q] + 1, world.maxAge)]

(* Mutant: a node learns of itself. *)
MergedWithSelf(n, v, buffer) ==
    [q \in DOMAIN v \cup DOMAIN buffer |->
        IF q \notin DOMAIN v THEN buffer[q]
        ELSE IF q \notin DOMAIN buffer THEN v[q] ELSE Least(v[q], buffer[q])]

(* A node's own address is left out, duplicates keep the youngest. *)
Merged(n, v, buffer) ==
    [q \in DOMAIN v \cup (DOMAIN buffer \ {n}) |->
        IF q \notin DOMAIN v THEN buffer[q]
        ELSE IF q \notin DOMAIN buffer THEN v[q] ELSE Least(v[q], buffer[q])]

Over(v) == IF Size(v) > world.viewSize THEN Size(v) - world.viewSize ELSE 0

(* Mutant: what the healing removed is not taken from what is too much. *)
SelectedTwice(n, v, buffer) ==
    LET m == Merged(n, v, buffer)
        healed == Least(world.healing, Over(m))
    IN UNION {{Restrict(m, DOMAIN m \ (old \cup any)) :
                  any \in kSubset(Over(m), DOMAIN m \ old)} : old \in Oldest(m, healed)}

(* select: of the peers that are too many, `healing` at most are the oldest
   and the rest any. *)
Selected(n, v, buffer) ==
    LET m == Merged(n, v, buffer)
        healed == Least(world.healing, Over(m))
    IN UNION {{Restrict(m, DOMAIN m \ (old \cup any)) :
                  any \in kSubset(Over(m) - healed, DOMAIN m \ old)} : old \in Oldest(m, healed)}

(* The queue without the peers that left the view *)
Kept(q, v) ==
    LET kept[i \in 0..Len(q)] ==
            IF i = 0 THEN << >>
            ELSE IF q[i] \in DOMAIN v THEN Append(kept[i - 1], q[i]) ELSE kept[i - 1]
    IN kept[Len(q)]

(* Mutant: new peers go first. *)
QueuesFront(q, v) == {new \o Kept(q, v) : new \in SetToSeqs(DOMAIN v \ Range(q))}

(* update_queue: what left the view leaves the queue; what is in the view,
   handed out before or not, joins it. *)
Queues(q, v) ==
    {Kept(q, v) \o new : new \in SetToSeqs(DOMAIN v \ Range(q))}

-----------------------------------------------------------------------------
NoView == << >>
Message(n, type, v) == [from |-> n, type |-> type, view |-> v]

Waiting == Cardinality(UNION {{n} \X DOMAIN inbox[n] : n \in Hosts})

(* network::send to a node that has no listener fails and is logged. *)
Sent(boxes, to, m) ==
    IF to \in world.here /\ phase[to] = "running" THEN [boxes EXCEPT ![to] = Append(@, m)]
    ELSE boxes

Init ==
    /\ world \in Worlds
    /\ view = [n \in Hosts |->
                  [q \in (IF n \in world.here THEN world.contacts[n] \ {n} ELSE {}) |-> 0]]
    /\ queue = [n \in Hosts |-> << >>]
    /\ inbox = [n \in Hosts |-> << >>]
    /\ phase = [n \in Hosts |-> "running"]
    /\ sampling = [n \in Hosts |-> n \in world.here]
    /\ losses = 0

(* A cycle of the sampling thread, which looks at the flag when it is over:
   one more may come after shutdown. *)
Sample(n, p, head) ==
    /\ sampling[n] /\ p \in DOMAIN view[n] /\ Waiting < MaxWaiting
    /\ head \in Heads(view[n])
    /\ inbox' = Sent(inbox, p, Message(n, "request",
                                       IF world.push THEN Buffer(n, head) ELSE NoView))
    /\ view' = [view EXCEPT ![n] = Aged(@)]
    /\ sampling' = [sampling EXCEPT ![n] = phase[n] # "stopped"]
    /\ UNCHANGED <<world, queue, phase, losses>>

(* A cycle that finds nobody *)
LeaveSampling(n) ==
    /\ sampling[n] /\ DOMAIN view[n] = {} /\ phase[n] = "stopped"
    /\ sampling' = [sampling EXCEPT ![n] = FALSE]
    /\ UNCHANGED <<world, view, queue, inbox, phase, losses>>

(* Mutant: the answer to a pull is sent by a node that pushes. *)
AnsweredIfPush(n, m) ==
    LET rest == [inbox EXCEPT ![n] = Tail(@)] IN
    IF m.type = "request" /\ world.push
    THEN {Sent(rest, m.from, Message(n, "response", Buffer(n, head))) : head \in Heads(view[n])}
    ELSE {rest}

(* The receiver answers a request with what it knew before it merges. *)
Answered(n, m) ==
    LET rest == [inbox EXCEPT ![n] = Tail(@)] IN
    IF m.type = "request" /\ world.pull
    THEN {Sent(rest, m.from, Message(n, "response", Buffer(n, head))) : head \in Heads(view[n])}
    ELSE {rest}

Receive(n) ==
    /\ inbox[n] # << >>
    /\ LET m == Head(inbox[n]) IN
       /\ inbox' \in Answered(n, m)
       /\ IF m.view = NoView
          THEN view' = [view EXCEPT ![n] = Aged(@)] /\ UNCHANGED queue
          ELSE \E v \in Selected(n, view[n], m.view) : \E q \in Queues(queue[n], v) :
                  /\ view' = [view EXCEPT ![n] = Aged(v)]
                  /\ queue' = [queue EXCEPT ![n] = q]
    /\ UNCHANGED <<world, phase, sampling, losses>>

(* get_peer; with an empty queue it gives any peer and changes nothing. *)
GetPeer(n) ==
    /\ n \in Asking /\ queue[n] # << >>
    /\ queue' = [queue EXCEPT ![n] = Tail(@)]
    /\ UNCHANGED <<world, view, inbox, phase, sampling, losses>>

(* A node elsewhere sends what such a node may: itself and a head. *)
Arrive(n, from) ==
    /\ n \in world.here /\ from \in world.elsewhere /\ phase[n] = "running"
    /\ Waiting < MaxWaiting
    /\ \E type \in {"request", "response"}, others \in SUBSET (Peers \ {from}) :
          /\ Cardinality(others) <= world.viewSize \div 2 - 1
          /\ \E age \in [others -> 0..world.maxAge] :
                \/ inbox' = Sent(inbox, n, Message(from, type,
                               [q \in others \cup {from} |-> IF q = from THEN 0 ELSE age[q]]))
                \/ inbox' = Sent(inbox, n, Message(from, "request", NoView))
    /\ UNCHANGED <<world, view, queue, phase, sampling, losses>>

Lose(n) ==
    /\ losses < MaxLosses /\ inbox[n] # << >>
    /\ losses' = losses + 1
    /\ inbox' = [inbox EXCEPT ![n] = Tail(@)]
    /\ UNCHANGED <<world, view, queue, phase, sampling>>

(* GossipService::shutdown ends the listener ... *)
CloseListener(n) ==
    /\ n \in Stoppable \cap world.here /\ phase[n] = "running"
    /\ phase' = [phase EXCEPT ![n] = "closed"]
    /\ \E taken \in Prefixes(inbox[n]) : inbox' = [inbox EXCEPT ![n] = taken]
    /\ UNCHANGED <<world, view, queue, sampling, losses>>

(* ... and then this service.  Its message to itself fails, so it does not wait
   for its threads: the receiver may fill the view again. *)
Shutdown(n) ==
    /\ phase[n] = "closed"
    /\ phase' = [phase EXCEPT ![n] = "stopped"]
    /\ view' = [view EXCEPT ![n] = << >>]
    /\ queue' = [queue EXCEPT ![n] = << >>]
    /\ UNCHANGED <<world, inbox, sampling, losses>>

Next ==
    \E n \in Hosts :
        \/ \E p \in Peers : Arrive(n, p) \/ \E head \in SUBSET DOMAIN view[n] : Sample(n, p, head)
        \/ LeaveSampling(n) \/ Receive(n) \/ GetPeer(n) \/ Lose(n)
        \/ CloseListener(n) \/ Shutdown(n)

Spec == Init /\ [][Next]_vars

(* The threads run, the application keeps asking, and chance leaves out no
   peer for ever. *)
FairSpec ==
    /\ Spec
    /\ \A n \in Hosts :
          /\ WF_vars(Receive(n)) /\ WF_vars(GetPeer(n))
          /\ \A p \in Hosts \ {n} :
                SF_vars(\E head \in SUBSET DOMAIN view[n] : Sample(n, p, head))

-----------------------------------------------------------------------------
(* Properties *)

Views == UNION {[known -> 0..world.maxAge] : known \in SUBSET Peers}
Messages == [from : Peers, type : {"request", "response"}, view : Views]

(* A view never names the node itself and never outgrows the larger of its
   size and the peers the node began with: whatever arrives, in whatever order,
   during a shutdown too. *)
ViewsSound ==
    /\ world \in Worlds
    /\ view \in [Hosts -> Views] /\ inbox \in [Hosts -> Seq(Messages)]
    /\ \A n \in Hosts :
          /\ n \notin DOMAIN view[n]
          /\ Size(view[n]) > world.viewSize => DOMAIN view[n] \subseteq world.contacts[n]

(* The queue names peers of the view, each once. *)
TypeOK ==
    /\ ViewsSound
    /\ \A n \in Hosts : Range(queue[n]) \subseteq DOMAIN view[n] /\ IsInjective(queue[n])
    /\ phase \in [Hosts -> {"running", "closed", "stopped"}]
    /\ sampling \in [Hosts -> BOOLEAN]
    /\ losses \in 0..MaxLosses

(* A node forgets only what its view has no room for, and if it heals at all
   then the oldest of what it knows and was told goes first: the steps of
   select that remove peers do not add up to more. *)
HealingForgets ==
    [][\A n \in Hosts :
         DOMAIN view[n] \ DOMAIN view'[n] # {} /\ phase'[n] = phase[n] =>
            LET m == Merged(n, view[n], Head(inbox[n]).view) IN
            /\ Size(view'[n]) = world.viewSize
            /\ world.healing > 0 =>
                  \E gone \in DOMAIN m \ DOMAIN view'[n] :
                      \A kept \in DOMAIN view'[n] : m[kept] <= m[gone]]_vars

(* A peer that is queued for the application does not stay there: it is handed
   out, or leaves the view, although messages go on adding peers. *)
QueuedIsHandedOut ==
    \A n \in Asking, p \in Peers :
        p \in Range(queue[n]) ~> p \notin Range(queue[n])

(* Where messages have room for everyone, the nodes come to know each other
   from the few they were told of at the start. *)
EveryoneKnown ==
    <>[](world.elsewhere = {} /\ world.viewSize \div 2 >= Cardinality(world.here)
           /\ (\A n \in world.here : phase[n] = "running")
         => \A n \in world.here : DOMAIN view[n] = world.here \ {n})
=============================================================================
