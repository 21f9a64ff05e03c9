------------------------------- MODULE Gossip -------------------------------
(***************************************************************************)
(* The dissemination of updates by GossipService: rounds that push headers *)
(* to a peer or ask it for its own, requests for the contents that are new,*)
(* delivery to the application, expiry, shutdown.                          *)
(*                                                                         *)
(* An update is its digest.  A node reads its messages from two channels,  *)
(* headers and contents, each by a thread of its own, which handles a      *)
(* message under the lock of `updates`, in one step.  Three threads of the *)
(* sender send, so messages are taken in any order; and one may be lost: a *)
(* failed send is only logged.                                             *)
(***************************************************************************)
EXTENDS Integers, Sequences, SequencesExt, FiniteSets, Functions

CONSTANTS
    Nodes, Updates,
    Configs,        \* the configurations explored; all nodes have the same
    Stoppable,      \* the nodes that may be shut down
    MaxRemoved,     \* max_expired_size and its margin: digests remembered
    Forget,         \* margin_size: the digests forgotten at a time
    MaxWaiting,     \* bound: messages between two nodes when a round begins
    MaxSubmits,     \* bound: calls of submit
    MaxLosses       \* bound: messages lost

Expiries == {"none", "duration", "pushes", "recent"}

ASSUME ConfigsAssumption ==
    Configs \subseteq [push : BOOLEAN, pull : BOOLEAN, expiry : Expiries, limit : Nat]
ASSUME UpdatesAssumption == IsFiniteSet(Updates)
ASSUME LossesAssumption == MaxLosses \in Nat
ASSUME RemovedAssumption == Forget \in Nat \ {0} /\ MaxRemoved \in Nat /\ Forget <= MaxRemoved + 1

VARIABLES
    config,
    active,     \* active_updates of each node, oldest first, with the pushes left
    removed,    \* removed_updates
    headers,    \* the header messages each node has yet to handle
    contents,   \* the content messages
    phase,      \* "running", "stopping" once shutdown was asked for, "closed"
                \* once the listener is gone, "stopped"
    gossiping,  \* whether the gossip thread is in its loop
    losses,
    submitted,  \* history: the updates each node submitted
    delivered,  \* history: the calls of on_update, 2 stands for more
    forgotten   \* history: the updates that left removed_updates

service == <<active, removed>>
channels == <<headers, contents>>
history == <<submitted, delivered, forgotten>>
vars == <<config, service, channels, phase, gossiping, losses, history>>

-----------------------------------------------------------------------------
(* UpdateDecorator *)

Digests(a) == {a[i].digest : i \in DOMAIN a}

IsActive(n, u) == u \in Digests(active[n])
IsExpired(n, u) == u \in Range(removed[n])

(* Mutant: what has expired counts as new. *)
IsNewUnlessActive(n, u) == ~IsActive(n, u)

IsNew(n, u) == ~IsActive(n, u) /\ ~IsExpired(n, u)

(* UpdateExpirationValue::new *)
Fresh(u) == [digest |-> u, left |-> IF config.expiry = "pushes" THEN config.limit ELSE 0]

(* active_headers_for_push counts a push of every active update. *)
CountPush(a) == [i \in DOMAIN a |-> [a[i] EXCEPT !.left = IF @ > 0 THEN @ - 1 ELSE 0]]

(* What is kept of the active updates and what expired: the k oldest *)
Parted(a, k) == [kept |-> SubSeq(a, k + 1, Len(a)), gone |-> [i \in 1..k |-> a[i].digest]]

(* How many there are too many of *)
Excess(a) == IF Len(a) > config.limit THEN Len(a) - config.limit ELSE 0

(* The k oldest, which a hash map gives in any order *)
PartedAnyhow(a, k) ==
    [kept : {Parted(a, k).kept}, gone : SetToSeqs(Range(Parted(a, k).gone))]

(* Those that have no push left, kept and gone in any order: their age does
   not matter *)
PartedByPushes(a) ==
    [kept : SetToSeqs({x \in Range(a) : x.left > 0}),
     gone : SetToSeqs({x.digest : x \in {y \in Range(a) : y.left = 0}})]

(* Mutant: the newest go first. *)
ExpiredNewest(a) ==
    CASE config.expiry = "none"     -> {Parted(a, 0)}
      [] config.expiry = "recent"   ->
            {[kept |-> SubSeq(a, 1, Len(a) - Excess(a)),
              gone |-> [i \in 1..Excess(a) |-> a[Len(a) - Excess(a) + i].digest]]}
      [] config.expiry = "pushes"   -> PartedByPushes(a)
      [] config.expiry = "duration" -> UNION {PartedAnyhow(a, k) : k \in 0..Len(a)}

(* The updates that clear_expired may remove, in the order it does, and those
   it keeps: time has passed for the oldest, as many as it likes. *)
Expired(a) ==
    CASE config.expiry = "none"     -> {Parted(a, 0)}
      [] config.expiry = "recent"   -> {Parted(a, Excess(a))}
      [] config.expiry = "pushes"   -> PartedByPushes(a)
      [] config.expiry = "duration" -> UNION {PartedAnyhow(a, k) : k \in 0..Len(a)}

(* Mutant: an expired update is only written down. *)
ClearExpiredKept(n, a) ==
    \E e \in Expired(a) :
        LET r == removed[n] \o e.gone
            dropped == IF Len(r) > MaxRemoved THEN Forget ELSE 0
        IN /\ active' = [active EXCEPT ![n] = a]
           /\ removed' = [removed EXCEPT ![n] = SubSeq(r, dropped + 1, Len(r))]
           /\ forgotten' = [forgotten EXCEPT ![n] = @ \cup Range(SubSeq(r, 1, dropped))]

(* Mutant: whatever expired is remembered for ever. *)
ClearExpiredUntrimmed(n, a) ==
    \E e \in Expired(a) :
        /\ active' = [active EXCEPT ![n] = e.kept]
        /\ removed' = [removed EXCEPT ![n] = @ \o e.gone]
        /\ UNCHANGED forgotten

(* clear_expired, on the active updates `a` *)
ClearExpired(n, a) ==
    \E e \in Expired(a) :
        LET r == removed[n] \o e.gone
            dropped == IF Len(r) > MaxRemoved THEN Forget ELSE 0
        IN /\ active' = [active EXCEPT ![n] = e.kept]
           /\ removed' = [removed EXCEPT ![n] = SubSeq(r, dropped + 1, Len(r))]
           /\ forgotten' = [forgotten EXCEPT ![n] = @ \cup Range(SubSeq(r, 1, dropped))]

-----------------------------------------------------------------------------
(* network::send.  The listener reads no connection made after the flag. *)
Sent(q, to, m) == IF phase[to] = "running" THEN [q EXCEPT ![to] = Append(@, m)] ELSE q

(* The messages from n that p has yet to handle *)
Waiting(n, p) ==
    Len(SelectSeq(headers[p], LAMBDA m : m.from = n))
        + Len(SelectSeq(contents[p], LAMBDA m : m.from = n))

Message(n, type, digests) == [from |-> n, type |-> type, digests |-> digests]

Init ==
    /\ config \in Configs
    /\ active = [n \in Nodes |-> <<>>] /\ removed = [n \in Nodes |-> <<>>]
    /\ headers = [n \in Nodes |-> <<>>] /\ contents = [n \in Nodes |-> <<>>]
    /\ phase = [n \in Nodes |-> "running"]
    /\ gossiping = [n \in Nodes |-> TRUE]
    /\ losses = 0
    /\ submitted = [n \in Nodes |-> {}]
    /\ delivered = [n \in Nodes |-> [u \in Updates |-> 0]]
    /\ forgotten = [n \in Nodes |-> {}]

Submits == Cardinality(UNION {{n} \X submitted[n] : n \in Nodes})

(* Submits a content the node never submitted; only shutdown, which borrows
   the service mutably, keeps the application from it. *)
Submit(n, u) ==
    /\ Submits < MaxSubmits
    /\ phase[n] \in {"running", "stopped"}
    /\ u \notin submitted[n] /\ IsNew(n, u)
    /\ active' = [active EXCEPT ![n] = Append(@, Fresh(u))]
    /\ submitted' = [submitted EXCEPT ![n] = @ \cup {u}]
    /\ UNCHANGED <<config, removed, channels, phase, gossiping, losses, delivered, forgotten>>

(* A round of the gossip thread with peer p.  What it pushes is counted and
   cleared before the message leaves.  The flag is read at the top of the
   loop: one round may come after shutdown was asked for. *)
Round(n, p) ==
    LET pushes == config.push /\ active[n] # <<>> IN
    /\ gossiping[n] /\ p # n /\ Waiting(n, p) + Waiting(p, n) <= MaxWaiting
    /\ IF pushes
       THEN ClearExpired(n, CountPush(active[n]))
       ELSE UNCHANGED <<service, forgotten>>
    /\ headers' = Sent(headers, p,
                       Message(n, "request", IF pushes THEN Digests(active[n]) ELSE {}))
    /\ gossiping' = [gossiping EXCEPT ![n] = phase[n] = "running"]
    /\ UNCHANGED <<config, contents, phase, losses, submitted, delivered>>

(* Mutant: a request is answered by a node that pushes, not by one that can
   be pulled from. *)
AnswersHeadersIfPush(n, m) ==
    /\ config.push /\ m.type = "request" /\ active[n] # <<>>

AnswersHeaders(n, m) ==
    /\ config.pull /\ m.type = "request" /\ active[n] # <<>>

(* The digests of a header message that are worth a request *)
Wanted(n, m) ==
    IF \/ m.type = "request" /\ config.push
       \/ m.type = "response" /\ config.pull
    THEN {u \in m.digests : IsNew(n, u)}
    ELSE {}

HandleHeader(n) == \E i \in DOMAIN headers[n] :
    LET m == headers[n][i]
        wanted == Wanted(n, m)
        rest == [headers EXCEPT ![n] = RemoveAt(@, i)]
    IN
    /\ headers' = IF AnswersHeaders(n, m)
                  THEN Sent(rest, m.from, Message(n, "response", Digests(active[n])))
                  ELSE rest
    /\ contents' = IF wanted # {}
                   THEN Sent(contents, m.from, Message(n, "request", wanted))
                   ELSE contents
    /\ UNCHANGED <<config, service, phase, gossiping, losses, history>>

(* A request for contents is answered with those that are still active. *)
ServeContent(n) == \E i \in DOMAIN contents[n] :
    LET m == contents[n][i]
        held == {u \in m.digests : IsActive(n, u)}
        rest == [contents EXCEPT ![n] = RemoveAt(@, i)]
    IN
    /\ m.type = "request"
    /\ contents' = IF held # {} THEN Sent(rest, m.from, Message(n, "response", held)) ELSE rest
    /\ UNCHANGED <<config, service, headers, phase, gossiping, losses, history>>

(* The contents that are new, looked at again now that they are here, become
   active and go to the application's handler, which shutdown takes away. *)
TakeContent(n) == \E i \in DOMAIN contents[n] :
    LET m == contents[n][i]
        new == {u \in m.digests : IsNew(n, u)}
    IN
    /\ m.type = "response"
    /\ contents' = [contents EXCEPT ![n] = RemoveAt(@, i)]
    /\ \E s \in SetToSeqs(new) :
          ClearExpired(n, active[n] \o [k \in DOMAIN s |-> Fresh(s[k])])
    /\ delivered' = IF phase[n] = "running"
                    THEN [delivered EXCEPT ![n] =
                             [u \in Updates |-> IF u \in new /\ @[u] < 2 THEN @[u] + 1 ELSE @[u]]]
                    ELSE delivered
    /\ UNCHANGED <<config, headers, phase, gossiping, losses, submitted>>

(* A message does not arrive. *)
Lose(n) ==
    /\ losses < MaxLosses
    /\ losses' = losses + 1
    /\ \/ /\ \E i \in DOMAIN headers[n] : headers' = [headers EXCEPT ![n] = RemoveAt(@, i)]
          /\ UNCHANGED contents
       \/ /\ \E i \in DOMAIN contents[n] : contents' = [contents EXCEPT ![n] = RemoveAt(@, i)]
          /\ UNCHANGED headers
    /\ UNCHANGED <<config, service, phase, gossiping, history>>

-----------------------------------------------------------------------------
(* shutdown: the handler is taken and the flag set ... *)
Shutdown(n) ==
    /\ n \in Stoppable /\ phase[n] = "running"
    /\ phase' = [phase EXCEPT ![n] = "stopping"]
    /\ UNCHANGED <<config, service, channels, gossiping, losses, history>>

(* ... the listener sees the flag at the next connection and reads neither
   this one nor those behind it ... *)
CloseListener(n) ==
    /\ phase[n] = "stopping"
    /\ phase' = [phase EXCEPT ![n] = "closed"]
    /\ \E h \in Prefixes(headers[n]), c \in Prefixes(contents[n]) :
          /\ headers' = [headers EXCEPT ![n] = h]
          /\ contents' = [contents EXCEPT ![n] = c]
    /\ UNCHANGED <<config, service, gossiping, losses, history>>

LeaveGossip(n) ==
    /\ phase[n] # "running" /\ gossiping[n]
    /\ gossiping' = [gossiping EXCEPT ![n] = FALSE]
    /\ UNCHANGED <<config, service, channels, phase, losses, history>>

(* ... and the threads that read the channels end when these are empty.  The
   message that is to stop the sampling service then finds no listener:
   shutdown returns its error and leaves the updates as they are. *)
JoinThreads(n) ==
    /\ phase[n] = "closed" /\ ~gossiping[n]
    /\ headers[n] = <<>> /\ contents[n] = <<>>
    /\ phase' = [phase EXCEPT ![n] = "stopped"]
    /\ UNCHANGED <<config, service, channels, gossiping, losses, history>>

-----------------------------------------------------------------------------
Handle(n) == HandleHeader(n) \/ ServeContent(n) \/ TakeContent(n)

Stop(n) == CloseListener(n) \/ LeaveGossip(n) \/ JoinThreads(n)

Next ==
    \E n \in Nodes :
        \/ \E u \in Updates : Submit(n, u)
        \/ \E p \in Nodes : Round(n, p)
        \/ Handle(n) \/ Lose(n) \/ Shutdown(n) \/ Stop(n)

Spec == Init /\ [][Next]_vars

(* The threads that read the channels run; the gossip thread goes on and its
   random peer is each of the others again and again. *)
FairSpec ==
    /\ Spec
    /\ \A n \in Nodes :
          /\ WF_vars(HandleHeader(n)) /\ WF_vars(ServeContent(n) \/ TakeContent(n))
          /\ WF_vars(Stop(n))
          /\ \A p \in Nodes : SF_vars(Round(n, p))

-----------------------------------------------------------------------------
(* Properties *)

Messages == [from : Nodes, type : {"request", "response"}, digests : SUBSET Updates]

(* A node that remembers more than MaxRemoved digests has at that moment forgotten
   Forget others, so it remembers all updates but Forget of them at most. With no more
   than MaxRemoved + Forget updates in the system that is the bound of MaxRemoved;
   with more, a node stays over it when more expire at a time than are drained. *)
TypeOK ==
    /\ config \in Configs
    /\ active \in [Nodes -> Seq([digest : Updates, left : 0..config.limit])]
    /\ removed \in [Nodes -> Seq(Updates)]
    /\ \A n \in Nodes : Len(removed[n]) > MaxRemoved => Len(removed[n]) + Forget <= Cardinality(Updates)
    /\ headers \in [Nodes -> Seq(Messages)] /\ contents \in [Nodes -> Seq(Messages)]
    /\ phase \in [Nodes -> {"running", "stopping", "closed", "stopped"}]
    /\ gossiping \in [Nodes -> BOOLEAN] /\ losses \in 0..MaxLosses
    /\ submitted \in [Nodes -> SUBSET Updates] /\ forgotten \in [Nodes -> SUBSET Updates]
    /\ delivered \in [Nodes -> [Updates -> 0..2]]

(* is_active and is_expired never both hold, and neither list names an update
   twice: expiring moves an update, it does not copy it. *)
ActiveOrExpired ==
    \A n \in Nodes :
        /\ Digests(active[n]) \cap Range(removed[n]) = {}
        /\ Cardinality(Digests(active[n])) = Len(active[n])
        /\ Cardinality(Range(removed[n])) = Len(removed[n])

(* The application sees an update once, and not at all where it submitted it
   itself, however many peers push it, answer late or answer twice: on_update
   is for new updates.  Only a node that has forgotten it may see it again. *)
DeliveredOnce ==
    \A n \in Nodes : \A u \in Updates \ forgotten[n] :
        delivered[n][u] + (IF u \in submitted[n] THEN 1 ELSE 0) <= 1

(* With UpdateExpirationMode::MostRecent an update expires for newer ones. *)
NewestStay ==
    [][config.expiry = "recent"
         => \A n \in Nodes : Digests(active[n]) \ Digests(active'[n]) # {}
              => /\ Len(active'[n]) = config.limit
                 /\ \A i \in DOMAIN active[n] : \A j \in 1..(i - 1) :
                       active[n][j].digest \in Digests(active'[n])
                          => active[n][i].digest \in Digests(active'[n])]_vars

(* Where updates do not expire, the running nodes come to have the same ones
   active, by push or by pull, whatever was lost on the way. *)
NodesAgree ==
    <>[](\A n, m \in Nodes :
            (/\ config.expiry = "none" /\ (config.push \/ config.pull)
             /\ phase[n] = "running" /\ phase[m] = "running")
                => Digests(active[n]) = Digests(active[m]))

(* `Submits a message for broadcast by the gossip protocol`: another node gets
   what one node submits. *)
SubmittedIsBroadcast ==
    \A n \in Nodes, u \in Updates :
        u \in submitted[n]
            ~> \E m \in Nodes \ {n} : u \in Digests(active[m]) \cup Range(removed[m])
=============================================================================
