-------------------------- MODULE CausalityBarrier --------------------------
(***************************************************************************)
(* The causality barrier: version vectors with exceptions, and a buffer    *)
(* of the operations that wait for the one they happen after.  Its user is *)
(* a set: an insertion happens after nothing and adds its dot, a deletion  *)
(* happens after the insertion of what it removes.                         *)
(***************************************************************************)
EXTENDS VClock

NoDot == [actor |-> 0, counter |-> 0]

BarrierNew ==
    [peers |-> [a \in Actors |-> [next |-> 0, exceptions |-> {}]],
     buffer |-> {},
     held |-> {}]       \* what the user makes of the operations that come out

(* VectorEntry::increment; only a version from the future makes exceptions. *)
Increment(e, version) ==
    CASE version < e.next -> [e EXCEPT !.exceptions = @ \ {version}]
      [] version = e.next -> [e EXCEPT !.next = @ + 1]
      [] version > e.next -> [e EXCEPT !.exceptions = @ \cup (e.next + 1)..(version - 1)]

IsReady(e, version) == version < e.next /\ version \notin e.exceptions

Saw(b, dot) == IsReady(b.peers[dot.actor], dot.counter)

(* The buffer has one operation for each dot: a later one takes its place. *)
Buffered(b, op) == [b EXCEPT !.buffer = {x \in @ : x.after # op.after} \cup {op}]

(* An operation that comes out of the barrier *)
Performed(b, op) ==
    [b EXCEPT !.held = IF op.after = NoDot THEN @ \cup {op.dot} ELSE @ \ {op.after}]

(* ingest.  An insertion whose deletion waits is dropped with it. *)
BarrierApply(b, op) ==
    LET c == [b EXCEPT !.peers[op.dot.actor] = Increment(@, op.dot.counter)]
        waiting == {x \in b.buffer : x.after = op.dot}
    IN CASE Saw(b, op.dot) -> b
         [] ~Saw(b, op.dot) /\ op.after # NoDot ->
               IF Saw(c, op.after) THEN Performed(c, op) ELSE Buffered(c, op)
         [] OTHER ->
               IF waiting = {} THEN Performed(c, op) ELSE [c EXCEPT !.buffer = @ \ waiting]

(* What an actor does itself goes out through expel: to ingest it would come
   to the same, since nothing can wait for it and it has seen what it deletes. *)
BarrierOps(b, a) ==
    [dot : {[actor |-> a, counter |-> b.peers[a].next]}, after : {NoDot} \cup b.held]

(* Nothing waits for what is there, and for each dot one operation waits. *)
BarrierSound(b) ==
    /\ \A x \in b.buffer : x.after # NoDot /\ ~Saw(b, x.after)
    /\ \A x, y \in b.buffer : x.after = y.after => x = y

(* What was inserted and not deleted *)
BarrierMeaning(ops) ==
    {op.dot : op \in {x \in ops : x.after = NoDot}} \ {op.after : op \in ops}
=============================================================================
