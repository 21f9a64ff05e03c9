------------------------------ MODULE MapCRDT -------------------------------
(***************************************************************************)
(* The Map CRDT with an Orswot under each key.                             *)
(*                                                                         *)
(* A key that is not in the map has NoEntry: an entry whose clock becomes  *)
(* empty is always removed.  `deferred` is the set of the pairs of a       *)
(* removal's clock and a key it removes.                                   *)
(***************************************************************************)
EXTENDS Orswot, FiniteSetsExt

CONSTANT MapKeys

NoEntry == [clock |-> NoClock, val |-> OrswotNew]

MapNew == [clock |-> NoClock, entries |-> [k \in MapKeys |-> NoEntry], deferred |-> {}]

Entry(clock, val) == IF clock = NoClock THEN NoEntry ELSE [clock |-> clock, val |-> val]

(* apply_keyset_rm of every removal in R: it takes from the entry of its key,
   and from the value there, what it has seen. *)
MapRemovals(s, R) ==
    LET Seen(k) == [a \in Actors |-> Max({r.clock[a] : r \in {x \in R : x.key = k}} \cup {0})]
    IN [s EXCEPT
          !.entries = [k \in MapKeys |->
              Entry(ClockReset(@[k].clock, Seen(k)), OrswotReset(@[k].val, Seen(k)))],
          !.deferred = @ \cup {r \in R : ~Covers(s.clock, r.clock)}]

MapApplyDeferred(s) == MapRemovals([s EXCEPT !.deferred = {}], s.deferred)

MapUpdate(s, op) ==
    IF s.clock[op.dot.actor] >= op.dot.counter
    THEN s
    ELSE MapApplyDeferred(
            [s EXCEPT
                !.entries[op.key] = [clock |-> ClockApply(@.clock, op.dot),
                                     val |-> OrswotApply(@.val, op.op)],
                !.clock = ClockApply(@, op.dot)])

MapApply(s, op) ==
    IF op.type = "up" THEN MapUpdate(s, op)
    ELSE MapRemovals(s, {[clock |-> op.clock, key |-> op.key]})

(* An entry of one map, merged with another that does not have it and has
   come to `clock`: what that has seen of it was removed there. *)
OnlyOne(e, clock) ==
    LET left == ClockReset(e.clock, clock)
    IN Entry(left, OrswotReset(e.val, ClockReset(clock, left)))

(* An entry both have *)
Both(e, f, common) ==
    Entry(common,
          OrswotReset(OrswotMerge(e.val, f.val),
                      ClockReset(ClockMerge(e.clock, f.clock), common)))

MergedMapEntry(s, o, k) ==
    LET ours == s.entries[k]
        theirs == o.entries[k]
    IN CASE theirs = NoEntry -> OnlyOne(ours, o.clock)
         [] ours = NoEntry   -> OnlyOne(theirs, s.clock)
         [] OTHER ->
                Both(ours, theirs,
                     ClockMerge(Intersection(ours.clock, theirs.clock),
                                ClockMerge(ClockReset(theirs.clock, s.clock),
                                           ClockReset(ours.clock, o.clock))))

MapMerge(s, o) ==
    LET merged == MapRemovals([s EXCEPT !.entries = [k \in MapKeys |-> MergedMapEntry(s, o, k)]],
                              o.deferred)
    IN MapApplyDeferred([merged EXCEPT !.clock = ClockMerge(@, o.clock)])

(* get of every key *)
MapRead(s) ==
    [k \in {x \in MapKeys : s.entries[x] # NoEntry} |-> OrswotRead(s.entries[k].val)]

(* What an actor may issue: an update that adds a member under a key, with the
   dot of the map's clock; the removal of a key, with the clock of its entry or
   of the whole map. *)
Update(s, a, key, op) ==
    [type |-> "up", dot |-> Inc(s.clock, a), key |-> key, op |-> op]

MapOps(s, a) ==
    {Update(s, a, k, [type |-> "add", dot |-> Inc(s.clock, a), members |-> {m}]) :
        k \in MapKeys, m \in Members}
    \cup {[type |-> "rm", clock |-> s.entries[k].clock, key |-> k] : k \in DOMAIN MapRead(s)}
    \cup [type : {"rm"}, clock : {s.clock}, key : MapKeys]

(* An update that removes a member read under a key *)
MapShrinkOps(s, a) ==
    UNION {{Update(s, a, k, [type |-> "rm", clock |-> s.entries[k].val.entries[m], members |-> {m}]) :
                m \in MapRead(s)[k]} : k \in DOMAIN MapRead(s)}

-----------------------------------------------------------------------------
(* The map has seen what its entries have, and of a removal that it keeps not
   everything; the value of every entry is one its type may have. *)
MapSound(s) ==
    /\ \A k \in MapKeys : /\ Covers(s.clock, s.entries[k].clock)
                          /\ OrswotSound(s.entries[k].val)
    /\ \A r \in s.deferred : ~Covers(s.clock, r.clock)

(* A key is in the map if an update of it was not seen by a removal of it, and
   has the members that were added and whose addition was seen neither by a
   removal of the key nor by one of the member. *)
MapMeaning(ops) ==
    LET ups == {op \in ops : op.type = "up"}
        Live(k) == {up \in ups : /\ up.key = k
                                 /\ ~ \E rm \in ops \ ups : /\ rm.key = k
                                                            /\ rm.clock[up.dot.actor] >= up.dot.counter}
        Under(k) == {up.op : up \in {x \in Live(k) : x.op.type = "add"}}
                        \cup {up.op : up \in {x \in ups : x.key = k /\ x.op.type = "rm"}}
    IN [k \in {x \in MapKeys : Live(x) # {}} |-> OrswotMeaning(Under(k))]
=============================================================================
