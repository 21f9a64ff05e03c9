---------------------------- MODULE Replication -----------------------------
(***************************************************************************)
(* Replicas of a CRDT that exchange operations and states, one an actor.   *)
(*                                                                         *)
(* Each actor issues operations at its own replica.  A replica applies the *)
(* operations of an actor in the order it issued them, which is all that   *)
(* CmRDT asks for, and may apply again what it has already applied; or it  *)
(* merges the state of another replica (CvRDT).  What an operation and a   *)
(* merge do is what CRDTs has for the kind of data type: the traits'       *)
(* implementations.                                                        *)
(***************************************************************************)
EXTENDS CRDTs, FiniteSets, Sequences

CONSTANTS
    Kinds,          \* the CRDTs
    OpKinds,        \* those that exchange operations
    CausalKinds,    \* those of them whose operations wait for what they follow
    StateKinds,     \* those that exchange states
    MaxOps          \* bound: operations issued

VARIABLES
    kind,
    state,  \* the replica of each actor
    log,    \* the operations of each actor, with what it had seen before each
    seen    \* how many operations of each actor a replica has applied or merged
vars == <<kind, state, log, seen>>

Init ==
    /\ kind \in Kinds
    /\ state = [r \in Actors |-> KindNew(kind)]
    /\ log = [a \in Actors |-> <<>>]
    /\ seen = [r \in Actors |-> [a \in Actors |-> 0]]

Issued == UNION {{a} \X DOMAIN log[a] : a \in Actors}

Issue(a) ==
    /\ Cardinality(Issued) < MaxOps
    /\ \E op \in KindOps(kind, state[a], a) :
          /\ state' = [state EXCEPT ![a] = KindApply(kind, @, op)]
          /\ log' = [log EXCEPT ![a] = Append(@, [op |-> op, after |-> seen[a]])]
          /\ seen' = [seen EXCEPT ![a][a] = @ + 1]
    /\ UNCHANGED kind

Deliver(r, a) ==
    LET i == seen[r][a] + 1 IN
    /\ kind \in OpKinds /\ i \in DOMAIN log[a]
    /\ kind \in CausalKinds => \A b \in Actors : log[a][i].after[b] <= seen[r][b]
    /\ state' = [state EXCEPT ![r] = KindApply(kind, @, log[a][i].op)]
    /\ seen' = [seen EXCEPT ![r][a] = i]
    /\ UNCHANGED <<kind, log>>

DeliverAgain(r, a) ==
    /\ kind \in OpKinds
    /\ \E i \in 1..seen[r][a] : state' = [state EXCEPT ![r] = KindApply(kind, @, log[a][i].op)]
    /\ UNCHANGED <<kind, log, seen>>

MergeFrom(r, q) ==
    /\ kind \in StateKinds
    /\ state' = [state EXCEPT ![r] = KindMerge(kind, @, state[q])]
    /\ seen' = [seen EXCEPT ![r] =
                  [a \in Actors |-> IF @[a] < seen[q][a] THEN seen[q][a] ELSE @[a]]]
    /\ UNCHANGED <<kind, log>>

Next ==
    \/ \E a \in Actors : Issue(a)
    \/ \E r, q \in Actors : Deliver(r, q) \/ DeliverAgain(r, q) \/ MergeFrom(r, q)

Spec == Init /\ [][Next]_vars

-----------------------------------------------------------------------------
(* Properties *)

OpsSeen(r) == {log[x[1]][x[2]].op : x \in {y \in Issued : y[2] <= seen[r][y[1]]}}

(* The states keep the shape of their type, and the replicas are behind the
   actors. *)
TypeOK ==
    /\ kind \in Kinds
    /\ \A r \in Actors : KindSound(kind, state[r])
    /\ \A r, a \in Actors : seen[r][a] \in 0..Len(log[a])
    /\ \A a \in Actors : seen[a][a] = Len(log[a])

(* Replicas that have seen the same operations, by operations or by states as
   their kind allows (OpKinds, StateKinds), are equal: applied in any order that
   keeps the order of each actor, and some of them twice. This is less
   than traits.rs:50 promises of `any of the valid orders`: a kind in CausalKinds
   gets an operation after all it follows, and what KindOps or OpKinds leave out
   does not converge: MVReg's Puts, and removals inside the entries of a map, by
   operations (README, section 7). *)
Convergence ==
    \A r, q \in Actors : seen[r] = seen[q] => state[r] = state[q]

(* What is read from a replica follows from the operations it has seen, in
   whatever order, and by the meaning of the data type. *)
ReadsItsMeaning ==
    \A r \in Actors : KindRead(kind, state[r]) = KindMeaning(kind, OpsSeen(r))
=============================================================================
