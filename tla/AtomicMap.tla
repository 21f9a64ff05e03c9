----------------------------- MODULE AtomicMap -----------------------------
(***************************************************************************)
(* What chashmap's HashMap promises its callers: each call takes effect at *)
(* one moment between its beginning and its end, as if no other call were  *)
(* in progress.  Calls that only read answer with what the key held at     *)
(* some moment of the call.  The exception is clear: it empties the map    *)
(* bit by bit, and where it meets a resize some of the keys it took out    *)
(* are gone only after it has returned.                                    *)
(***************************************************************************)
EXTENDS FiniteSets

CONSTANTS Threads, Keys, Values, None

VARIABLES
    contents,   \* the value of each key, None if it is absent
    call,       \* the call each thread is in
    result,     \* what it answers, once it has taken effect
    effect,     \* whether it has
    seen,       \* what the key of the call has held since the call began
    doomed      \* the keys a clear has taken out, still there until a resize goes on

NoCall == [op |-> "none"]

Calls ==
    [op : {"get", "remove"}, key : Keys]
        \cup [op : {"insert", "try_insert"}, key : Keys, val : Values]
        \cup [op : {"compute_if_present"}, key : Keys, val : Values \cup {None}]
        \cup [op : {"clear"}]
        \cup [op : {"retain", "retain_force"}, val : Values]   \* the value rejected

Several == {"clear", "retain", "retain_force"}

(* The value of the key after an update that finds `old` there. *)
After(c, old) ==
    CASE c.op = "insert"             -> c.val
      [] c.op = "try_insert"         -> IF old = None THEN c.val ELSE old
      [] c.op = "remove"             -> None
      [] c.op = "compute_if_present" -> IF old = None THEN None ELSE c.val

(* The answer: compute_if_present gives the new value, the others the old. *)
Answer(c, old) == IF c.op = "compute_if_present" THEN After(c, old) ELSE old

Watch(m) ==
    seen' = [t \in Threads |->
                IF call'[t].op \in {"none"} \cup Several THEN {}
                ELSE IF call[t] = NoCall THEN {m[call'[t].key]}
                ELSE seen[t] \cup {m[call[t].key]}]

Init ==
    /\ contents = [k \in Keys |-> None]
    /\ call = [t \in Threads |-> NoCall]
    /\ result = [t \in Threads |-> None]
    /\ effect = [t \in Threads |-> FALSE]
    /\ seen = [t \in Threads |-> {}]
    /\ doomed = {}

Begin(t) ==
    /\ call[t] = NoCall
    /\ \E c \in Calls : call' = [call EXCEPT ![t] = c]
    /\ UNCHANGED <<effect, result, contents, doomed>>
    /\ Watch(contents)

(* An update happens.  Nobody writes a doomed key: it goes with the value that
   clear found. *)
Update(t) ==
    /\ call[t] # NoCall /\ call[t].op \notin {"get"} \cup Several /\ ~effect[t]
    /\ call[t].key \notin doomed
    /\ effect' = [effect EXCEPT ![t] = TRUE]
    /\ UNCHANGED <<call, doomed>>
    /\ LET c == call[t]
           old == contents[c.key]
       IN /\ result' = [result EXCEPT ![t] = Answer(c, old)]
          /\ contents' = [contents EXCEPT ![c.key] = After(c, old)]
    /\ Watch(contents')

Drop(gone) == contents' = [k \in Keys |-> IF k \in gone THEN None ELSE contents[k]]

(* clear is not one event: it takes out some keys at a time, and others may
   put them back behind it.  Some go at once and some later. *)
ClearSome(t) ==
    /\ call[t].op = "clear" /\ ~effect[t]
    /\ UNCHANGED <<call, result, effect>>
    /\ \E gone \in SUBSET Keys : Drop(gone)
    /\ doomed' \in SUBSET Keys /\ doomed \subseteq doomed'
    /\ Watch(contents')

Vanish(gone) ==
    /\ doomed' = doomed \ gone
    /\ UNCHANGED <<call, result, effect>>
    /\ Drop(gone)
    /\ Watch(contents')

(* retain takes out one key after the other, and only where it holds the
   value that is rejected; retain_force, whatever the key holds by then. *)
RetainOut(t, k) ==
    /\ call[t].op \in {"retain", "retain_force"} /\ ~effect[t]
    /\ call[t].op = "retain" => contents[k] = call[t].val
    /\ k \notin doomed
    /\ UNCHANGED <<call, result, effect, doomed>>
    /\ contents' = [contents EXCEPT ![k] = None]
    /\ Watch(contents')

(* The end of a clear or a retain *)
Cleared(t) ==
    /\ call[t].op \in Several /\ ~effect[t]
    /\ effect' = [effect EXCEPT ![t] = TRUE]
    /\ UNCHANGED <<call, result, contents, doomed>>
    /\ Watch(contents)

(* A call that changes nothing answers with something it saw. *)
Read(t) ==
    /\ call[t].op \in {"get", "try_insert"} /\ ~effect[t]
    /\ effect' = [effect EXCEPT ![t] = TRUE]
    /\ \E v \in seen[t] :
          /\ call[t].op = "get" \/ v # None
          /\ result' = [result EXCEPT ![t] = v]
    /\ UNCHANGED <<call, contents, doomed>>
    /\ Watch(contents)

End(t) ==
    /\ effect[t]
    /\ call' = [call EXCEPT ![t] = NoCall]
    /\ result' = [result EXCEPT ![t] = None]
    /\ effect' = [effect EXCEPT ![t] = FALSE]
    /\ UNCHANGED <<contents, doomed>>
    /\ Watch(contents)

Next ==
    \/ \E t \in Threads :
        \/ Begin(t)
        \/ Update(t)
        \/ Read(t)
        \/ ClearSome(t)
        \/ \E k \in Keys : RetainOut(t, k)
        \/ Cleared(t)
        \/ End(t)
    \/ \E gone \in (SUBSET doomed) \ {{}} : Vanish(gone)

Spec == Init /\ [][Next]_<<contents, call, result, effect, seen, doomed>>
=============================================================================
