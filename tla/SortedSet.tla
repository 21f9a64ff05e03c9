----------------------------- MODULE SortedSet -----------------------------
(* What a container of ordered elements promises: it holds what was added
   and not removed, and answers each call by what it held.  A call and its
   answer are one step; the caller then takes the answer. *)
EXTENDS Integers, FiniteSetsExt

CONSTANTS
    Elements,
    Ranges,     \* sets of elements without gaps
    NoElement

VARIABLES
    held,
    answer      \* the call just made and what it answers, until that is taken

(* Whether the call changed the set, and what it found *)
Answer(call, changed, first, last) ==
    [call |-> call, changed |-> changed, first |-> first, last |-> last]
Told(call, changed) == Answer(call, changed, NoElement, NoElement)
Silence == Told([op |-> "none"], FALSE)

Init == held = {} /\ answer = Silence

Add(x) ==
    /\ answer' = Told([op |-> "add", element |-> x], x \notin held)
    /\ held' = held \cup {x}

Remove(x) ==
    /\ answer' = Told([op |-> "remove", element |-> x], x \in held)
    /\ held' = held \ {x}

RemoveAny == \E x \in held :
    /\ answer' = Answer([op |-> "pop"], TRUE, x, x)
    /\ held' = held \ {x}

(* The ends of what is held of a range *)
Ends(range) ==
    LET call == [op |-> "ends", range |-> range]
        found == held \cap range
    IN /\ answer' = IF found = {} THEN Told(call, FALSE)
                    ELSE Answer(call, FALSE, Min(found), Max(found))
       /\ UNCHANGED held

TakeAnswer == answer # Silence /\ answer' = Silence /\ UNCHANGED held

Next ==
    \/ /\ answer = Silence
       /\ \/ \E x \in Elements : Add(x) \/ Remove(x)
          \/ RemoveAny
          \/ \E range \in Ranges : Ends(range)
    \/ TakeAnswer

Spec == Init /\ [][Next]_<<held, answer>>
=============================================================================
