------------------------------ MODULE KeySpace ------------------------------
(***************************************************************************)
(* What a DB promises: keys with values, some of them with a time at which *)
(* they expire, and what each call answers.  Nothing is said of tables.    *)
(***************************************************************************)
EXTENDS Naturals, Functions

CONSTANTS Keys, Values, MaxTime, Absent, Done, Refused, NotYet

VARIABLES
    value,      \* of the keys that have one
    expiry,     \* of the keys that have a time to expire
    now,
    answer

vars == <<value, expiry, now, answer>>

Init == value = << >> /\ expiry = << >> /\ now = 0 /\ answer = Done

Has(f, k) == k \in DOMAIN f
Get(f, k) == IF Has(f, k) THEN f[k] ELSE Absent
With(f, k, x) == [j \in DOMAIN f \cup {k} |-> IF j = k THEN x ELSE f[j]]
Drop(f, k) == Restrict(f, DOMAIN f \ {k})
Ok(done) == IF done THEN Done ELSE Refused

(* A value is added if there is none, or put in place of what is there: Done
   says that the key is new. *)
Put(k, v) ==
    /\ value' \in {With(value, k, v)} \cup (IF Has(value, k) THEN {value} ELSE {})
    /\ answer' = Ok(~Has(value, k))
    /\ UNCHANGED <<expiry, now>>

(* A time, once set, stays until it is removed. *)
SetExpire(k, when) ==
    /\ expiry' = IF Has(expiry, k) THEN expiry ELSE With(expiry, k, when)
    /\ answer' = Ok(~Has(expiry, k))
    /\ UNCHANGED <<value, now>>

RemoveExpire(k) ==
    /\ expiry' = Drop(expiry, k)
    /\ answer' = Ok(Has(expiry, k))
    /\ UNCHANGED <<value, now>>

GetExpire(k) ==
    /\ answer' = Get(expiry, k)
    /\ UNCHANGED <<value, expiry, now>>

Due(k) == Has(expiry, k) /\ expiry[k] <= now

Expire(k) ==
    /\ value' = IF Due(k) THEN Drop(value, k) ELSE value
    /\ expiry' = IF Due(k) THEN Drop(expiry, k) ELSE expiry
    /\ UNCHANGED now

ExpireIfNeeded(k) ==
    /\ Expire(k)
    /\ answer' = IF Has(expiry, k) /\ ~Due(k) THEN NotYet ELSE Ok(Due(k) /\ Has(value, k))

(* No value is read whose time has come. *)
Read(k) ==
    /\ Expire(k)
    /\ answer' = IF Due(k) THEN Absent ELSE Get(value, k)

(* delete is for keys that have a time to expire. *)
DeleteWithExpiry(k) ==
    /\ expiry' = Drop(expiry, k)
    /\ value' = IF Has(expiry, k) THEN Drop(value, k) ELSE value
    /\ answer' = Ok(Has(expiry, k) /\ Has(value, k))
    /\ UNCHANGED now

DeleteKey(k) ==
    /\ expiry' = Drop(expiry, k)
    /\ value' = Drop(value, k)
    /\ answer' = Ok(Has(value, k))
    /\ UNCHANGED now

Tick ==
    /\ now < MaxTime
    /\ now' = now + 1
    /\ UNCHANGED <<value, expiry, answer>>

Next ==
    \/ \E k \in Keys :
          \/ \E v \in Values : Put(k, v)
          \/ \E when \in 1..MaxTime : SetExpire(k, when)
          \/ RemoveExpire(k) \/ GetExpire(k) \/ ExpireIfNeeded(k) \/ Read(k)
          \/ DeleteWithExpiry(k) \/ DeleteKey(k)
    \/ Tick

Spec == Init /\ [][Next]_vars
=============================================================================
