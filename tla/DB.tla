--------------------------------- MODULE DB ---------------------------------
(***************************************************************************)
(* A DB: a dict of the values of its keys and a dict of the times at which *)
(* keys expire.  It is used by one thread.  Every action is one call;      *)
(* `answer` is what it returns.                                            *)
(***************************************************************************)
EXTENDS Dict

CONSTANTS
    Values,
    Done, Refused, NotYet,  \* Ok, Err and Ok(false)
    Expiring,   \* bound: the keys that are given a time to expire
    MaxTime     \* bound: the clock stops there

ASSUME TimesAssumption == MaxTime \in Nat /\ Absent \notin 1..MaxTime

VARIABLES
    dict,
    expires,
    now,
    answer
dbVars == <<dict, expires, now, answer>>

Times == 1..MaxTime

DBInit ==
    /\ dict = DictNew
    /\ expires = DictNew
    /\ now = 0
    /\ answer = Done

Ok(done) == IF done THEN Done ELSE Refused

(* `dict` is public: values are put in it directly. *)
DictAdd(k, v) ==
    /\ dict' = Add(dict, k, v).dict
    /\ answer' = Ok(Add(dict, k, v).ok)
    /\ UNCHANGED <<expires, now>>

DictReplace(k, v) ==
    /\ dict' = Replace(dict, k, v).dict
    /\ answer' = Ok(Replace(dict, k, v).ok)
    /\ UNCHANGED <<expires, now>>

SetExpire(k, when) ==
    /\ expires' = Add(expires, k, when).dict
    /\ answer' = Ok(Add(expires, k, when).ok)
    /\ UNCHANGED <<dict, now>>

RemoveExpire(k) ==
    /\ expires' = Delete(expires, k).dict
    /\ answer' = Ok(Delete(expires, k).ok)
    /\ UNCHANGED <<dict, now>>

GetExpire(k) ==
    /\ expires' = FindByMut(expires, k).dict
    /\ answer' = FindByMut(expires, k).value
    /\ UNCHANGED <<dict, now>>

Due(k) == Find(expires, k) # Absent /\ Find(expires, k) <= now

(* expire_if_needed: the two dicts after it *)
AfterExpiry(k) ==
    IF Due(k) THEN [dict |-> Delete(dict, k).dict, expires |-> Delete(expires, k).dict]
    ELSE [dict |-> dict, expires |-> expires]

ExpireIfNeeded(k) ==
    /\ dict' = AfterExpiry(k).dict
    /\ expires' = AfterExpiry(k).expires
    /\ answer' = CASE Find(expires, k) = Absent -> Refused
                   [] Find(expires, k) # Absent /\ ~Due(k) -> NotYet
                   [] OTHER -> Ok(Delete(dict, k).ok)
    /\ UNCHANGED now

(* look_up_key_read *)
LookUpKeyRead(k) ==
    LET found == FindByMut(AfterExpiry(k).dict, k) IN
    /\ dict' = found.dict
    /\ expires' = AfterExpiry(k).expires
    /\ answer' = found.value
    /\ UNCHANGED now

(* A key that has no time to expire is not deleted. *)
DeleteWithExpiry(k) ==
    /\ expires' = IF Length(expires) = 0 THEN expires ELSE Delete(expires, k).dict
    /\ IF Length(expires) # 0 /\ Delete(expires, k).ok
       THEN /\ dict' = Delete(dict, k).dict
            /\ answer' = Ok(Delete(dict, k).ok)
       ELSE /\ answer' = Refused
            /\ UNCHANGED dict
    /\ UNCHANGED now

DeleteKey(k) ==
    /\ expires' = IF Length(expires) = 0 THEN expires ELSE Delete(expires, k).dict
    /\ dict' = Delete(dict, k).dict
    /\ answer' = Ok(Delete(dict, k).ok)
    /\ UNCHANGED now

Tick ==
    /\ now < MaxTime
    /\ now' = now + 1
    /\ UNCHANGED <<dict, expires, answer>>

DBNext ==
    \/ \E k \in Keys :
          \/ \E v \in Values : DictAdd(k, v) \/ DictReplace(k, v)
          \/ k \in Expiring /\ \E when \in Times : SetExpire(k, when)
          \/ RemoveExpire(k) \/ GetExpire(k) \/ ExpireIfNeeded(k) \/ LookUpKeyRead(k)
          \/ DeleteWithExpiry(k) \/ DeleteKey(k)
    \/ Tick

DBSpec == DBInit /\ [][DBNext]_dbVars

-----------------------------------------------------------------------------
(* Properties *)

(* Both dicts keep every entry where it is looked for, once, and know how
   many they have, in whatever phase of a rehash. *)
TypeOK ==
    /\ DictSound(dict)
    /\ DictSound(expires)
    /\ now \in 0..MaxTime

(* Rehashing one bucket a call is fast enough: whatever keys are added while
   it goes on, a table never has more than one entry too many. *)
RehashKeepsUp == KeepsUp(dict) /\ KeepsUp(expires)

(* The dicts look like plain maps from outside: no call loses, revives or
   duplicates a key because entries are being moved, and no value is read
   after its time. *)
KeySpace == INSTANCE KeySpace WITH value <- Contents(dict), expiry <- Contents(expires)
IsKeySpace == KeySpace!Spec
=============================================================================
