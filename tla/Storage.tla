------------------------------- MODULE Storage -------------------------------
(***************************************************************************)
(* The containers of values, the list object and the DB.  Each is used by  *)
(* one thread and they share nothing: a behaviour is that of one of them.  *)
(***************************************************************************)
EXTENDS DB, Containers, ListObject

VARIABLE used

vars == <<used, dbVars, containersVars, listVars>>

Init ==
    /\ used \in {"db", "container", "list"}
    /\ DBInit /\ ContainersInit /\ ListInit
    (* The ones left alone *)
    /\ used # "container" => kind = "bin"
    /\ used # "list" => IsZip

Next ==
    \/ used = "db" /\ DBNext /\ UNCHANGED <<used, containersVars, listVars>>
    \/ used = "container" /\ ContainersNext /\ UNCHANGED <<used, dbVars, listVars>>
    \/ used = "list" /\ ListNext /\ UNCHANGED <<used, dbVars, containersVars>>

Spec == Init /\ [][Next]_vars
=============================================================================
