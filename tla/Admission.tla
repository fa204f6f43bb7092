----------------------------- MODULE Admission -----------------------------
(***************************************************************************)
(* What a handle ceiling promises, whatever the code around it does: a     *)
(* handle is admitted before the backend opens it and gives its admission  *)
(* back only after the backend let go of it, and the counter follows the   *)
(* admissions.  Pools::open_files and ExecutionControl::open_files each    *)
(* implement it (see HandleLifecycle).                                     *)
(***************************************************************************)
EXTENDS Integers, FiniteSets

CONSTANTS Handles, Limit

VARIABLES count, admitted, live

vars == <<count, admitted, live>>

Init == count = 0 /\ admitted = {} /\ live = {}

Admit(h) ==
    /\ h \notin admitted
    /\ count < Limit
    /\ count' = count + 1
    /\ admitted' = admitted \cup {h}
    /\ UNCHANGED live

Open(h) ==
    /\ h \in admitted \ live
    /\ live' = live \cup {h}
    /\ UNCHANGED <<count, admitted>>

Close(h) ==
    /\ h \in live
    /\ live' = live \ {h}
    /\ UNCHANGED <<count, admitted>>

Retire(h) ==
    /\ h \in admitted \ live
    /\ count' = count - 1
    /\ admitted' = admitted \ {h}
    /\ UNCHANGED live

Next == \E h \in Handles : Admit(h) \/ Open(h) \/ Close(h) \/ Retire(h)

Spec == Init /\ [][Next]_vars
=============================================================================
