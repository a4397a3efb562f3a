----------------------------- MODULE Handshake -----------------------------
(***************************************************************************)
(* What the controller and the agent promise each other about ONE          *)
(* PodIOLimit (SPEC.md D8, D9), with nothing of how they keep it: no       *)
(* caches, no queues, no conflicts, no retries.                            *)
(*                                                                         *)
(* The agent's side: the record of owned devices grows only before the     *)
(* deletion mark is set.  The controller's side: the object goes only when *)
(* it is marked, and its record is empty or its pod is over.  Agent and    *)
(* PodController each implement this specification; each stands in the     *)
(* other one as the environment that keeps its side.                       *)
(***************************************************************************)

VARIABLES
    exists,  \* the API server stores the object
    del,     \* it has a deletion timestamp
    owned,   \* the devices in status.devices
    live     \* the pod may still have a cgroup

vars == <<exists, del, owned, live>>

Init == exists = FALSE /\ del = FALSE /\ owned = {} /\ live = TRUE

\* The controller creates the object, with an empty record.
Create ==
    /\ ~exists /\ exists' = TRUE
    /\ del' = FALSE /\ owned' = {} /\ UNCHANGED live

\* The agent changes the record before the deletion ...
Record ==
    /\ exists /\ ~del /\ owned' # owned
    /\ UNCHANGED <<exists, del, live>>

\* ... and only strikes devices from it afterwards.
Release ==
    /\ exists /\ del /\ owned' \subseteq owned
    /\ UNCHANGED <<exists, del, live>>

Delete ==
    /\ exists /\ ~del /\ del' = TRUE
    /\ UNCHANGED <<exists, owned, live>>

\* The finalizer goes, and with it the object.
Remove ==
    /\ exists /\ del
    /\ owned = {} \/ ~live
    /\ exists' = FALSE /\ del' = FALSE /\ owned' = {}
    /\ UNCHANGED live

PodEnds ==
    /\ live /\ live' = FALSE
    /\ UNCHANGED <<exists, del, owned>>

Next == Create \/ Record \/ Release \/ Delete \/ Remove \/ PodEnds

Spec == Init /\ [][Next]_vars
=============================================================================
