------------------------------- MODULE Gate -------------------------------
(****************************************************************************)
(* What the maintenance lock promises: storage/maintenance.rs as its users  *)
(* see it.  Mutations exclude removals of ripmcp, removals each other, and  *)
(* none begins while a removal is incomplete.                               *)
(****************************************************************************)
CONSTANT Procs

VARIABLES
    mutating,   \* processes that change what ripmcp keeps
    removing,   \* the one that removes ripmcp, if any
    pending     \* a removal was begun and is not complete

vars == <<mutating, removing, pending>>

Init == mutating = {} /\ removing = {} /\ pending = FALSE

Enter(p) ==
    /\ removing = {} /\ ~pending
    /\ mutating' = mutating \cup {p}
    /\ UNCHANGED <<removing, pending>>

Leave(p) ==
    /\ mutating' = mutating \ {p}
    /\ UNCHANGED <<removing, pending>>

Begin(p) ==
    /\ mutating = {} /\ removing = {}
    /\ removing' = {p}
    /\ UNCHANGED <<mutating, pending>>

Mark(p) ==
    /\ p \in removing
    /\ pending' = TRUE
    /\ UNCHANGED <<mutating, removing>>

(* Nothing is left to be removed.                                           *)
Complete(p) ==
    /\ p \in removing
    /\ pending' = FALSE
    /\ UNCHANGED <<mutating, removing>>

End(p) ==
    /\ removing' = removing \ {p}
    /\ UNCHANGED <<mutating, pending>>

Next == \E p \in Procs : Enter(p) \/ Leave(p) \/ Begin(p) \/ Mark(p) \/ Complete(p) \/ End(p)

Spec == Init /\ [][Next]_vars
=============================================================================
