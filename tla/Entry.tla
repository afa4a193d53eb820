------------------------------- MODULE Entry -------------------------------
(****************************************************************************)
(* What becomes of a name of a scope, as its user sees it: one installation *)
(* at a time is at it, an entry is published once or never, it is taken     *)
(* away only on behalf of a user who was shown that very one, and an        *)
(* installation that is over never comes back, whatever fails or dies.      *)
(****************************************************************************)
CONSTANT Ids    \* installations

VARIABLES
    phase,      \* installation -> what became of it
    shown       \* those whose entry users look at, or have approved to remove

vars == <<phase, shown>>

Init == phase = [i \in Ids |-> "new"] /\ shown = {}

(* The name is free: neither taken nor about to be.                         *)
Free == \A i \in Ids : phase[i] \in {"new", "over"}

(* An installation begins, and may have failed already.                     *)
Begin(i) ==
    /\ phase[i] = "new" /\ Free
    /\ \E end \in {"begun", "over"} : phase' = [phase EXCEPT ![i] = end]
    /\ shown' \subseteq shown

Publish(i) ==
    /\ phase[i] = "begun"
    /\ phase' = [phase EXCEPT ![i] = "published"]
    /\ UNCHANGED shown

(* An installation fails, or dies with whoever shares its process.          *)
Abandon(i) ==
    /\ phase[i] = "begun"
    /\ phase' = [phase EXCEPT ![i] = "over"]
    /\ shown' \subseteq shown

Withdraw(i) ==
    /\ phase[i] = "published" /\ i \in shown
    /\ phase' = [phase EXCEPT ![i] = "over"]
    /\ UNCHANGED shown

(* Users look at the entry, decide, change their minds.                     *)
Look ==
    /\ \A i \in shown' : i \in shown \/ (i \in Ids /\ phase[i] = "published")
    /\ UNCHANGED phase

Next ==
    \/ \E i \in Ids : Begin(i) \/ Publish(i) \/ Abandon(i) \/ Withdraw(i)
    \/ Look

Spec == Init /\ [][Next]_vars
=============================================================================
