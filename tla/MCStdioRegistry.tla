--------------------------- MODULE MCStdioRegistry ---------------------------
(* Instances of StdioRegistry for TLC.                                      *)
EXTENDS StdioRegistry

VARIABLE solo   \* history: there was never more than one caller at a time

MCInit == Init /\ solo = TRUE
MCNext == Next /\ solo' = (solo /\ Cardinality(InProgress') <= 1)
MCSpec == MCInit /\ [][MCNext]_<<vars, solo>> /\ Fairness

(* A cancelled call does not end the connection ("one cancelled call does   *)
(* not kill a reused process") where there is one caller at a time, as in   *)
(* the slots of the supervisor: with a server that only answers what it was *)
(* asked, and a writer that has taken what it can, there is room for the    *)
(* cancellation.                                                            *)
CancelKeepsConnection ==
    [][solo /\ closed' # closed /\ ~lied /\ writing # None => worker' # worker]_<<vars, solo>>
=============================================================================
