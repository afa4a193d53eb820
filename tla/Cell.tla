-------------------------------- MODULE Cell --------------------------------
(****************************************************************************)
(* What the Vault of auth/credentials.rs promises to those who use it: a    *)
(* cell that holds one record or none.  A writer, one at a time, gives up   *)
(* what the cell holds before it does anything else, and then either puts   *)
(* its own record there or leaves the cell empty.  Nothing else ever gets   *)
(* into the cell: it may lose its record, never take back an older one.     *)
(****************************************************************************)
CONSTANTS
    Clients,    \* who may write
    Values,     \* what the cell may hold
    None        \* no value

VARIABLES
    value,      \* what a read returns
    writer,     \* the client that has the cell for itself
    next        \* the record it is about to put there

vars == <<value, writer, next>>

Init == value \in Values \cup {None} /\ writer = None /\ next = None

(* The old record is given up, whatever becomes of the new one.             *)
Begin(c, v) ==
    /\ writer \in {None, c} /\ next = None
    /\ writer' = c /\ next' = v /\ value' = None

(* The new record counts; its writer may go on with the cell for itself.    *)
Commit(c) ==
    /\ writer = c /\ next # None
    /\ value' = next /\ next' = None
    /\ writer' \in {None, c}

(* The writer fails, is done, or is gone.                                   *)
Abandon(c) ==
    /\ writer = c
    /\ next' = None /\ writer' \in {None, c}
    /\ UNCHANGED value

(* A write that comes late spoils the record.                               *)
Lose ==
    /\ value' = None
    /\ UNCHANGED <<writer, next>>

Next ==
    \/ \E c \in Clients :
         Commit(c) \/ Abandon(c) \/ \E v \in Values : Begin(c, v)
    \/ Lose

Spec == Init /\ [][Next]_vars
=============================================================================
