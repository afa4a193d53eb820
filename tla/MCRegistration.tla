--------------------------- MODULE MCRegistration ---------------------------
(* Instances of Registration for TLC.                                       *)
EXTENDS Registration, TLC

Symmetry == Permutations(Requests) \cup Permutations(Ids) \cup Permutations(Others)
            \cup Permutations(Packages)

(* What a request remembers and will not read again does not distinguish    *)
(* states.                                                                  *)
JobView(r) ==
    LET j == job[r] IN
    IF pc[r] = "idle" THEN None
    ELSE <<j.op, j.package, j.id, j.ok,
           IF pc[r] \in {"resolve", "prepare", "prepared", "verify"} \cup {"target", "begin"}
           THEN j.verify ELSE None,
           IF pc[r] \in {"unregister", "finish_uninstall"} THEN None ELSE j.previous,
           IF pc[r] = "approved" THEN <<j.plan, j.seen>>
           ELSE IF pc[r] \in {"uninstall", "begin_uninstall"}
                THEN <<j.plan = journal, j.seen = by>> ELSE <<j.seen = by>>,
           j.resolved>>

(* The digest of a record is read for a publication that is not finished.   *)
(* Plans are compared with the whole journal.                               *)
RecordView(i) ==
    LET record == journal[i] IN
    IF record = None \/ (\E r \in Requests : pc[r] = "approved") THEN record
    ELSE IF record.registered /\ record.kind = "install" /\ record.state # "committed"
    THEN record
    ELSE [record EXCEPT !.digest = None]

View == <<config, [i \in Ids |-> RecordView(i)], running, by, pc, [r \in Requests |-> JobView(r)]>>
=============================================================================
