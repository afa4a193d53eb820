---------------------------- MODULE MCLifecycle ----------------------------
(* Instances of Lifecycle for TLC.                                          *)
EXTENDS Lifecycle, TLC

Symmetry == Permutations(Requests) \cup Permutations(Guards)

(* What a guard identifier or a slot held before it was released is never    *)
(* read again, so states that differ only in it are one state.               *)
GuardView(g) ==
    IF Unused(g) THEN "unused"
    ELSE <<gst[g], gkey[g], grev[g], HoldsLease(g), child[g], stray[g], orphan[g],
           closed[g] /\ ~orphan[g], container[g]>>

View ==
    <<config, approved, daemon, client, pc, job, marker, probe,
      [k \in Keys |-> IF client[k] = None THEN None ELSE revision[k]],
      [g \in Guards |-> GuardView(g)]>>
============================================================================
