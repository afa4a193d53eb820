------------------------------ MODULE MCCleanup ------------------------------
(* Instances of Cleanup for TLC: a directory with a file, a successor of    *)
(* either with the same inode, and a file nobody records.                   *)
EXTENDS Cleanup, TLC

CONSTANTS d1, d2, f1, f2, u, d, f

MCObjects == {d1, d2, f1, f2, u}
MCDirs    == {d1, d2}
MCInode   == (Root :> 0) @@ (d1 :> 1) @@ (d2 :> 1) @@ (f1 :> 2) @@ (f2 :> 2) @@ (u :> 3)
MCNames   == {d, f}
MCPaths   == {<<d>>, <<d, f>>}
MCLayout  ==
    [o \in MCObjects |-> CASE o = d1 -> [dir |-> Root, name |-> d]
                          [] o = f1 -> [dir |-> d1, name |-> f]
                          [] OTHER  -> None]
Symmetry  == Permutations(Installations)
=============================================================================
