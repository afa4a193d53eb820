---------------------------- MODULE MCCredentials ----------------------------
(* Instances of Credentials for TLC.                                        *)
EXTENDS Credentials, TLC

Symmetry == Permutations(Clients) \cup Permutations(Gens) \cup Permutations(Tokens)
============================================================================
