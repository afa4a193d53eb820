------------------------------ MODULE MCRemote ------------------------------
(* An instance of Remote for TLC.                                            *)
EXTENDS Remote

CONSTANTS p, q, u, v

Written(url) == [endpoint |-> url, bearer |-> None, enabled |-> TRUE, disabled |-> {}]

(* In the user's file people change the endpoint, in the project's they      *)
(* write one definition that shadows the user's, or remove it.               *)
WrittenEdits ==
    [s \in Scopes |-> IF s = "user" THEN {Written(u)} ELSE {Written(v)}]

(* One process sends requests, logs in and disables a tool, the other        *)
(* changes and removes the bearer token meanwhile.                           *)
OfferedCommands ==
    [x \in Processes |-> IF x = p THEN {"call", "disable", "login"}
                         ELSE {"configure", "logout"}]
=============================================================================
