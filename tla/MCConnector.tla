----------------------------- MODULE MCConnector -----------------------------
(* A connector of a two-entry table and a public list, shared by two tasks. *)
EXTENDS Connector

MCEndpoints == <<0, 1>>
MCPublic == [enabled |-> TRUE, deny |-> {[value |-> 8, bits |-> 1, family |-> 4]},
             own |-> {[value |-> 3, bits |-> 4, family |-> 4]}]
Table(i, p) == [index |-> i, port |-> p, family |-> 0, address |-> 0]
Asked(f, a, p) == [index |-> PublicIndex, port |-> p, family |-> f, address |-> a]
MCRequests == {Table(1, 2), Asked(4, 9, 1)}
==============================================================================
