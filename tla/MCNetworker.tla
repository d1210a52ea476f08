---------------------------- MODULE MCNetworker ----------------------------
(* Small instances of Networker. *)
EXTENDS Networker, TLC

CONSTANTS n1, n2, n3
TwoReqs == 1 .. 2
TwoTrees == {11, 12}
NodesOfTrees == 11 :> {n1, n2} @@ 12 :> {n1, n3}

\* Two requests of a pool that was opened, or one beside a refresh or a restart.
ThreeSends == {[reqs |-> 2, rounds |-> 1], [reqs |-> 1, rounds |-> 2]}
=============================================================================
