----------------------------- MODULE PoolQuorum -----------------------------
(***************************************************************************)
(* The validator pool as libindy's pool client sees it: a set of nodes,    *)
(* some of which may be faulty, and the number f of faulty nodes the       *)
(* client tolerates.                                                       *)
(***************************************************************************)
EXTENDS Integers, FiniteSets

CONSTANTS
  Nodes,    \* aliases of the validator nodes of the pool ledger
  Faulty    \* the nodes that may send anything (unknown to the client)

\* The client computes f from the size of the node map only.
get_f(cnt) == IF cnt < 4 THEN 0 ELSE (cnt - 1) \div 3

N == Cardinality(Nodes)
f == get_f(N)

Honest == Nodes \ Faulty

\* A pool ledger has at least one validator.
ASSUME NodesAssumption == IsFiniteSet(Nodes) /\ Nodes # {}

\* The failure bound under which the client's f + 1 rule is designed.
ASSUME FaultyAssumption == Faulty \subseteq Nodes /\ Cardinality(Faulty) <= f
=============================================================================
