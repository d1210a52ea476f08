--------------------------- MODULE RequestConfig ---------------------------
(***************************************************************************)
(* What the requests of the pool client depend on besides the pool: the    *)
(* configuration of the pool, what the application asks for, and the       *)
(* bounds of the models.                                                   *)
(***************************************************************************)
EXTENDS PoolQuorum, Sequences, Functions

CONSTANTS
  Results,             \* what a reply to a write says, its state proof removed
  MaxVersion,          \* bound on the versions of the ledger entry that is read
  Threshold,           \* THRESHOLD: how old the signature of a read may be
  Periods,             \* <<from, to>> of the reads, None where a bound is absent
  number_read_nodes,   \* nodes a read asks at the start (PoolOpenConfig)
  Orders,              \* PoolConnection.nodes: how the nodes may be shuffled
  Unknown,             \* an alias that is not in the pool ledger
  NodeLists            \* the node lists callers pass, as sequences of aliases

None == -1   \* an absent timestamp

ASSUME ReadAssumption ==
  /\ MaxVersion \in Nat /\ Threshold \in Nat /\ number_read_nodes \in Nat \ {0}
  /\ Periods \subseteq ({None} \cup 0 .. MaxVersion) \X ({None} \cup 0 .. MaxVersion)
  /\ Orders \subseteq Bijection(0 .. N - 1, Nodes)

ASSUME ListsAssumption ==
  Unknown \notin Nodes /\ NodeLists \subseteq Seq(Nodes \cup {Unknown})
=============================================================================
