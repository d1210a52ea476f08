----------------------------- MODULE MCCatchup -----------------------------
(* Instances of Catchup for TLC.                                           *)
EXTENDS Catchup, TLC

Symmetry == Permutations(Honest)

Limit(open, refresh, grow, crash, io, hush) ==
    [l \in Limits |-> CASE l = "open" -> open [] l = "refresh" -> refresh
                        [] l = "grow" -> grow [] l = "crash" -> crash [] l = "io" -> io
                        [] l = "quiet" -> hush
                        [] l = "failed" -> 0]

Cache(mt) == [tree |-> mt, torn |-> FALSE]
Forked(size) == Cache(Tree(size, "fork"))

\* A faulty node claims a longer ledger of its own, tells an old state, or tells the newest
\* one without a proof.
Lies == {[to |-> Tree(MaxSize, "fork"), from |-> NoTree], [to |-> Good(GenesisSize), from |-> NoTree],
         [to |-> Good(MaxSize), from |-> NoTree]}
NoLies == {}

\* All honest nodes have the same ledger; or one of them lags behind.
Uniform == {[n \in Honest |-> MaxSize]}
Spread == {l \in [Honest -> {MaxSize - 1, MaxSize}] : Cardinality({n \in Honest : l[n] < MaxSize}) = 1}
Short == {[n \in Honest |-> MaxSize - 1]}

GoodCaches == {NoFile, Cache(Good(2)), Cache(Good(MaxSize))}
ForkedCaches == {Forked(2), Forked(MaxSize)}
TornCaches == {[tree |-> Good(2), torn |-> TRUE], Cache(Good(0))}
AnyCache == GoodCaches \cup ForkedCaches \cup TornCaches

OpenCrashOpen == Limit(2, 0, 0, 1, 0, 0)
OneOpenIo == Limit(1, 0, 0, 0, 1, 1)
OneRefresh == Limit(1, 1, 0, 0, 0, 0)
OpenAndRefresh == Limit(1, 1, 4, 0, 0, 0)

From(ledgers, caches, nodes, limit) ==
    [ledger : ledgers, file : caches, timely : {nodes}, left : {limit}]
\* Any cache, a lagging node, silent nodes and a crash; a good cache and timely nodes
\* that agree; or an open and a refresh with a lagging node.
StartAny ==
    From({CHOOSE l \in Spread : TRUE}, AnyCache, {}, OpenCrashOpen)
    \cup From(Uniform, GoodCaches, Honest, OneOpenIo)
    \cup From({CHOOSE l \in Spread : TRUE}, {NoFile}, {}, OneRefresh)
StartRefresh == From(Short, GoodCaches, {}, OpenAndRefresh)
StartStale == From(Short, {NoFile}, {}, OpenAndRefresh)
=============================================================================
