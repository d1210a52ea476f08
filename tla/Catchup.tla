------------------------------ MODULE Catchup ------------------------------
(***************************************************************************)
(* Catching up with the pool ledger when a pool is opened or refreshed:    *)
(* the catch-up states of PoolSM (pool.rs) and of the request handler      *)
(* (request_handler.rs), the vote count of catchup.rs, and the transaction *)
(* cache on disk, stored.btxn (merkle_tree_factory.rs).                    *)
(*                                                                         *)
(* A Merkle tree is abstracted to its size and to whether it is a prefix   *)
(* of the pool's ledger ("good"); trees of one size and kind have the same *)
(* root.  The genesis transactions are one unit, written to the cache as   *)
(* a whole.  The connections (Networker) are abstracted to the messages in *)
(* flight and the deadlines that are armed; time is abstracted to a choice *)
(* of the deadline that expires next.  A faulty node sends any number of   *)
(* answers, asked or not.                                                  *)
(***************************************************************************)
EXTENDS PoolQuorum, Sequences, Functions

CONSTANTS
    MaxSize,        \* largest ledger
    Starts,         \* initial ledgers of the honest nodes, contents of stored.btxn,
                    \* timely nodes, and bounds on openings, refreshes,
                    \* transactions, crashes and I/O errors
    FaultyVotes,    \* what a faulty node may answer to a LEDGER_STATUS
    BlankLine       \* the genesis file has an empty line

GenesisSize == 1
Sizes == GenesisSize .. MaxSize
Tree(size, kind) == [size |-> size, kind |-> kind]
Good(size) == Tree(size, "good")
NoTree == Tree(0, "none")
\* "invalid": a tree build_node_state cannot decode.  Appending a reply to a
\* tree it was not made for may more than double the tree.
Trees == {NoTree} \cup [size : 0 .. 2 * MaxSize, kind : {"good", "fork", "invalid"}]
NoFile == [tree |-> NoTree, torn |-> FALSE]
TimeoutVote == [to |-> NoTree, from |-> NoTree]
NoNode == "no node"     \* the alias "" of an idle poll, Timeout("", "")
\* What is bounded, and the writes that have failed.
Limits == {"open", "refresh", "grow", "crash", "io", "quiet", "failed"}

ASSUME CatchupAssumption ==
    /\ MaxSize \in Nat /\ MaxSize > GenesisSize
    /\ Starts \subseteq [ledger : [Honest -> Sizes], file : [tree : Trees, torn : BOOLEAN],
                        timely : SUBSET Honest, left : [Limits -> Nat]]
    /\ BlankLine \in BOOLEAN

VARIABLES
    ledger,     \* honest node -> size of its pool ledger
    file,       \* stored.btxn; torn: it ends within a record
    state,      \* state of PoolSM; "Panicked" once the worker thread panicked
    tree,       \* merkle_tree of the request handler, or of the last Synced
    target,     \* target_mt_root and target_mt_size of CatchupSingle
    replies,    \* votes of CatchupConsensus: pairs of vote and node alias
    lost,       \* history: the first round failed, or dropped the cache, though it counted
                \* no node twice
    asked,      \* LEDGER_STATUS messages the honest nodes have not answered
    fetching,   \* CATCHUP_REQ messages the honest nodes have not answered
    order,      \* nodes in the order in which CATCHUP_REQ is (re)sent
    deadlines,  \* armed timeouts: pairs of request and node
    reused,     \* the networker has connections of an earlier round
    timely,     \* nodes that answer before the deadlines expire
    quiet,      \* the faulty nodes send nothing any more
    left        \* what remains of the bounds; how many writes have failed

world == <<ledger, timely, quiet>>
vars == <<ledger, file, state, tree, target, replies, lost, asked, fetching, order, deadlines, reused,
          timely, quiet, left>>

Requests == [node : Nodes, tree : Trees, target : Trees]

\* The types; the connections await nothing once the pool is closed.
TypeOK ==
    /\ ledger \in [Honest -> Sizes]
    /\ file \in [tree : Trees, torn : BOOLEAN]
    /\ state \in {"Closed", "GettingCatchupTarget", "SyncCatchup", "Active", "Terminated",
                  "Panicked"}
    /\ tree \in Trees /\ target \in Trees
    /\ replies \subseteq [to : Trees, from : Trees] \X (Nodes \cup {NoNode})
    /\ asked \subseteq Requests /\ fetching \subseteq Requests
    /\ order \in Seq(Nodes)
    /\ deadlines \subseteq Requests
    /\ timely \subseteq Honest /\ left \in [Limits -> Nat]
    /\ {lost, reused, quiet} \subseteq BOOLEAN
    /\ state = "Closed" => asked \cup fetching \cup deadlines = {}

Init ==
    /\ \E s \in Starts : ledger = s.ledger /\ file = s.file
                       /\ timely = s.timely /\ left = s.left
    /\ state = "Closed" /\ tree = NoTree /\ target = NoTree
    /\ replies = {} /\ lost = FALSE /\ asked = {} /\ fetching = {} /\ order = <<>> /\ deadlines = {}
    /\ reused = FALSE /\ quiet = (Faulty = {})

Spend(limit) == left[limit] > 0 /\ left' = [left EXCEPT ![limit] = @ - 1]

FailedWrite == left["io"] > 0 /\ left' = [left EXCEPT !["io"] = @ - 1, !["failed"] = @ + 1]

-----------------------------------------------------------------------------
(* The cache file.                                                         *)

Exists(fl) == fl # NoFile

\* merkle_tree_factory::create: from the cache, otherwise from the genesis file.
create(fl) == IF Exists(fl) THEN fl.tree ELSE Good(GenesisSize)

\* _dump_genesis_to_stored: _genesis_to_binary keeps an empty line as an empty
\* transaction, _from_genesis skips it.
DumpedGenesis ==
    IF BlankLine THEN Tree(GenesisSize + 1, "invalid") ELSE Good(GenesisSize)

\* Mutant: the cache of a pool caught up for the first time starts empty.
StoredNoGenesis(fl) == IF Exists(fl) THEN fl ELSE [tree |-> Good(0), torn |-> FALSE]

\* dump_new_txns before it writes the new transactions.
Stored(fl) == IF Exists(fl) THEN fl ELSE [tree |-> DumpedGenesis, torn |-> FALSE]

\* count transactions that follow a tree of size base, appended to mt.
Appended(mt, base, count, kind) ==
    Tree(mt.size + count,
         IF count = 0 \/ mt.kind = "invalid" \/ (mt.kind = kind /\ mt.size = base)
         THEN mt.kind ELSE "fork")

\* The file with count of the transactions of a reply written.  Behind a torn
\* record every later one is read from the wrong place.
Written(fl, base, count, kind, torn) ==
    [tree |-> Appended(Stored(fl).tree, base, count, kind), torn |-> torn \/ fl.torn]

-----------------------------------------------------------------------------
(* The vote count of catchup.rs.                                           *)

\* Mutant: the hashes are not compared.
ProofUnchecked(mt, proof, to) == TRUE

\* MerkleTree::consistency_proof; a bigger tree is an assertion, see Panics.
consistency_proof(mt, proof, to) ==
    \/ mt.size = 0
    \/ mt = to
    \/ mt.size < to.size /\ proof = mt /\ mt.kind = to.kind

Panics(mt, to) == mt.size > to.size

\* _try_to_catch_up on a vote.
try_to_catch_up(vote, mt) ==
    IF vote.to = mt THEN "NotNeeded"
    ELSE IF /\ vote.to.size > mt.size
            /\ vote.from = NoTree \/ consistency_proof(mt, vote.from, vote.to)
         THEN "ShouldBeStarted"
         ELSE "Err"

Votes(votes, v) == Cardinality({x \in votes : x[1] = v})

\* The nodes in a tree, and their number: none before the genesis transactions.
NodesOf(mt) == IF mt.size = 0 THEN {} ELSE Nodes
NodeCnt(mt) == Cardinality(NodesOf(mt))
F(mt) == get_f(NodeCnt(mt))

\* What a count of votes leads to: its type, the tree it leaves in the handler,
\* and whether it dropped the cache.
Result(type, mt, dropped) == [type |-> type, tree |-> mt, dropped |-> dropped]

\* _try_to_restart_catch_up: only if there is a cache to drop.
Restarted(mt) ==
    IF Exists(file) THEN Result("Restart", Good(GenesisSize), TRUE) ELSE Result("Err", mt, FALSE)

\* Mutant: the handler waits for more votes whatever it has.
ReachableAlways(votes, cnt, mt) == TRUE

\* Mutant: the answer must be able to get the votes of all nodes.
ReachableByAll(votes, cnt, mt) == ~(cnt + (NodeCnt(mt) - Cardinality(votes)) < NodeCnt(mt))

\* is_consensus_not_reachable, for the votes of the most popular answer.
ConsensusReachable(votes, cnt, mt) ==
    ~(cnt + (NodeCnt(mt) - Cardinality(votes)) < NodeCnt(mt) - F(mt))

\* _if_consensus_reachable: node_cnt - reps_cnt is a subtraction of usize.
if_consensus_reachable(votes, cnt, mt) ==
    IF Cardinality(votes) > NodeCnt(mt) THEN Result("Underflow", mt, FALSE)
    ELSE IF ConsensusReachable(votes, cnt, mt) THEN Result("InProgress", mt, FALSE)
    ELSE Restarted(mt)

\* f + 1 equal votes; with a cache that does not fit them, again from genesis.
Agreed(vote, mt) ==
    LET first == try_to_catch_up(vote, mt) IN
    IF first # "Err" \/ ~Exists(file)
    THEN Result(first, mt, FALSE)
    ELSE Result(try_to_catch_up(vote, Good(GenesisSize)), Good(GenesisSize), TRUE)

\* Mutant: one vote fewer decides.
DecidesOneFewer(cnt, mt) == cnt = F(mt)

\* Votes that decide: f + 1 of them.
Decides(cnt, mt) == cnt = F(mt) + 1

\* check_nodes_responses_on_status, when v is the most popular vote (max_by_key
\* over a HashMap: any of the most popular ones) other than the timeouts.
check_nodes_responses_on_status(votes, v, mt) ==
    LET cnt == Votes(votes, v) IN
    IF v # TimeoutVote /\ Decides(cnt, mt) THEN Agreed(v, mt)
    ELSE IF v = TimeoutVote /\ cnt = NodeCnt(mt) - F(mt) THEN Restarted(mt)
    ELSE if_consensus_reachable(votes, cnt, mt)

MostPopular(votes) ==
    LET real == {x[1] : x \in votes} \ {TimeoutVote} IN
    IF real = {} THEN {TimeoutVote}
    ELSE {v \in real : \A w \in real : Votes(votes, v) >= Votes(votes, w)}

-----------------------------------------------------------------------------
(* Requests to the nodes.                                                  *)

StatusRequests(mt, nodes) == [node : NodesOf(mt) \cap nodes, tree : {mt}, target : {NoTree}]

\* A request handler is started and sends LEDGER_STATUS to all nodes.
Ask(mt, sent, armed) ==
    /\ state' = "GettingCatchupTarget" /\ tree' = mt /\ replies' = {}
    /\ asked' = sent \cup StatusRequests(mt, Honest)
    /\ deadlines' = armed \cup StatusRequests(mt, Nodes)

CatchupRequest(n, mt, to) == [node |-> n, tree |-> mt, target |-> to]

\* The same as a message to an honest node; a faulty one needs none to answer.
Message(request) == {request} \cap [node : Honest, tree : {request.tree}, target : {request.target}]

\* CleanTimeout(req_id, None): the deadlines of a request at all nodes.
CleanAll(armed, mt, to) == {d \in armed : ~(d.tree = mt /\ d.target = to)}

\* Answers, and deadlines of a round that is over, that only a later refresh could
\* count.  (Until then such a deadline is at most one more idle poll.)
Late(sent) == IF left["refresh"] = 0 THEN {} ELSE sent

\* CatchupReq from the start state: SendOneRequest, in a random order.
Fetch(mt, to, armed) ==
    \E nodes \in Bijection(1 .. NodeCnt(mt), NodesOf(mt)) :
        /\ state' = "SyncCatchup" /\ tree' = mt /\ target' = to /\ replies' = {}
        /\ order' = nodes
        /\ fetching' = fetching \cup Message(CatchupRequest(Head(nodes), mt, to))
        /\ deadlines' = Late(armed) \cup {CatchupRequest(Head(nodes), mt, to)}

\* Mutant: the request is resent to the same node.
ResendSame(d, sent) ==
    LET next == CatchupRequest(Head(order), tree, target)
    IN  /\ fetching' = sent \cup Message(next)
        /\ deadlines' = (deadlines \cup {next}) \ {d}
        /\ UNCHANGED order

\* Resend(req_id), then CleanTimeout(request, node) of the deadline given.
Resend(d, sent) ==
    LET nodes == Append(Tail(order), Head(order))
        next == CatchupRequest(Head(nodes), tree, target)
    IN  /\ order' = nodes
        /\ fetching' = sent \cup Message(next)
        /\ deadlines' = (deadlines \cup {next}) \ {d}

\* The pool's networker is dropped, with its sockets.
Disconnect ==
    /\ asked' = {} /\ fetching' = {} /\ deadlines' = {}
    /\ replies' = {} /\ order' = <<>> /\ tree' = NoTree /\ target' = NoTree
    /\ reused' = FALSE /\ lost' = FALSE

\* Catch-up is over, with the tree it ended with.
End(st, mt, armed) ==
    /\ state' = st /\ tree' = mt /\ target' = NoTree
    /\ replies' = {} /\ order' = <<>> /\ deadlines' = Late(armed)

-----------------------------------------------------------------------------
(* The pool state machine.                                                 *)

\* _get_request_handler_with_ledger_status_sent: a cache with a torn record is an
\* error, one that is not a list of node transactions is dropped.
StartCatchup ==
    /\ file' = IF ~file.torn /\ file.tree.kind = "invalid" THEN NoFile ELSE file
    /\ IF file.torn
       THEN End("Terminated", NoTree, deadlines) /\ UNCHANGED asked
       ELSE Ask(create(file'), asked, deadlines) /\ UNCHANGED <<target, order>>
    /\ UNCHANGED <<fetching, lost, world>>

Open == state = "Closed" /\ Spend("open") /\ StartCatchup /\ UNCHANGED reused

Refresh == state \in {"Active", "Terminated"} /\ Spend("refresh") /\ StartCatchup /\ reused' = TRUE

Close ==
    /\ state \notin {"Closed", "Panicked"}
    /\ state' = "Closed" /\ Disconnect
    /\ UNCHANGED <<file, left, world>>

\* A node was counted for two different votes, or an idle poll was counted.
CountedTwice(votes) ==
    \E x, y \in votes : (x # y /\ x[2] = y[2]) \/ x[2] = NoNode

\* What PoolSM does with the result r of a count of votes, the target being to; d
\* holds the req_id and the node of the event, sent what is still in flight.
Conclude(r, to, votes, d, sent) ==
    LET cleaned == CleanAll(deadlines, d.tree, d.target)
        failed == lost \/ (~reused /\ (r.dropped \/ r.type = "Err") /\ ~CountedTwice(votes))
    IN
    \* An underflow wraps around; without nodes the sum is then 0, which is enough.
    \/ /\ r.type \in {"InProgress", "Underflow"}
       /\ replies' = votes /\ deadlines' = deadlines \ {d} /\ asked' = sent
       /\ UNCHANGED <<state, tree, target, fetching, order, lost, reused>>
    \* A build with overflow checks.
    \/ /\ r.type = "Underflow"
       /\ state' = "Panicked" /\ Disconnect
    \/ /\ r.type = "Restart"
       /\ Ask(r.tree, sent, cleaned) /\ lost' = failed /\ reused' = TRUE
       /\ UNCHANGED <<target, fetching, order>>
    \/ /\ r.type = "NotNeeded"
       /\ End("Active", r.tree, cleaned) /\ asked' = Late(sent) /\ lost' = failed
       /\ UNCHANGED <<fetching, reused>>
    \/ /\ r.type = "ShouldBeStarted"
       /\ Fetch(r.tree, to, cleaned) /\ asked' = Late(sent) /\ lost' = failed
       /\ UNCHANGED reused
    \/ /\ r.type = "Err"
       /\ End("Terminated", NoTree, cleaned) /\ asked' = Late(sent) /\ lost' = failed
       /\ UNCHANGED <<fetching, reused>>

\* _catchup_target_handle_consensus_state.  A node is counted once for each different
\* answer it gives, and once more for a timeout.
CountVote(vote, d, sent) ==
    LET votes == replies \cup {<<vote, d.node>>} IN
    /\ state = "GettingCatchupTarget"
    /\ \E v \in MostPopular(votes) :
          LET r == check_nodes_responses_on_status(votes, v, tree)
          IN  /\ file' = IF r.dropped THEN NoFile ELSE file
              /\ Conclude(r, v.to, votes, d, sent)
    /\ UNCHANGED <<left, world>>

\* The req_id of an answer's event: oldMerkleRoot of a CONSISTENCY_PROOF, the
\* node's own root of a LEDGER_STATUS.
ReqId(vote) == IF vote.from = NoTree THEN vote.to ELSE vote.from

\* The event of an answer vote of node n.
StatusEvent(n, vote) == [node |-> n, tree |-> ReqId(vote), target |-> NoTree]

\* A node proves its longer ledger to be an extension, else states its own.
HonestVote(n, mt) ==
    [to |-> Good(ledger[n]), from |-> IF mt.size < ledger[n] THEN Good(mt.size) ELSE NoTree]

\* An honest node answers a LEDGER_STATUS; ignored but in GettingCatchupTarget.
HonestStatus(n) ==
    \E r \in asked :
       LET vote == HonestVote(n, r.tree) IN
       /\ r.node = n
       /\ \/ CountVote(vote, StatusEvent(n, vote), asked \ {r})
          \/ /\ state # "GettingCatchupTarget"
             /\ asked' = asked \ {r}
             /\ UNCHANGED <<file, state, tree, target, replies, fetching, order, deadlines,
                            lost, reused, left, world>>

\* A faulty node says what it likes, as often as it likes.
FaultyStatus ==
    /\ ~quiet /\ NodesOf(tree) # {}
    /\ \E n \in Faulty, vote \in FaultyVotes : CountVote(vote, StatusEvent(n, vote), asked)

\* What a failed write or a crash may leave of count transactions of a reply: an
\* empty file, or some of the transactions, the next one torn or not.
PartlyWritten(base, count, kind) ==
    {Written(file, base, k, kind, torn) : k \in 0 .. count - 1, torn \in BOOLEAN}
    \cup (IF Exists(file) THEN {} ELSE {[tree |-> Good(0), torn |-> torn] : torn \in BOOLEAN})

\* CatchupSingle, CatchupRep: a reply to r with count transactions.  Its proof
\* leads to the target that r named.
CatchupReply(r, count, kind) ==
    LET base == r.tree.size
        mt == Appended(tree, base, count, kind)
        proof == IF r.target = target THEN Tree(base + count, kind) ELSE NoTree
        rest == fetching \ {r}
        accepted == ~Panics(mt, target) /\ consistency_proof(mt, proof, target)
    IN  /\ state = "SyncCatchup"
        /\ \/ /\ Panics(mt, target)
              /\ state' = "Panicked" /\ Disconnect
              /\ UNCHANGED <<file, left>>
           \/ /\ accepted
              /\ file' = Written(file, base, count, kind, FALSE)
              /\ End("Active", mt, CleanAll(deadlines, tree, target))
              /\ fetching' = Late(rest) /\ UNCHANGED <<asked, lost, reused, left>>
           \/ /\ accepted /\ FailedWrite
              /\ file' \in PartlyWritten(base, count, kind)
              /\ Resend(CatchupRequest(r.node, tree, target), rest)
              /\ UNCHANGED <<state, tree, target, replies, asked, lost, reused>>
           \/ /\ accepted /\ Spend("crash")
              /\ file' \in PartlyWritten(base, count, kind)
              /\ state' = "Closed" /\ Disconnect
           \/ /\ ~accepted /\ ~Panics(mt, target)
              /\ Resend(CatchupRequest(r.node, tree, target), rest)
              /\ UNCHANGED <<file, state, tree, target, replies, asked, lost, reused, left>>
        /\ UNCHANGED world

\* A node that has the transactions sends all of them.
HonestReply(n) ==
    \E r \in fetching :
        r.node = n /\ ledger[n] >= r.target.size
        /\ CatchupReply(r, r.target.size - r.tree.size, "good")

\* A faulty node sends what it likes, also more than it was asked for: nothing checks
\* the range.
FaultyReply ==
    /\ ~quiet
    /\ \E n \in Faulty, count \in 0 .. target.size - tree.size + 1, kind \in {"good", "fork"} :
          CatchupReply(CatchupRequest(n, tree, target), count, kind)

\* A reply that comes in any other state is ignored.
LateReply ==
    /\ state \in {"GettingCatchupTarget", "Active", "Terminated"}
    /\ \E r \in fetching : fetching' = fetching \ {r}
    /\ UNCHANGED <<file, state, tree, target, replies, asked, order, deadlines, lost, reused, left,
                   world>>

\* Answers of timely nodes that come before the deadline d: the answer it waits
\* for, and for LEDGER_STATUS, sent to all nodes at once, those of the round.
InTime(d) ==
    {r \in asked \cup fetching :
        r.node \in timely /\ (r = d \/ (r.tree = d.tree /\ {r.target, d.target} = {NoTree}))}

\* The request is sent again at every timeout.
FetchTimeout(d) ==
    /\ state = "SyncCatchup"
    /\ Resend(d, fetching)
    /\ UNCHANGED <<file, state, tree, target, replies, asked, lost, reused, left, world>>

\* A deadline expires.  An answer whose req_id is not the request's (a LEDGER_STATUS
\* with another root) left it armed.
Timeout(d) == InTime(d) = {} /\ (CountVote(TimeoutVote, d, asked) \/ FetchTimeout(d))

IdleEvent == [node |-> NoNode, tree |-> NoTree, target |-> NoTree]

\* A connection without deadlines comes to the end of its active time: one for a tree
\* without nodes, or one an earlier round has left.  The timeout of no node and no
\* request is a vote, or sends a fetch again.
IdleTimeout ==
    \/ (reused \/ NodesOf(tree) = {}) /\ CountVote(TimeoutVote, IdleEvent, asked)
    \/ FetchTimeout(IdleEvent)

\* The pool orders a transaction, and a node executes it.
Grow(n) ==
    /\ ledger[n] < MaxSize /\ Spend("grow")
    /\ ledger' = [ledger EXCEPT ![n] = @ + 1]
    /\ UNCHANGED <<timely, quiet, file, state, tree, target, replies, asked, fetching, order,
                   deadlines, lost, reused>>

FallQuiet ==
    /\ Spend("quiet") /\ quiet' = TRUE
    /\ UNCHANGED <<ledger, timely, file, state, tree, target, replies, asked, fetching, order,
                   deadlines, lost, reused>>

Timeouts == \E d \in deadlines : Timeout(d)

Next ==
    \/ Open \/ Refresh \/ Close
    \/ \E n \in Honest : HonestStatus(n) \/ HonestReply(n) \/ Grow(n)
    \/ FaultyStatus \/ FaultyReply \/ LateReply
    \/ Timeouts \/ IdleTimeout
    \/ FallQuiet

Spec == Init /\ [][Next]_vars

\* Timely nodes answer.  The worker's poll loop reports expired deadlines when no
\* message comes: once the faulty nodes are quiet, for honest ones only answer.
FairSpec ==
    /\ Spec
    /\ WF_vars(quiet /\ Timeouts)
    /\ \A n \in Honest : /\ WF_vars(n \in timely /\ HonestStatus(n))
                        /\ WF_vars(n \in timely /\ HonestReply(n))

-----------------------------------------------------------------------------
(* Properties.                                                             *)

\* f + 1 equal votes make a target: with at most f faulty nodes it is a state of
\* the pool's ledger that an honest node has, whatever late answers and timeouts
\* of earlier rounds are counted with it.
TargetIsReal ==
    state = "SyncCatchup" => target.kind = "good" /\ \E n \in Honest : target.size <= ledger[n]

\* The tree an opened pool takes its nodes from is a prefix of the pool's ledger,
\* also after forked caches, crashes within dump_new_txns and stale replies.
ActiveIsReal ==
    state = "Active" => tree.kind = "good" /\ \E n \in Honest : tree.size <= ledger[n]

\* The tree in memory is the one the next open reads from the disk: drop_cache,
\* create and dump_new_txns keep stored.btxn in step with the handlers' tree, as
\* long as no write of dump_new_txns fails half-way.
CacheIsTree ==
    state \in {"GettingCatchupTarget", "Active"} /\ left["failed"] = 0 =>
        ~file.torn /\ create(file) = tree

\* node_cnt - reps_cnt of _if_consensus_reachable (usize) does not underflow when one
\* more vote is counted, though a node may be counted for a timeout, a stale answer and
\* several others, and an idle poll is counted too.  A cache without a transaction has
\* no nodes, and there the first idle poll makes it underflow.
NoUnderflow ==
    state = "GettingCatchupTarget" /\ NodesOf(tree) # {} => Cardinality(replies) < NodeCnt(tree)

Merkle == INSTANCE MerkleTree

\* What a tree of the model stands for: no transaction of a fork is in the ledger.
Txns(size, kind) == [i \in 1 .. size |-> IF kind = "good" THEN i ELSE -i]

\* consistency_proof above is what the algorithm of MerkleTree answers for the
\* trees append makes and a proof made for another tree of the same ledger.
AbstractionHolds ==
    \A mt, proof, to \in [size : 0 .. 2 * MaxSize, kind : {"good", "fork"}] :
        mt.size <= to.size /\ proof.size <= to.size =>
            (consistency_proof(mt, proof, to) <=>
                Merkle!consistency_proof(Merkle!Grown(Txns(mt.size, mt.kind)),
                    Merkle!TreeHash(Txns(to.size, to.kind)), to.size,
                    Merkle!ConsistencyProof(proof.size, Txns(to.size, proof.kind))))
HistoriesDecided == Merkle!ConsistencyDecides({1, 2}, 2 * MaxSize)

\* MerkleTree::append and consistency_proof decide what a catch-up relies on:
\* appending the transactions of a reply gives the root the nodes sign, and a new
\* root is accepted exactly when it continues the history of the client's tree.
ProofsDecide == state = "SyncCatchup" => AbstractionHolds /\ HistoriesDecided

\* The assertion of consistency_proof (the tree is not bigger than the target).
NoPanic == state # "Panicked"

Calm == timely = Honest /\ \A m, n \in Honest : ledger[m] = ledger[n]

\* When the honest nodes answer in time and agree, an open with a usable cache neither
\* fails nor drops the cache, unless one node was counted for two different answers or
\* an idle poll was counted: f lies are not enough to make a consensus unreachable.
RoundSucceeds == Calm => ~lost

\* With timely nodes that agree a catch-up comes to an end once the faulty nodes are
\* quiet: each round ends by votes or timeouts, and the transactions are fetched from
\* the first node that has them.  Or else a reply with more transactions than the
\* target has made the worker panic.
CatchupEnds ==
    []Calm /\ <>quiet => []<>(state \in {"Active", "Terminated", "Closed", "Panicked"})
=============================================================================
