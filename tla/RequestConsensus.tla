-------------------------- MODULE RequestConsensus --------------------------
(***************************************************************************)
(* One write request of the pool client: RequestSM from Start through      *)
(* Consensus to Finish.  The request goes to every node; f + 1 equal       *)
(* results answer the caller, and a request whose quorum can no longer be  *)
(* reached is refused with "Consensus is impossible".                      *)
(*                                                                         *)
(* The nodes answer when they like, more than once, or never.  A REQNACK   *)
(* or a REJECT carries no "result", so all of them are one more member of  *)
(* Results.  The networker's deadlines for this request are the set of the *)
(* nodes whose deadline is armed; a REQACK only moves a deadline and is    *)
(* not visible here.  denied_nodes stays empty: the handler parses the     *)
(* text of a message that has been parsed already, so that parse succeeds. *)
(***************************************************************************)
EXTENDS RequestConfig

VARIABLES
  state,            \* RequestState
  replies,          \* pairs <<result, node>>: the map from results to node sets
  timeout_nodes,    \* nodes whose deadline expired
  timers,           \* nodes with an armed deadline (PoolConnection.timeouts)
  acks,             \* SubmitAcks sent to the command executor
  honest_result     \* what each honest node answers, unknown to the client

vars == <<state, replies, timeout_nodes, timers, acks, honest_result>>

Ok(r)  == <<"Ok", r>>
Err(e) == <<"Err", e>>
Acks   == {Ok(r) : r \in Results} \cup {Err("PoolTimeout"), Err("PoolTerminated")}

TypeOK ==
  /\ state \in {"Start", "Consensus", "Finish"}
  /\ replies \subseteq Results \X Nodes
  /\ timeout_nodes \subseteq Nodes
  /\ timers \subseteq Nodes
  /\ acks \in Seq(Acks)
  /\ honest_result \in [Honest -> Results]

Voters(rs, r) == {n \in Nodes : <<r, n>> \in rs}
Votes(rs, r)  == Cardinality(Voters(rs, r))

Init ==
  /\ state = "Start"
  /\ replies = {}
  /\ timeout_nodes = {}
  /\ timers = {}
  /\ acks = << >>
  /\ honest_result \in [Honest -> Results]
-----------------------------------------------------------------------------
\* Mutant: one vote too few.
QuorumOffByOne(cnt) == cnt >= f

\* Enough equal results: at least one of them is an honest node's.
Quorum(cnt) == cnt > f

\* Mutant: the votes of the leading result are not counted.
ReachableNoMax(rs, ts) == N - Cardinality(rs) - Cardinality(ts) > f

\* is_consensus_reachable: could the result with most votes still win if every
\* node not yet heard of voted for it?  A number exceeds f with max_no for the
\* greatest vote iff it does so with some vote.
is_consensus_reachable(rs, ts) ==
  \E max_no \in {0} \cup {Votes(rs, r) : r \in Results} :
     max_no + N - Cardinality(rs) - Cardinality(ts) > f

\* Answer the caller, clean every deadline of the request, and finish.
FinishWith(ack) ==
  /\ acks' = Append(acks, ack)
  /\ timers' = {}
  /\ state' = "Finish"

TimedOut(n) == timeout_nodes \cup {n}

\* CleanTimeout for one node, and wait for the others.
Continue(n) ==
  /\ timers' = timers \ {n}
  /\ UNCHANGED <<state, acks>>
-----------------------------------------------------------------------------
\* CustomConsensusRequest: SendAllRequest arms one deadline per node.
CustomConsensusRequest ==
  /\ state = "Start"
  /\ state' = "Consensus"
  /\ timers' = Nodes
  /\ UNCHANGED <<replies, timeout_nodes, acks, honest_result>>

\* Node n's REPLY, REQNACK or REJECT arrives and says r.
Reply(n, r) ==
  LET rs  == replies \cup {<<r, n>>}
      cnt == Votes(rs, r)
  IN /\ state = "Consensus"
     /\ n \in Honest => r = honest_result[n]
     /\ replies' = rs
     /\ \/ Quorum(cnt) /\ FinishWith(Ok(r))
        \/ ~Quorum(cnt) /\ is_consensus_reachable(rs, timeout_nodes) /\ Continue(n)
        \/ /\ ~Quorum(cnt)
           /\ ~is_consensus_reachable(rs, timeout_nodes)
           /\ FinishWith(Err("PoolTimeout"))
     /\ UNCHANGED <<timeout_nodes, honest_result>>

\* The networker reports the expired deadline of node n.
Timeout(n) ==
  LET ts == TimedOut(n)
  IN /\ state = "Consensus"
     /\ n \in timers
     /\ timeout_nodes' = ts
     /\ \/ is_consensus_reachable(replies, ts) /\ Continue(n)
        \/ ~is_consensus_reachable(replies, ts) /\ FinishWith(Err("PoolTimeout"))
     /\ UNCHANGED <<replies, honest_result>>

\* The pool is closed: every pending request is refused; its deadlines go with
\* the connections of the pool.
Terminate ==
  /\ state = "Consensus"
  /\ FinishWith(Err("PoolTerminated"))
  /\ UNCHANGED <<replies, timeout_nodes, honest_result>>

Next ==
  \/ CustomConsensusRequest
  \/ \E n \in Nodes, r \in Results : Reply(n, r)
  \/ \E n \in Nodes : Timeout(n)
  \/ Terminate

Spec == Init /\ [][Next]_vars
-----------------------------------------------------------------------------
\* What the caller is told is what some honest node said, however the faulty
\* nodes answer and whichever nodes answer late (cnt > f in handle_event).
OkIsHonest ==
  \A r \in Results :
     (\E i \in DOMAIN acks : acks[i] = Ok(r))
        => \E n \in Honest : honest_result[n] = r

\* A pending request is never stranded: some deadline is armed, so the request
\* will be answered even if every node falls silent.  It rests on both tests of
\* the handler, because each message and each expiry disarms a deadline.
PendingHasTimer == state = "Consensus" => timers # {}

\* The caller gets exactly one SubmitAck, when the request finishes.
AnsweredOnce == Len(acks) = IF state = "Finish" THEN 1 ELSE 0

\* The unsigned subtraction in is_consensus_reachable does not wrap, whatever
\* nodes are counted both as timed out and as having answered.
NoUnderflow ==
  \E max_no \in {0} \cup {Votes(replies, r) : r \in Results} :
     Cardinality(replies) + Cardinality(timeout_nodes) <= max_no + N

Heard == {p[2] : p \in replies}

\* "Consensus is impossible" is the truth if no node is counted twice: when the
\* nodes that neither answered nor timed out all voted for one result, it would
\* still have no quorum.  A node that answers after its deadline, or gives two
\* answers, is counted twice and may end the request early.
ImpossibleIsTrue ==
  /\ Err("PoolTimeout") \in {acks[i] : i \in DOMAIN acks}
  /\ Heard \cap timeout_nodes = {}
  /\ Cardinality(replies) = Cardinality(Heard)
  => \A r \in Results :
        Votes(replies, r) + Cardinality(Nodes \ (Heard \cup timeout_nodes)) <= f

\* The handler PoolSM relies on, which the request implements: one SubmitAck, sent
\* when the request finishes, and no step after that.
Handler == INSTANCE RequestHandlerSpec WITH
  status <- IF state = "Consensus" THEN "Pending" ELSE state,
  sent <- Len(acks), silent <- FALSE
=============================================================================
