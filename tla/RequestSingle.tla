---------------------------- MODULE RequestSingle ----------------------------
(***************************************************************************)
(* One read request of the pool client: RequestSM from Start through       *)
(* Single to Finish.  A few nodes are asked; each answer or expiry that    *)
(* does not settle the request asks two more, walking round the nodes of   *)
(* the connection.  A read is settled by f + 1 equal results or by one     *)
(* result whose state proof verifies and is fresh.                         *)
(*                                                                         *)
(* The ledger entry that is read is a version number that only grows, and  *)
(* time is counted in versions.  A verified proof (its cryptography is not *)
(* modelled) shows that a result is the version signed at a given time.    *)
(* Honest nodes may lag; a faulty node says anything, and may replay a     *)
(* proof but not make one.  denied_nodes stays empty, as in                *)
(* RequestConsensus.                                                       *)
(***************************************************************************)
EXTENDS RequestConfig

VARIABLES
  state,            \* RequestState
  timestamps,       \* <<from, to>> of the request, None where it has none
  order,            \* PoolConnection.nodes: the shuffled nodes, 0-based
  cnt,              \* PoolConnection.resend: last node asked, modulo the nodes
  replies,          \* [result, node, timestamp]: the map of NodeResponse sets
  timeout_nodes,    \* nodes whose deadline expired, and that stayed silent
  timers,           \* nodes with an armed deadline (PoolConnection.timeouts)
  acks,             \* SubmitAcks sent to the command executor
  ledger            \* the current version at the pool, unknown to the client

vars == <<state, timestamps, order, cnt, replies, timeout_nodes, timers, acks, ledger>>

Bogus    == -1                      \* a result that was never on the ledger
Versions == 0 .. MaxVersion

\* A reply: what it says, when it claims to be signed, whether the proof holds, and
\* when the beginning of a revocation registry delta was signed (0 for other reads).
Messages == [result : Versions \cup {Bogus}, timestamp : Versions, left : Versions,
             proof : BOOLEAN]

TypeOK ==
  /\ state \in {"Start", "Single", "Finish"}
  /\ timestamps \in (Versions \cup {None}) \X (Versions \cup {None})
  /\ order \in Orders
  /\ cnt \in 0 .. N - 1
  /\ replies \subseteq [result : Versions \cup {Bogus}, node : Nodes, timestamp : Versions]
  /\ \A p, q \in replies : p.result = q.result /\ p.node = q.node => p = q
  /\ timeout_nodes \subseteq Nodes
  /\ timers \subseteq Nodes
  /\ ledger \in Versions

Init ==
  /\ state = "Start"
  /\ timestamps \in Periods
  /\ order \in Orders
  /\ cnt = 0
  /\ replies = {}
  /\ timeout_nodes = {}
  /\ timers = {}
  /\ acks = << >>
  /\ ledger = 0
-----------------------------------------------------------------------------
FreshnessIgnored(from, to, left_last_write_time, last_write_time) == TRUE

\* A missing bound of the requested period means now.
check_freshness(from, to, left_last_write_time, last_write_time) ==
  LET cur_time == ledger
  IN /\ from # None => from <= Threshold + left_last_write_time
     /\ (IF to # None THEN to ELSE cur_time) <= Threshold + last_write_time

check_state_proof(m) ==
  m.proof /\ check_freshness(timestamps[1], timestamps[2], m.left, m.timestamp)

QuorumOffByOne(k) == k >= f

Quorum(k) == k > f

\* The k-th node after the last one asked (Resend, cnt % nodes.len()).
Ahead(k) == order[(cnt + k) % N]

FinishSilent(ack) ==
  /\ timers' = {}
  /\ state' = "Finish"
  /\ UNCHANGED <<cnt, acks>>

FinishWith(ack) ==
  /\ acks' = Append(acks, ack)
  /\ timers' = {}
  /\ state' = "Finish"
  /\ UNCHANGED cnt

is_consensus_reachable(rs, ts) == Cardinality(ts) + Cardinality(rs) < N

\* Two Resends arm the next two nodes, then the deadline of n is cleaned, also
\* when n itself has just been asked again.
Resend(n) == (timers \cup {Ahead(1), Ahead(2)}) \ {n}

try_to_continue(n, rs, ts) ==
  \/ /\ is_consensus_reachable(rs, ts)
     /\ timers' = Resend(n)
     /\ cnt' = (cnt + 2) % N
     /\ UNCHANGED <<state, acks>>
  \/ /\ ~is_consensus_reachable(rs, ts)
     /\ FinishWith([code |-> "PoolTimeout"])
-----------------------------------------------------------------------------
\* CustomSingleRequest: SendOneRequest to the first node, then Resends.
CustomSingleRequest ==
  /\ state = "Start"
  /\ state' = "Single"
  /\ cnt' = (number_read_nodes - 1) % N
  /\ timers' = {order[k % N] : k \in 0 .. number_read_nodes - 1}
  /\ UNCHANGED <<timestamps, order, replies, timeout_nodes, acks, ledger>>

\* What node n can send; only the answer to a period has a signed beginning.
CanSend(n, m) ==
  /\ timestamps[1] = None => m.left = 0
  /\ m.proof => m.result = m.timestamp /\ m.result <= ledger /\ m.left <= ledger
  /\ n \in Honest => m.result = m.timestamp /\ m.result <= ledger

\* A node that answers after its deadline is no longer counted as silent.
NotTimedOut(n) == timeout_nodes \ {n}

\* NodeResponses are equal when their nodes are: of two answers of one node with
\* one result, the set keeps the first.
Insert(n, m) ==
  IF \E p \in replies : p.result = m.result /\ p.node = n THEN replies
  ELSE replies \cup {[result |-> m.result, node |-> n, timestamp |-> m.timestamp]}

\* Node n's REPLY, REQNACK or REJECT arrives: message m.
Reply(n, m) ==
  LET rs    == Insert(n, m)
      votes == Cardinality({p \in rs : p.result = m.result})
      ts    == NotTimedOut(n)
  IN /\ state = "Single"
     /\ CanSend(n, m)
     /\ replies' = rs
     /\ timeout_nodes' = ts
     /\ \/ /\ Quorum(votes) \/ check_state_proof(m)
           /\ FinishWith([code |-> "Ok", result |-> m.result, at |-> ledger,
                          by |-> IF Quorum(votes) THEN "quorum" ELSE "proof"])
        \/ /\ ~Quorum(votes) /\ ~check_state_proof(m)
           /\ try_to_continue(n, rs, ts)
     /\ UNCHANGED <<timestamps, order, ledger>>

Timeout(n) ==
  LET ts == timeout_nodes \cup {n}
  IN /\ state = "Single"
     /\ n \in timers
     /\ timeout_nodes' = ts
     /\ try_to_continue(n, replies, ts)
     /\ UNCHANGED <<timestamps, order, replies, ledger>>

Terminate ==
  /\ state = "Single"
  /\ FinishWith([code |-> "PoolTerminated"])
  /\ UNCHANGED <<timestamps, order, replies, timeout_nodes, ledger>>

\* The pool commits a write to the entry.
Commit ==
  /\ ledger < MaxVersion
  /\ ledger' = ledger + 1
  /\ UNCHANGED <<state, timestamps, order, cnt, replies, timeout_nodes, timers, acks>>

Next ==
  \/ CustomSingleRequest
  \/ \E n \in Nodes, m \in Messages : Reply(n, m)
  \/ \E n \in Nodes : Timeout(n)
  \/ Terminate
  \/ Commit

Spec == Init /\ [][Next]_vars
-----------------------------------------------------------------------------
Answers == {acks[i] : i \in DOMAIN acks}

\* What a read returns was on the ledger when it was returned: a quorum holds an
\* honest node, and a proof cannot be made up.
ReadIsReal == \A a \in Answers : a.code = "Ok" => a.result \in 0 .. a.at

\* The time the value was asked for: the end of the period, or now.
WantedAt(now) == IF timestamps[2] # None THEN timestamps[2] ELSE now

\* A value returned on the word of one node is older than the time it was asked
\* for by no more than the freshness threshold; an older one was reported by an
\* honest node.
ReadIsFresh ==
  \A a \in Answers :
     a.code = "Ok" =>
        \/ a.result + Threshold >= WantedAt(a.at)
        \/ \E p \in replies : p.node \in Honest /\ p.result = a.result

\* A pending read is never stranded: although the deadline of a node is cleaned
\* right after the node may have been asked again, some deadline stays armed.
PendingHasTimer == state = "Single" => timers # {}

\* The handler PoolSM relies on, which the request implements: one SubmitAck, sent
\* when the request finishes, and no step after that.
Handler == INSTANCE RequestHandlerSpec WITH
  status <- IF state = "Single" THEN "Pending" ELSE state,
  sent <- Len(acks), silent <- FALSE
=============================================================================
