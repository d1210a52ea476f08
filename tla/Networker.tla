----------------------------- MODULE Networker -----------------------------
(***************************************************************************)
(* The networker of a pool: connections that are shared by requests, the   *)
(* deadlines they carry and the timeout events that PoolThread makes of    *)
(* them (services/pool/networker.rs, _poll in services/pool/pool.rs), from *)
(* the opening of the pool on.                                             *)
(*                                                                         *)
(* The request handlers above are reduced to the networker events they     *)
(* send and the order they send them in.  counted holds the nodes whose    *)
(* reply or timeout a handler has counted; a handler goes on only while a  *)
(* node is left.  A write request or an action on all nodes is "all", a    *)
(* read is "one".  An open or a refresh sends a status round, whose id is  *)
(* the root of the client's tree, and maybe a "fetch" of transactions.     *)
(* The ids of the other requests are unique and grow.                      *)
(*                                                                         *)
(* Time: a deadline is the time left until it, 0 once it has passed.  The  *)
(* earliest of several that have passed is the one that is reported; which *)
(* one that is, is left open.                                              *)
(***************************************************************************)
EXTENDS Integers, FiniteSets, Sequences, Functions, FiniteSetsExt

CONSTANTS
    Reqs,               \* request ids, numbers
    Roots,              \* roots of the trees the client may have, the status ids
    FirstRoot,          \* the one it has when the pool is opened
    NodesOf,            \* the nodes each tree names
    timeout,            \* of a request, in units of time
    extended_timeout,   \* of a status round, and after a REQACK
    active_timeout,     \* how long a connection takes new requests
    conn_limit,         \* requests per connection
    Bounds              \* bounds: how many requests and status rounds there are

ASSUME NetworkerAssumption ==
    /\ {timeout, extended_timeout, active_timeout, conn_limit} \subseteq Nat \ {0}
    /\ Reqs \subseteq Nat /\ IsFiniteSet(Reqs) /\ IsFiniteSet(Roots) /\ Reqs \cap Roots = {}
    /\ FirstRoot \in Roots /\ Bounds \subseteq [reqs : Nat, rounds : Nat]
    /\ \A t \in Roots : IsFiniteSet(NodesOf[t]) /\ NodesOf[t] # {}

VARIABLES
    networker,          \* ZMQNetworker: nodes, pool_connections, req_id_mappings
    mode,               \* PoolState
    root,               \* of the client's tree
    status,             \* request -> what its handler does
    counted,            \* request or round -> nodes its handler has counted
    rounds,             \* status rounds so far
    silent,             \* no message of a node comes any more
    bound               \* of this behaviour, from Bounds

vars == <<networker, mode, root, status, counted, rounds, silent, bound>>

Ids == Reqs \cup Roots
Nodes == UNION {NodesOf[t] : t \in Roots}
Conns == 1 .. Max({b.reqs + b.rounds : b \in Bounds})
NoConn == 0
NoId == -1          \* an id that no request has

\* active: the time left in which the connection takes new requests; resend: the
\* position of the node a read or a fetch was sent to last.
Connection == [nodes : Seq(Nodes), active : Nat, req_cnt : Nat,
               timeouts : SUBSET [req : Ids, node : Nodes, left : Nat],
               resend : [Reqs -> Nat]]

NoConnection == [nodes |-> <<>>, active |-> 0, req_cnt |-> 0, timeouts |-> {},
                 resend |-> [r \in Reqs |-> 0]]

\* The types; a deadline is set once per request and node.
TypeOK ==
    /\ networker.nodes = NodesOf[root]
    /\ networker.pool_connections \in [Conns -> Connection]
    /\ networker.req_id_mappings \in [Ids -> Conns \cup {NoConn}]
    /\ \A c \in Conns : \A d, e \in networker.pool_connections[c].timeouts :
          d.req = e.req /\ d.node = e.node => d = e
    /\ mode \in {"Initialization", "GettingCatchupTarget", "SyncCatchup", "Active", "Terminated"}
    /\ root \in Roots
    /\ status \in [Reqs -> {"new", "all", "one", "fetch", "done", "dropped"}]
    /\ counted \in [Ids -> SUBSET Nodes]
    /\ rounds \in 0 .. bound.rounds
    /\ silent \in BOOLEAN
    /\ bound \in Bounds

Init ==
    /\ root = FirstRoot
    /\ networker = [nodes |-> NodesOf[root],
                    pool_connections |-> [c \in Conns |-> NoConnection],
                    req_id_mappings |-> [r \in Ids |-> NoConn]]
    /\ mode = "Initialization"
    /\ status = [r \in Reqs |-> "new"]
    /\ counted = [r \in Ids |-> {}]
    /\ rounds = 0
    /\ silent = FALSE
    /\ bound \in Bounds

-----------------------------------------------------------------------------
(* PoolConnection: operators on one connection pc.                         *)

Exists(pc) == pc.nodes # <<>>

is_active(pc) == pc.active > 0

\* Mutant: a connection is orphaned as soon as it is old, answers due or not.
OrphanWhenOld(pc) == ~is_active(pc)

is_orphaned(pc) == ~is_active(pc) /\ pc.timeouts = {}

\* PoolConnection::new shuffles the nodes.
Shuffled(ns) == {s \in [1 .. Cardinality(ns) -> ns] : IsInjective(s)}

NewConnection(order) == [NoConnection EXCEPT !.nodes = order, !.active = active_timeout]

\* _send_msg_to_one_node: the deadline of the request and the node is set anew.
SetDeadline(pc, r, n, left) ==
    [pc EXCEPT !.timeouts = {d \in @ : d.req # r \/ d.node # n}
                              \cup {[req |-> r, node |-> n, left |-> left]}]

SendAllRequest(pc, r, left) ==
    [pc EXCEPT !.req_cnt = @ + 1,
               !.timeouts = {d \in @ : d.req # r}
                              \cup {[req |-> r, node |-> n, left |-> left] : n \in Range(pc.nodes)}]

SendOneRequest(pc, r) ==
    SetDeadline([pc EXCEPT !.req_cnt = @ + 1, !.resend[r] = 0], r, pc.nodes[1], timeout)

\* *cnt += 1; *cnt % self.nodes.len().
SendAgain(pc, r) ==
    LET cnt == (pc.resend[r] + 1) % Len(pc.nodes)
    IN SetDeadline([pc EXCEPT !.resend[r] = cnt], r, pc.nodes[cnt + 1], timeout)

HasDeadline(pc, r, n) == \E d \in pc.timeouts : d.req = r /\ d.node = n

\* Mutant: a REQACK after the answer makes a new deadline.
ExtendAlways(pc, r, n) == SetDeadline(pc, r, n, extended_timeout)

extend_timeout(pc, r, n) ==
    IF HasDeadline(pc, r, n) THEN SetDeadline(pc, r, n, extended_timeout) ELSE pc

clean_timeout(pc, r, ns) == [pc EXCEPT !.timeouts = {d \in @ : d.req # r \/ d.node \notin ns}]

-----------------------------------------------------------------------------
(* ZMQNetworker::process_event: operators on a networker nw.               *)

Existing(nw) == {c \in Conns : Exists(nw.pool_connections[c])}

\* The connection of a request; an id the networker does not know has none.
ConnOf(nw, r) == IF r \in Ids THEN nw.req_id_mappings[r] ELSE NoConn

SetConn(nw, c, pc) == [nw EXCEPT !.pool_connections[c] = pc]

\* A new request may use connection c.
Usable(nw, c) ==
    LET pc == nw.pool_connections[c]
    IN  is_active(pc) /\ pc.req_cnt < conn_limit /\ Range(pc.nodes) = nw.nodes

NewestUsable(nw) == {c \in Existing(nw) : c = Max(Existing(nw)) /\ Usable(nw, c)}

\* Connection ids grow: a new connection comes after every other in the map.
NextConn(nw) == 1 + Max({NoConn} \cup Range(nw.req_id_mappings) \cup Existing(nw))

\* number_read_nodes is 2: a read request is sent to two nodes at once.
Sent(pc, r, kind) ==
    CASE kind = "status" -> SendAllRequest(pc, r, extended_timeout)
      [] kind = "all"    -> SendAllRequest(pc, r, timeout)
      [] kind = "one"    -> SendAgain(SendOneRequest(pc, r), r)
      [] kind = "fetch"  -> SendOneRequest(pc, r)

SentOn(nw, c, pc, r, kind) ==
    [SetConn(nw, c, Sent(pc, r, kind)) EXCEPT !.req_id_mappings[r] = c]

\* SendAllRequest or SendOneRequest: the connection the id is mapped to (if it is
\* gone, nothing is sent), else the newest one if it is usable, else a new one.
Send(nw, r, kind) ==
    LET c == ConnOf(nw, r)
    IN  IF c # NoConn
        THEN {IF c \in Existing(nw) THEN SentOn(nw, c, nw.pool_connections[c], r, kind) ELSE nw}
        ELSE IF NewestUsable(nw) # {}
        THEN {SentOn(nw, x, nw.pool_connections[x], r, kind) : x \in NewestUsable(nw)}
        ELSE {SentOn(nw, NextConn(nw), NewConnection(order), r, kind) : order \in Shuffled(nw.nodes)}

Resend(nw, r) ==
    LET c == ConnOf(nw, r)
    IN  IF c \in Existing(nw) THEN SetConn(nw, c, SendAgain(nw.pool_connections[c], r)) ELSE nw

ExtendTimeout(nw, r, n) ==
    LET c == ConnOf(nw, r)
    IN  IF c \in Existing(nw) THEN SetConn(nw, c, extend_timeout(nw.pool_connections[c], r, n)) ELSE nw

\* A connection that is neither active nor waited for is closed.
Swept(pc) == IF is_orphaned(pc) THEN NoConnection ELSE pc

\* Mutant: a reply removes the deadlines of every node of the request.
CleanEveryNode(nw, r, n) ==
    LET c == ConnOf(nw, r)
    IN  IF c \in Existing(nw)
        THEN SetConn(nw, c, Swept(clean_timeout(nw.pool_connections[c], r, Nodes))) ELSE nw

\* CleanTimeout(r, Some(n)).
CleanOne(nw, r, n) ==
    LET c == ConnOf(nw, r)
    IN  IF c \in Existing(nw)
        THEN SetConn(nw, c, Swept(clean_timeout(nw.pool_connections[c], r, {n}))) ELSE nw

\* The entry of r in resend is never read again.
Forgotten(pc, r) ==
    LET cleaned == clean_timeout(pc, r, Nodes)
    IN  IF r \in Reqs THEN [cleaned EXCEPT !.resend[r] = 0] ELSE cleaned

\* CleanTimeout(r, None).
CleanAll(nw, r) ==
    LET c == ConnOf(nw, r)
        cleaned == IF c \in Existing(nw)
                   THEN SetConn(nw, c, Swept(Forgotten(nw.pool_connections[c], r))) ELSE nw
    IN  IF r \in Ids THEN [cleaned EXCEPT !.req_id_mappings[r] = NoConn] ELSE cleaned

\* NetworkerEvent::Timeout.
SweepOrphans(nw) ==
    [nw EXCEPT !.pool_connections = [c \in Conns |-> Swept(nw.pool_connections[c])]]

NodesStateUpdated(nw, t) == [nw EXCEPT !.nodes = NodesOf[t]]

-----------------------------------------------------------------------------
(* The handlers of Active: write requests, actions and reads.              *)

Waits(r) == status[r] \in {"all", "one"}

ConnNodes(r) == Range(networker.pool_connections[ConnOf(networker, r)].nodes)

\* try_to_continue of a read is Resend, Resend, CleanTimeout(r, Some(n)).
GoesOn(r, n) ==
    IF status[r] = "all" THEN CleanOne(networker, r, n)
    ELSE CleanOne(Resend(Resend(networker, r), r), r, n)

\* Handler r counts node n, then goes on while a node is left, or finishes.
Count(r, n) ==
    /\ \/ /\ ConnNodes(r) \ (counted[r] \cup {n}) # {}
          /\ counted' = [counted EXCEPT ![r] = @ \cup {n}]
          /\ networker' = GoesOn(r, n)
          /\ UNCHANGED status
       \/ /\ networker' = CleanAll(networker, r)
          /\ counted' = [counted EXCEPT ![r] = {}]
          /\ status' = [status EXCEPT ![r] = "done"]
    /\ UNCHANGED <<mode, root, rounds, silent, bound>>

\* r is the next request id.
Fresh(r) ==
    /\ status[r] = "new" /\ \A q \in Reqs : q < r => status[q] # "new"
    /\ r <= bound.reqs

Start(r, kind) ==
    /\ mode = "Active" /\ Fresh(r)
    /\ status' = [status EXCEPT ![r] = kind]
    /\ networker' \in Send(networker, r, kind)
    /\ UNCHANGED <<mode, root, counted, rounds, silent, bound>>

\* A node of the connection replies, maybe after its deadline.
Reply(r, n) ==
    /\ ~silent /\ mode = "Active" /\ Waits(r) /\ n \in ConnNodes(r)
    /\ Count(r, n)

\* A REQACK, maybe after the deadline; there may be any number of them.
ReqACK(r, n) ==
    /\ ~silent /\ mode = "Active" /\ Waits(r) /\ n \in ConnNodes(r)
    /\ networker' = ExtendTimeout(networker, r, n)
    /\ UNCHANGED <<mode, root, status, counted, rounds, silent, bound>>

-----------------------------------------------------------------------------
(* Opening and refreshing: the status round and the fetch.                 *)

\* The handlers of Active are dropped, their deadlines are not cleaned.
Dropped == [r \in Reqs |-> IF Waits(r) THEN "dropped" ELSE status[r]]

\* A status round for tree t, sent by a networker nw that has its nodes.
Round(nw, t) ==
    /\ rounds < bound.rounds /\ rounds' = rounds + 1
    /\ mode' = "GettingCatchupTarget" /\ root' = t
    /\ networker' \in Send(NodesStateUpdated(nw, t), t, "status")
    /\ counted' = [r \in Ids |-> {}]

\* CheckCache or Refresh.
StartRound ==
    /\ mode \in {"Initialization", "Active", "Terminated"}
    /\ status' = Dropped
    /\ Round(networker, root)
    /\ UNCHANGED <<silent, bound>>

\* The cached transactions cannot be read: the handlers are dropped all the same.
StartFails ==
    /\ mode \in {"Initialization", "Active", "Terminated"}
    /\ status' = Dropped
    /\ mode' = "Terminated"
    /\ counted' = [r \in Ids |-> {}]
    /\ UNCHANGED <<networker, root, rounds, silent, bound>>

\* What a round that is decided leads to, id being the request named in the event
\* that decided it: its deadlines are the ones that are cleaned.
TargetNotFound(id) ==
    /\ networker' = CleanAll(networker, id)
    /\ mode' = "Terminated"
    /\ counted' = [counted EXCEPT ![root] = {}]
    /\ UNCHANGED <<root, status, rounds>>

Synced(id) ==
    /\ networker' = CleanAll(networker, id)
    /\ mode' = "Active"
    /\ counted' = [counted EXCEPT ![root] = {}]
    /\ UNCHANGED <<root, status, rounds>>

CatchupRestart(id) ==
    /\ \E t \in Roots \ {root} : Round(CleanAll(networker, id), t)
    /\ UNCHANGED status

CatchupTargetFound(id) ==
    /\ \E r \in Reqs :
          /\ Fresh(r)
          /\ status' = [status EXCEPT ![r] = "fetch"]
          /\ networker' \in Send(CleanAll(networker, id), r, "fetch")
    /\ mode' = "SyncCatchup"
    /\ counted' = [counted EXCEPT ![root] = {}]
    /\ UNCHANGED <<root, rounds>>

\* The round counts node n and goes on: only a deadline of request id is cleaned.
RoundGoesOn(id, n) ==
    /\ networker.nodes \ (counted[root] \cup {n}) # {}
    /\ counted' = [counted EXCEPT ![root] = @ \cup {n}]
    /\ networker' = CleanOne(networker, id, n)
    /\ UNCHANGED <<mode, root, status, rounds>>

\* LEDGER_STATUS or CONSISTENCY_PROOF.  The id in it is the node's: its own root,
\* or what it takes for the client's.
CatchupReply(n, id) ==
    /\ ~silent /\ mode = "GettingCatchupTarget" /\ n \in networker.nodes
    /\ \/ RoundGoesOn(id, n)
       \/ TargetNotFound(id) \/ Synced(id) \/ CatchupRestart(id) \/ CatchupTargetFound(id)
    /\ UNCHANGED <<silent, bound>>

Fetching(r) == mode = "SyncCatchup" /\ status[r] = "fetch"

\* CATCHUP_REP with the transactions: the client has another tree.
FetchReply(r) ==
    /\ ~silent /\ Fetching(r)
    /\ \E t \in Roots \ {root} :
          root' = t /\ networker' = NodesStateUpdated(CleanAll(networker, r), t)
    /\ mode' = "Active"
    /\ status' = [status EXCEPT ![r] = "done"]
    /\ UNCHANGED <<counted, rounds, silent, bound>>

\* CATCHUP_REP that is no good.
FetchRefused(r, n) ==
    /\ ~silent /\ Fetching(r) /\ n \in networker.nodes
    /\ networker' = CleanOne(Resend(networker, r), r, n)
    /\ UNCHANGED <<mode, root, status, counted, rounds, silent, bound>>

-----------------------------------------------------------------------------
(* PoolThread::_poll: the earliest deadline, or the end of the active time  *)
(* of an idle connection, whichever comes first.                           *)

Deadlines == UNION {networker.pool_connections[c].timeouts : c \in Conns}

Idle == {c \in Existing(networker) : networker.pool_connections[c].timeouts = {}}

\* Mutant: connections without a deadline are never reported.
NoIdleEnds == {}

IdleEnds == {networker.pool_connections[c].active : c \in Idle}

\* What a poll without messages reports.
Expired == {d \in Deadlines : d.left = 0}
IdleExpired == 0 \in IdleEnds

\* Timeout(req, node) of a request with a handler.  One without is only logged.
Timeout(d) == mode = "Active" /\ d.req \in Reqs /\ Waits(d.req) /\ Count(d.req, d.node)

\* A round counts every timeout: its own and one of another request.
CatchupTimeout(d) ==
    /\ mode = "GettingCatchupTarget"
    /\ RoundGoesOn(d.req, d.node) \/ TargetNotFound(d.req)
    /\ UNCHANGED <<silent, bound>>

\* A fetch is sent again at every timeout.
FetchTimeout(r, d) ==
    /\ Fetching(r)
    /\ networker' = CleanOne(Resend(networker, r), d.req, d.node)
    /\ UNCHANGED <<mode, root, status, counted, rounds, silent, bound>>

\* Timeout("", "") closes idle connections,
IdleTimeout ==
    /\ IdleExpired /\ mode \in {"Active", "Terminated"}
    /\ networker' = SweepOrphans(networker)
    /\ UNCHANGED <<mode, root, status, counted, rounds, silent, bound>>

\* or is one more vote of a round: the last one, or else nothing changes,
CatchupIdleTimeout ==
    /\ IdleExpired /\ mode = "GettingCatchupTarget"
    /\ TargetNotFound(NoId)
    /\ UNCHANGED <<silent, bound>>

\* or sends a fetch again.
FetchIdleTimeout(r) ==
    /\ IdleExpired /\ Fetching(r)
    /\ networker' = Resend(networker, r)
    /\ UNCHANGED <<mode, root, status, counted, rounds, silent, bound>>

Later(left) == IF left > 0 THEN left - 1 ELSE 0

\* A unit of time passes.
Tick ==
    /\ networker' = [networker EXCEPT !.pool_connections =
          [c \in Conns |-> IF c \notin Existing(networker) THEN @[c]
                           ELSE [@[c] EXCEPT !.active = Later(@),
                                             !.timeouts = {[d EXCEPT !.left = Later(@)] : d \in @}]]]
    /\ UNCHANGED <<mode, root, status, counted, rounds, silent, bound>>

FallSilent ==
    /\ ~silent /\ silent' = TRUE
    /\ UNCHANGED <<networker, mode, root, status, counted, rounds, bound>>

-----------------------------------------------------------------------------
Expire ==
    \/ IdleTimeout
    \/ \E d \in Expired : Timeout(d) \/ CatchupTimeout(d) \/ \E r \in Reqs : FetchTimeout(r, d)
    \/ \E r \in Reqs : FetchIdleTimeout(r)

Next ==
    \/ \E r \in Reqs, kind \in {"all", "one"} : Start(r, kind)
    \/ \E r \in Reqs, n \in Nodes : Reply(r, n) \/ ReqACK(r, n) \/ FetchRefused(r, n)
    \/ \E n \in Nodes, id \in Ids \cup {NoId} : CatchupReply(n, id)
    \/ \E r \in Reqs : FetchReply(r)
    \/ StartRound \/ StartFails
    \/ Expire \/ CatchupIdleTimeout
    \/ Tick \/ FallSilent

Spec == Init /\ [][Next]_vars

\* Time passes, and the pool thread polls: once no message comes, poll returns 0 and
\* what is due is reported, sooner or later.  No node is assumed to answer.
FairSpec == Spec /\ WF_vars(Tick \/ (silent /\ Expire))

-----------------------------------------------------------------------------
Live(id) == IF id \in Roots THEN mode = "GettingCatchupTarget" /\ id = root ELSE Waits(id)

\* The id of a round is still mapped to a connection that was closed: a round for
\* this tree whose mapping was not cleaned came before.
Unsent(id) ==
    id \in Roots /\ ConnOf(networker, id) \notin Existing(networker) \cup {NoConn}

\* A request or a round that waits has a connection, and a deadline on it: no other
\* request's CleanTimeout and no sweep of orphans closes the connection it uses.
\* Only a round of an id that is mapped to a closed connection has none.
LiveHasDeadline ==
    \A id \in Ids : Live(id) /\ ~Unsent(id) =>
       /\ ConnOf(networker, id) \in Existing(networker)
       /\ \E d \in networker.pool_connections[ConnOf(networker, id)].timeouts : d.req = id

\* A late REQACK does not revive a deadline: a node that a handler has counted
\* is not waited for unless a read request is sent to it again.
CountedNotAwaited ==
    \A r \in Reqs : status[r] = "all" /\ mode = "Active" =>
       \A n \in counted[r] :
          ~HasDeadline(networker.pool_connections[ConnOf(networker, r)], r, n)

\* What a poll reports again and again once it is the earliest, so that no later
\* deadline is reported: in Active or Terminated the deadline of a request without
\* a handler, in a status round the end of an idle connection.
Hiding ==
    \/ mode \in {"Active", "Terminated"} /\ \E d \in Expired : ~Live(d.req)
    \/ mode = "GettingCatchupTarget" /\ IdleExpired

\* Once the nodes are silent every request and every round ends by its deadlines,
\* unless something hides them, or the round was never sent.
RequestsEnd ==
    <>silent => <>[](Hiding \/ \A id \in Ids : Live(id) => Unsent(id))

\* Once the nodes are silent every connection is closed, after its requests have
\* ended and its active time is over, unless something hides its end, a fetch goes on or
\* a round was never sent.
ConnectionsReleased ==
    <>silent => <>[](\/ Existing(networker) = {} \/ Hiding \/ mode = "SyncCatchup"
                     \/ mode = "GettingCatchupTarget" /\ Unsent(root))
=============================================================================
