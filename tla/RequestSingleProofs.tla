------------------------ MODULE RequestSingleProofs ------------------------
(***************************************************************************)
(* For every pool, every shuffle of its nodes and every behaviour of at    *)
(* most f faulty nodes: ReadIsReal, ReadIsFresh and PendingHasTimer of     *)
(* RequestSingle, and that it implements RequestHandlerSpec, fairness      *)
(* aside.                                                                  *)
(***************************************************************************)
EXTENDS RequestSingle, FiniteSetTheorems, TLAPS

\* A read ends with a result, with a refusal or with the pool.
Ok(a) ==
  /\ a.code = "Ok"
  /\ a.result \in 0 .. a.at
  /\ \/ a.result + Threshold >= WantedAt(a.at)
     \/ \E p \in replies : p.node \in Honest /\ p.result = a.result

\* What holds while the read waits.
Waiting == acks = << >> /\ timers # {}

\* The inductive invariant: an honest node's reply says what was on the ledger.
IInv ==
  /\ TypeOK
  /\ IsFiniteSet(replies)
  /\ \A p \in replies : p.node \in Honest => p.result \in 0 .. ledger
  /\ state = "Start" => acks = << >>
  /\ state = "Single" => Waiting
  /\ state = "Finish" => \E a : acks = <<a>> /\ (a.code = "Ok" => Ok(a))
-----------------------------------------------------------------------------
\* N and f are natural numbers: _get_f never exceeds the number of nodes.
LEMMA NfType == N \in Nat /\ N > 0 /\ f \in Nat /\ f < N /\ (f > 0 => N > 3)
<1>1. N \in Nat /\ N > 0
  BY NodesAssumption, FS_CardinalityType, FS_EmptySet DEF N
<1>2. QED
  BY <1>1 DEF f, get_f

\* Positions stay within the nodes: cnt % nodes.len().
LEMMA ModN ==
  ASSUME NEW k \in Nat
  PROVE  k % N \in 0 .. N - 1
BY NfType

\* In a pool of two or more nodes two consecutive Resends ask different nodes.
LEMMA ModDiffers ==
  ASSUME NEW c \in 0 .. N - 1, N > 1
  PROVE  (c + 1) % N # (c + 2) % N
<1>1. CASE c + 2 < N
  BY <1>1, NfType
<1>2. CASE c + 2 = N
  BY <1>2, NfType
<1>3. CASE c + 1 = N
  BY <1>3, NfType
<1>4. QED
  BY <1>1, <1>2, <1>3, NfType

\* The nodes of the replies that say r: the set keeps one reply of each node.
LEMMA QuorumHasHonest ==
  ASSUME NEW rs, NEW r,
         \A p \in rs : p.node \in Nodes,
         \A p, q \in rs : p.result = q.result /\ p.node = q.node => p = q,
         Quorum(Cardinality({p \in rs : p.result = r}))
  PROVE  \E p \in rs : p.result = r /\ p.node \in Honest
<1> DEFINE S == {p \in rs : p.result = r}
           g == [p \in S |-> p.node]
<1>1. SUFFICES ASSUME \A p \in S : p.node \in Faulty
               PROVE  FALSE
  BY DEF Honest
<1>2. IsFiniteSet(Faulty) /\ Cardinality(Faulty) \in Nat
  BY NodesAssumption, FaultyAssumption, FS_Subset, FS_CardinalityType
<1>3. g \in Injection(S, Faulty)
  BY <1>1 DEF Injection, IsInjective
<1>4. IsFiniteSet(S) /\ Cardinality(S) <= Cardinality(Faulty)
  BY <1>2, <1>3, FS_Injection
<1>5. Cardinality(S) \in Nat
  BY <1>4, FS_CardinalityType
<1>6. QED
  BY <1>2, <1>4, <1>5, NfType, FaultyAssumption DEF Quorum

\* A waiting read asks two more nodes, so a deadline is armed: one of the two is
\* not the node whose deadline is cleaned.
LEMMA ResendArms ==
  ASSUME TypeOK, NEW n, N > 1
  PROVE  Resend(n) # {} /\ (n \in Nodes => Resend(n) \subseteq Nodes)
<1>1. order \in Bijection(0 .. N - 1, Nodes) /\ cnt \in 0 .. N - 1
  BY ReadAssumption DEF TypeOK
<1>2. (cnt + 1) % N \in 0 .. N - 1 /\ (cnt + 2) % N \in 0 .. N - 1
  BY <1>1, ModN, NfType
<1>3. Ahead(1) # Ahead(2) /\ Ahead(1) \in Nodes /\ Ahead(2) \in Nodes
  BY <1>1, <1>2, ModDiffers DEF Ahead, Bijection, Injection, Surjection, IsInjective
<1>4. QED
  BY <1>3 DEF Resend, TypeOK
-----------------------------------------------------------------------------
\* A new read satisfies the inductive invariant.
LEMMA InitIInv == Init => IInv
<1>1. SUFFICES ASSUME Init PROVE IInv
  OBVIOUS
<1>2. /\ 0 \in Versions /\ 0 \in 0 .. N - 1
      /\ Periods \subseteq (Versions \cup {None}) \X (Versions \cup {None})
  BY ReadAssumption, NfType DEF Versions
<1>3. TypeOK
  BY <1>1, <1>2 DEF Init, TypeOK
<1>4. QED
  BY <1>1, <1>3, FS_EmptySet DEF Init, IInv

\* Sending the read arms the deadlines of the first nodes.
LEMMA StartIInv == IInv /\ CustomSingleRequest => IInv'
<1>1. SUFFICES ASSUME IInv, CustomSingleRequest PROVE IInv'
  OBVIOUS
<1>2. order \in Bijection(0 .. N - 1, Nodes)
  BY <1>1, ReadAssumption DEF IInv, TypeOK
<1>3. \A k \in 0 .. number_read_nodes - 1 : order[k % N] \in Nodes
  BY <1>2, ModN, ReadAssumption DEF Bijection, Injection
<1>4. timers' \subseteq Nodes /\ timers' # {} /\ cnt' \in 0 .. N - 1
  <2>1. number_read_nodes - 1 \in Nat /\ 0 \in 0 .. number_read_nodes - 1
    BY ReadAssumption
  <2>2. timers' = {order[k % N] : k \in 0 .. number_read_nodes - 1}
    BY <1>1 DEF CustomSingleRequest
  <2>3. cnt' \in 0 .. N - 1
    BY <1>1, <2>1, ModN DEF CustomSingleRequest
  <2>4. order[0 % N] \in timers'
    BY <2>1, <2>2
  <2>5. timers' \subseteq Nodes
    BY <1>3, <2>2
  <2>6. QED
    BY <2>3, <2>4, <2>5
<1>5. TypeOK'
  BY <1>1, <1>4 DEF IInv, TypeOK, CustomSingleRequest
<1>6. QED
  BY <1>1, <1>4, <1>5 DEF IInv, CustomSingleRequest, Waiting

\* Finishing a waiting read leaves one acknowledgement.
LEMMA FinishIInv ==
  ASSUME IInv, state = "Single", NEW a, FinishWith(a), TypeOK',
         UNCHANGED <<timestamps, ledger>>,
         IsFiniteSet(replies'),
         \A p \in replies' : p.node \in Honest => p.result \in 0 .. ledger,
         a.code = "Ok" => Ok(a)'
  PROVE  IInv'
<1>1. acks' = <<a>> /\ state' = "Finish"
  BY DEF IInv, Waiting, FinishWith
<1>2. QED
  BY <1>1 DEF IInv

\* Going on arms a deadline; in a pool of one node there is nothing to go on with.
LEMMA ContinueIInv ==
  ASSUME IInv, state = "Single", NEW n \in Nodes, NEW rs, NEW ts,
         try_to_continue(n, rs, ts), replies' = rs, timeout_nodes' = ts,
         UNCHANGED <<timestamps, order, ledger>>,
         rs \subseteq [result : Versions \cup {Bogus}, node : Nodes, timestamp : Versions],
         \A p, q \in rs : p.result = q.result /\ p.node = q.node => p = q,
         \A p \in rs : p.node \in Honest => p.result \in 0 .. ledger,
         IsFiniteSet(rs), ts \subseteq Nodes,
         is_consensus_reachable(rs, ts) => N > 1
  PROVE  IInv'
<1>1. CASE is_consensus_reachable(rs, ts)
  <2>1. /\ timers' = Resend(n) /\ cnt' = (cnt + 2) % N
        /\ state' = "Single" /\ acks' = acks
    BY <1>1 DEF try_to_continue
  <2>2. Resend(n) # {} /\ Resend(n) \subseteq Nodes
    BY <1>1, ResendArms DEF IInv
  <2>3. cnt' \in 0 .. N - 1
    BY <2>1, ModN, NfType DEF IInv, TypeOK
  <2>4. TypeOK'
    BY <2>1, <2>2, <2>3 DEF IInv, TypeOK
  <2>5. QED
    BY <2>1, <2>2, <2>4 DEF IInv, Waiting
<1>2. CASE ~is_consensus_reachable(rs, ts)
  <2>1. FinishWith([code |-> "PoolTimeout"])
    BY <1>2 DEF try_to_continue
  <2>2. TypeOK'
    BY <2>1 DEF IInv, TypeOK, FinishWith
  <2>3. QED
    BY <2>1, <2>2, FinishIInv
<1>3. QED
  BY <1>1, <1>2
\* An answer settles the read, or the read goes on.
LEMMA ReplyIInv ==
  ASSUME IInv, NEW n \in Nodes, NEW m \in Messages, Reply(n, m)
  PROVE  IInv'
<1> DEFINE rs == Insert(n, m)
           S  == {p \in rs : p.result = m.result}
           ts == NotTimedOut(n)
           Entry == [result |-> m.result, node |-> n, timestamp |-> m.timestamp]
<1>1. /\ state = "Single" /\ CanSend(n, m) /\ replies' = rs /\ timeout_nodes' = ts
      /\ UNCHANGED <<timestamps, order, ledger>>
  BY DEF Reply
<1>2. /\ m.result \in Versions \cup {Bogus} /\ m.timestamp \in Versions
      /\ ledger \in Nat /\ \A v \in Versions : v \in Nat
  BY ReadAssumption DEF Messages, IInv, TypeOK, Versions
<1>3. ts \subseteq Nodes
  BY DEF IInv, TypeOK, NotTimedOut
<1>4. /\ IsFiniteSet(rs)
      /\ rs \subseteq [result : Versions \cup {Bogus}, node : Nodes, timestamp : Versions]
      /\ \A p, q \in rs : p.result = q.result /\ p.node = q.node => p = q
      /\ \E p \in rs : p.result = m.result
  <2>1. Entry \in [result : Versions \cup {Bogus}, node : Nodes, timestamp : Versions]
    BY <1>2
  <2>2. CASE \E p \in replies : p.result = m.result /\ p.node = n
    BY <2>2 DEF IInv, TypeOK, Insert
  <2>3. CASE ~\E p \in replies : p.result = m.result /\ p.node = n
    <3>1. rs = replies \cup {Entry}
      BY <2>3 DEF Insert
    <3>2. IsFiniteSet(rs)
      BY <3>1, FS_AddElement, Zenon DEF IInv
    <3>3. Entry.result = m.result /\ Entry.node = n
      OBVIOUS
    <3>4. QED
      BY <2>1, <2>3, <3>1, <3>2, <3>3, Zenon DEF IInv, TypeOK
  <2>4. QED
    BY <2>2, <2>3
<1>5. \A p \in rs : p.node \in Honest => p.result \in 0 .. ledger
  BY <1>1, <1>2 DEF IInv, Insert, CanSend
<1>6. CASE Quorum(Cardinality(S)) \/ check_state_proof(m)
  <2> DEFINE a == [code |-> "Ok", result |-> m.result, at |-> ledger,
                   by |-> IF Quorum(Cardinality(S)) THEN "quorum" ELSE "proof"]
  <2>1. FinishWith(a)
    BY <1>6 DEF Reply
  <2>2. TypeOK'
    BY <1>1, <1>3, <1>4, <2>1, SMTT(30) DEF IInv, TypeOK, FinishWith
  <2>3. CASE Quorum(Cardinality(S))
    <3>1. PICK p \in rs : p.result = m.result /\ p.node \in Honest
      BY <1>4, <2>3, QuorumHasHonest, Zenon
    <3>2. m.result \in 0 .. ledger
      BY <1>5, <3>1
    <3>3. QED
      BY <1>1, <1>4, <1>5, <2>1, <2>2, <3>1, <3>2, FinishIInv DEF Ok
  <2>4. CASE check_state_proof(m)
    <3>1. m.result = m.timestamp /\ m.result \in 0 .. ledger
      BY <1>1, <1>2, <2>4 DEF check_state_proof, CanSend
    <3>2. WantedAt(ledger) <= Threshold + m.timestamp
      BY <2>4 DEF check_state_proof, check_freshness, WantedAt
    <3>3. WantedAt(ledger) \in Int /\ m.result \in Int /\ Threshold \in Int
      BY <1>2, ReadAssumption DEF WantedAt, IInv, TypeOK, Versions, None, Bogus
    <3>4. m.result + Threshold >= WantedAt(ledger)
      BY <3>1, <3>2, <3>3
    <3>5. WantedAt(ledger)' = WantedAt(ledger)
      BY <1>1 DEF WantedAt
    <3>6. QED
      BY <1>1, <1>4, <1>5, <2>1, <2>2, <3>1, <3>4, <3>5, FinishIInv DEF Ok
  <2>5. QED
    BY <1>6, <2>3, <2>4, SMTT(30)
<1>7. CASE ~Quorum(Cardinality(S)) /\ ~check_state_proof(m)
  <2>1. try_to_continue(n, rs, ts)
    BY <1>7 DEF Reply
  <2>2. N > 1
    <3>1. IsFiniteSet(S) /\ S # {}
      BY <1>4, FS_Subset
    <3>2. Cardinality(S) \in Nat /\ Cardinality(S) # 0
      BY <3>1, FS_CardinalityType, FS_EmptySet, SMTT(30)
    <3>3. QED
      BY <1>7, <3>2, NfType DEF Quorum
  <2>3. QED
    BY <1>1, <1>3, <1>4, <1>5, <2>1, <2>2, ContinueIInv, SMTT(30)
<1>8. QED
  BY <1>6, <1>7

\* A deadline that passes lets the read go on, or ends it.
LEMMA TimeoutIInv ==
  ASSUME IInv, NEW n \in Nodes, Timeout(n)
  PROVE  IInv'
<1> DEFINE ts == timeout_nodes \cup {n}
<1>1. /\ state = "Single" /\ timeout_nodes' = ts /\ try_to_continue(n, replies, ts)
      /\ UNCHANGED <<timestamps, order, replies, ledger>>
  BY DEF Timeout
<1>2. ts \subseteq Nodes
  BY DEF IInv, TypeOK
<1>3. is_consensus_reachable(replies, ts) => N > 1
  <2>1. IsFiniteSet(ts) /\ ts # {}
    BY <1>2, NodesAssumption, FS_Subset
  <2>2. Cardinality(ts) \in Nat /\ Cardinality(ts) # 0 /\ Cardinality(replies) \in Nat
    BY <2>1, FS_CardinalityType, FS_EmptySet DEF IInv
  <2>3. QED
    BY <2>2, NfType DEF is_consensus_reachable
<1>4. QED
  BY <1>1, <1>2, <1>3, ContinueIInv DEF IInv, TypeOK
\* Closing the pool ends a waiting read.
LEMMA TerminateIInv ==
  ASSUME IInv, Terminate
  PROVE  IInv'
<1>1. /\ state = "Single" /\ FinishWith([code |-> "PoolTerminated"])
      /\ UNCHANGED <<timestamps, order, replies, timeout_nodes, ledger>>
  BY DEF Terminate
<1>2. TypeOK'
  BY <1>1 DEF IInv, TypeOK, FinishWith
<1>3. QED
  BY <1>1, <1>2, FinishIInv DEF IInv

\* A write of the pool leaves the read alone, and old versions stay real.
LEMMA CommitIInv ==
  ASSUME IInv, Commit
  PROVE  IInv'
<1>1. ledger \in Nat /\ ledger' = ledger + 1 /\ ledger' \in Versions
  BY ReadAssumption DEF IInv, TypeOK, Versions, Commit
<1>2. UNCHANGED <<state, timestamps, order, cnt, replies, timeout_nodes, timers, acks>>
  BY DEF Commit
<1>3. TypeOK'
  BY <1>1, <1>2 DEF IInv, TypeOK
<1>4. \A p \in replies : p.node \in Honest => p.result \in 0 .. ledger'
  BY <1>1 DEF IInv
<1>5. QED
  BY <1>2, <1>3, <1>4 DEF IInv, Waiting, Ok, WantedAt

\* The invariant of a read request is inductive.
THEOREM Inductive == Spec => []IInv
<1>1. ASSUME IInv, UNCHANGED vars
      PROVE  IInv'
  BY <1>1 DEF IInv, TypeOK, Waiting, Ok, WantedAt, vars
<1>2. IInv /\ [Next]_vars => IInv'
  BY <1>1, StartIInv, ReplyIInv, TimeoutIInv, TerminateIInv, CommitIInv DEF Next
<1>3. QED
  BY InitIInv, <1>2, PTL DEF Spec

\* For every pool with at most f faulty nodes, what a read returns was on the
\* ledger.
THEOREM ReadIsRealAlways == Spec => []ReadIsReal
<1>1. IInv => ReadIsReal
  BY DEF IInv, TypeOK, Waiting, Ok, ReadIsReal, Answers
<1>2. QED
  BY Inductive, <1>1, PTL

\* A value on the word of one node is no older than the threshold allows.
THEOREM ReadIsFreshAlways == Spec => []ReadIsFresh
<1>1. IInv => ReadIsFresh
  BY DEF IInv, TypeOK, Waiting, Ok, ReadIsFresh, Answers
<1>2. QED
  BY Inductive, <1>1, PTL

\* A pending read always has an armed deadline, for every number of nodes and of
\* nodes asked at first.
THEOREM PendingHasTimerAlways == Spec => []PendingHasTimer
<1>1. IInv => PendingHasTimer
  BY DEF IInv, Waiting, PendingHasTimer
<1>2. QED
  BY Inductive, <1>1, PTL

\* A read is a request handler as PoolSM uses it: accepted, then answered by one
\* SubmitAck, and silent from then on.
THEOREM ImplementsHandlerSafely == Spec => Handler!Spec
<1>1. Init => Handler!Init
  BY DEF Init, Handler!Init
<1>2. ASSUME IInv, [Next]_vars
      PROVE  [Handler!Next]_(Handler!vars)
  <2>1. ASSUME NEW a, state = "Single", FinishWith(a)
        PROVE  Handler!Next
    <3>1. acks = << >> /\ acks' = <<a>>
      BY <1>2, <2>1 DEF IInv, Waiting, FinishWith
    <3>2. Len(acks) = 0 /\ Len(acks') = 1
      BY <3>1
    <3>3. QED
      BY <2>1, <3>2 DEF FinishWith, Handler!Next, Handler!Answer
  <2>2. ASSUME NEW n, NEW rs, NEW ts, state = "Single", try_to_continue(n, rs, ts)
        PROVE  [Handler!Next]_(Handler!vars)
    BY <2>1, <2>2 DEF try_to_continue, Handler!vars
  <2>3. CASE CustomSingleRequest
    BY <2>3, SMTT(30) DEF CustomSingleRequest, Handler!Next, Handler!Accept
  <2>4. ASSUME NEW n \in Nodes, NEW m \in Messages, Reply(n, m)
        PROVE  [Handler!Next]_(Handler!vars)
    BY <2>1, <2>2, <2>4 DEF Reply
  <2>5. ASSUME NEW n \in Nodes, Timeout(n)
        PROVE  [Handler!Next]_(Handler!vars)
    BY <2>2, <2>5 DEF Timeout
  <2>6. CASE Terminate
    BY <2>1, <2>6 DEF Terminate
  <2>7. CASE Commit
    BY <2>7 DEF Commit, Handler!vars
  <2>8. CASE UNCHANGED vars
    BY <2>8 DEF vars, Handler!vars
  <2>9. QED
    BY <1>2, <2>3, <2>4, <2>5, <2>6, <2>7, <2>8 DEF Next
<1>3. QED
  BY <1>1, <1>2, Inductive, PTL DEF Spec, Handler!Spec
=============================================================================
