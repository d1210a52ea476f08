----------------------- MODULE RequestConsensusProofs -----------------------
(***************************************************************************)
(* For every pool, every set of results and every behaviour of at most f   *)
(* faulty nodes: the type invariant, OkIsHonest, PendingHasTimer,          *)
(* AnsweredOnce, NoUnderflow and ImpossibleIsTrue of RequestConsensus, and *)
(* that it implements RequestHandlerSpec, fairness aside.                  *)
(***************************************************************************)
EXTENDS RequestConsensus, FiniteSetTheorems, TLAPS

\* What holds while the request waits: nobody was answered, no result has a
\* quorum, one can still get it, and a node without an armed deadline has been
\* counted.
Waiting ==
  /\ acks = << >>
  /\ \A r \in Results : Votes(replies, r) <= f
  /\ is_consensus_reachable(replies, timeout_nodes)
  /\ Nodes \subseteq timers \cup timeout_nodes \cup Heard

\* The inductive invariant.
IInv ==
  /\ TypeOK
  /\ IsFiniteSet(replies)
  /\ \A r \in Results : \A n \in Honest : <<r, n>> \in replies => r = honest_result[n]
  /\ state = "Start" => acks = << >> /\ replies = {} /\ timeout_nodes = {}
  /\ state = "Consensus" => Waiting
  /\ state = "Finish" => Len(acks) = 1
  /\ (\E i \in DOMAIN acks : acks[i] = Err("PoolTimeout"))
       => ~is_consensus_reachable(replies, timeout_nodes)
  /\ OkIsHonest
  /\ NoUnderflow
-----------------------------------------------------------------------------
\* N and f are natural numbers: _get_f never exceeds the number of nodes.
LEMMA NfType == N \in Nat /\ N > 0 /\ f \in Nat /\ f < N
<1>1. N \in Nat /\ N > 0
  BY NodesAssumption, FS_CardinalityType, FS_EmptySet DEF N
<1>2. QED
  BY <1>1 DEF f, get_f

\* Subsets of the nodes have natural cardinalities, so votes can be compared.
LEMMA VotesType ==
  ASSUME NEW rs, NEW r
  PROVE  /\ IsFiniteSet(Voters(rs, r))
         /\ Votes(rs, r) \in Nat
<1>1. Voters(rs, r) \subseteq Nodes
  BY DEF Voters
<1>2. IsFiniteSet(Voters(rs, r))
  BY <1>1, NodesAssumption, FS_Subset
<1>3. QED
  BY <1>2, FS_CardinalityType DEF Votes

\* A quorum of more than f nodes contains an honest one.
LEMMA QuorumHasHonest ==
  ASSUME NEW rs, NEW r, Quorum(Votes(rs, r))
  PROVE  \E n \in Honest : <<r, n>> \in rs
<1>1. SUFFICES ASSUME \A n \in Honest : <<r, n>> \notin rs
               PROVE  FALSE
  OBVIOUS
<1>2. Voters(rs, r) \subseteq Faulty
  BY <1>1 DEF Voters, Honest
<1>3. IsFiniteSet(Faulty)
  BY NodesAssumption, FaultyAssumption, FS_Subset
<1>4. Votes(rs, r) <= Cardinality(Faulty)
  BY <1>2, <1>3, FS_Subset DEF Votes
<1>5. Cardinality(Faulty) \in Nat
  BY <1>3, FS_CardinalityType
<1>6. QED
  BY <1>4, <1>5, FaultyAssumption, VotesType, NfType DEF Quorum

\* Adding one element to a finite set adds at most one to its size.
LEMMA AddOne ==
  ASSUME NEW S, IsFiniteSet(S), NEW x
  PROVE  /\ IsFiniteSet(S \cup {x})
         /\ Cardinality(S) \in Nat
         /\ Cardinality(S \cup {x}) \in Nat
         /\ Cardinality(S \cup {x}) <= Cardinality(S) + 1
<1>1. /\ IsFiniteSet(S \cup {x})
      /\ Cardinality(S \cup {x}) = IF x \in S THEN Cardinality(S) ELSE Cardinality(S) + 1
  BY FS_AddElement
<1>2. Cardinality(S) \in Nat /\ Cardinality(S \cup {x}) \in Nat
  BY <1>1, FS_CardinalityType
<1>3. QED
  BY <1>1, <1>2

-----------------------------------------------------------------------------
\* The heard nodes are no more than the replies.
LEMMA HeardBound ==
  ASSUME TypeOK, IsFiniteSet(replies)
  PROVE  /\ IsFiniteSet(Heard)
         /\ Cardinality(Heard) <= Cardinality(replies)
<1> DEFINE second == [p \in replies |-> p[2]]
<1>1. second \in Surjection(replies, Heard)
  BY DEF Heard, Surjection
<1>2. QED
  BY <1>1, FS_Surjection

\* The sizes that the reachability test adds and subtracts.
LEMMA Sizes ==
  ASSUME IInv
  PROVE  /\ Cardinality(replies) \in Nat
         /\ IsFiniteSet(timeout_nodes)
         /\ Cardinality(timeout_nodes) \in Nat
         /\ Cardinality(Heard) \in Nat
<1>1. IsFiniteSet(replies) /\ IsFiniteSet(timeout_nodes)
  BY NodesAssumption, FS_Subset DEF IInv, TypeOK
<1>2. QED
  BY <1>1, HeardBound, FS_CardinalityType DEF IInv

\* If every deadline were disarmed while the request waits, every node would be
\* counted, and the reachability test would need a result with a quorum.
LEMMA WaitingHasTimer == IInv => PendingHasTimer
<1>1. SUFFICES ASSUME IInv, state = "Consensus", timers = {}
               PROVE  FALSE
  BY DEF PendingHasTimer
<1>2. Waiting
  BY <1>1 DEF IInv
<1>3. Nodes \subseteq timeout_nodes \cup Heard
  BY <1>1, <1>2 DEF Waiting
<1>4. IsFiniteSet(Heard) /\ Cardinality(Heard) <= Cardinality(replies)
  BY <1>1, HeardBound DEF IInv
<1>5. /\ IsFiniteSet(timeout_nodes \cup Heard)
      /\ Cardinality(timeout_nodes \cup Heard)
            <= Cardinality(timeout_nodes) + Cardinality(Heard)
  <2>1. /\ IsFiniteSet(timeout_nodes \cup Heard)
        /\ Cardinality(timeout_nodes \cup Heard)
             = Cardinality(timeout_nodes) + Cardinality(Heard)
                 - Cardinality(timeout_nodes \cap Heard)
    BY <1>1, <1>4, Sizes, FS_Union
  <2>2. Cardinality(timeout_nodes \cap Heard) \in Nat
    BY <1>1, Sizes, FS_Intersection, FS_CardinalityType, Zenon
  <2>3. QED
    BY <1>1, <2>1, <2>2, Sizes
<1>6. N <= Cardinality(timeout_nodes \cup Heard)
  BY <1>3, <1>5, FS_Subset DEF N
<1>7. Cardinality(timeout_nodes \cup Heard) \in Nat
  BY <1>5, FS_CardinalityType
<1>8. N <= Cardinality(replies) + Cardinality(timeout_nodes)
  BY <1>1, <1>4, <1>5, <1>6, <1>7, Sizes, NfType
<1>9. PICK k \in {0} \cup {Votes(replies, r) : r \in Results} :
         k + N - Cardinality(replies) - Cardinality(timeout_nodes) > f
  BY <1>2 DEF Waiting, is_consensus_reachable
<1>10. k \in Nat /\ k <= f
  BY <1>2, VotesType, NfType DEF Waiting
<1>11. QED
  BY <1>1, <1>8, <1>9, <1>10, Sizes, NfType

\* A new request satisfies the inductive invariant.
LEMMA InitIInv == Init => IInv
<1>1. SUFFICES ASSUME Init PROVE IInv
  OBVIOUS
<1>2. TypeOK
  BY <1>1 DEF Init, TypeOK
<1>3. IsFiniteSet(replies) /\ Cardinality(replies) = 0 /\ Cardinality(timeout_nodes) = 0
  BY <1>1, FS_EmptySet DEF Init
<1>4. NoUnderflow
  BY <1>3, NfType DEF NoUnderflow
<1>5. OkIsHonest
  BY <1>1 DEF Init, OkIsHonest
<1>6. QED
  BY <1>1, <1>2, <1>3, <1>4, <1>5 DEF Init, IInv
-----------------------------------------------------------------------------
\* Finishing a waiting request leaves one acknowledgement, the given one.
LEMMA FinishAcks ==
  ASSUME acks = << >>, NEW a \in Acks, FinishWith(a)
  PROVE  /\ acks' \in Seq(Acks) /\ Len(acks') = 1
         /\ \A i \in DOMAIN acks' : acks'[i] = a
         /\ \E i \in DOMAIN acks' : acks'[i] = a
<1>1. acks' = <<a>>
  BY DEF FinishWith
<1>2. QED
  BY <1>1

\* The reachability test held before a step that counts at most one more node,
\* so the subtraction of the test after that step does not wrap.
LEMMA OneMore ==
  ASSUME NEW rs, NEW rp, NEW ts, NEW tp,
         is_consensus_reachable(rs, ts),
         \A q \in Results : Votes(rs, q) <= Votes(rp, q),
         Cardinality(rs) \in Nat, Cardinality(ts) \in Nat,
         Cardinality(rp) \in Nat, Cardinality(tp) \in Nat,
         Cardinality(rp) + Cardinality(tp) <= Cardinality(rs) + Cardinality(ts) + 1
  PROVE  \E max_no \in {0} \cup {Votes(rp, r) : r \in Results} :
            Cardinality(rp) + Cardinality(tp) <= max_no + N
<1>1. PICK k \in {0} \cup {Votes(rs, r) : r \in Results} :
         k + N - Cardinality(rs) - Cardinality(ts) > f
  BY DEF is_consensus_reachable
<1>2. CASE k = 0
  BY <1>1, <1>2, NfType
<1>3. ASSUME NEW q \in Results, k = Votes(rs, q)
      PROVE  Cardinality(rp) + Cardinality(tp) <= Votes(rp, q) + N
  BY <1>1, <1>3, VotesType, NfType
<1>4. QED
  BY <1>1, <1>2, <1>3, Zenon

\* Sending the request arms a deadline for every node and starts the wait.
LEMMA StartIInv == IInv /\ CustomConsensusRequest => IInv'
<1>1. SUFFICES ASSUME IInv, CustomConsensusRequest PROVE IInv'
  OBVIOUS
<1>2. TypeOK'
  BY <1>1 DEF IInv, CustomConsensusRequest, TypeOK
<1>3. replies = {} /\ timeout_nodes = {} /\ acks = << >>
  BY <1>1 DEF IInv, CustomConsensusRequest
<1>4. \A r \in Results : Votes(replies, r) = 0
  BY <1>3, FS_EmptySet, Zenon DEF Votes, Voters
<1>5. Waiting'
  <2>1. is_consensus_reachable(replies, timeout_nodes)
    BY <1>3, FS_EmptySet, NfType DEF is_consensus_reachable
  <2>2. /\ replies' = replies /\ timeout_nodes' = timeout_nodes
        /\ acks' = acks /\ timers' = Nodes
    BY <1>1 DEF CustomConsensusRequest
  <2>3. is_consensus_reachable(replies', timeout_nodes')
    BY <2>1, <2>2
  <2>4. \A r \in Results : Votes(replies', r) <= f
    BY <1>4, <2>2, NfType
  <2>5. QED
    BY <1>3, <2>2, <2>3, <2>4 DEF Waiting
<1>6. (OkIsHonest /\ NoUnderflow)'
  BY <1>1 DEF IInv, CustomConsensusRequest, OkIsHonest, NoUnderflow, Votes, Voters
<1>7. QED
  BY <1>1, <1>2, <1>3, <1>5, <1>6
  DEF IInv, CustomConsensusRequest

\* A reply is counted, and then acknowledged, refused or waited beyond.
LEMMA ReplyIInv ==
  ASSUME IInv, NEW n \in Nodes, NEW r \in Results, Reply(n, r)
  PROVE  IInv'
<1> DEFINE rs  == replies \cup {<<r, n>>}
           cnt == Votes(rs, r)
<1>1. /\ state = "Consensus" /\ replies' = rs
      /\ timeout_nodes' = timeout_nodes /\ honest_result' = honest_result
      /\ n \in Honest => r = honest_result[n]
  BY DEF Reply
<1>2. Waiting
  BY <1>1 DEF IInv
<1>3. /\ IsFiniteSet(rs) /\ Cardinality(rs) \in Nat
      /\ Cardinality(rs) <= Cardinality(replies) + 1
  BY AddOne, Zenon DEF IInv
<1>4. \A q \in Results : /\ Votes(replies, q) <= Votes(rs, q)
                         /\ q # r => Votes(rs, q) = Votes(replies, q)
  <2>1. TAKE q \in Results
  <2>2. Voters(replies, q) \subseteq Voters(rs, q)
    BY DEF Voters
  <2>3. Votes(replies, q) <= Votes(rs, q)
    BY <2>2, VotesType, FS_Subset, Zenon DEF Votes
  <2>4. q # r => Voters(rs, q) = Voters(replies, q)
    BY DEF Voters
  <2>5. QED
    BY <2>3, <2>4 DEF Votes
<1>5. NoUnderflow'
  <2>1. is_consensus_reachable(replies, timeout_nodes)
    BY <1>2 DEF Waiting
  <2>2. \A q \in Results : Votes(replies, q) <= Votes(rs, q)
    BY <1>4
  <2>3. Cardinality(rs) + Cardinality(timeout_nodes)
           <= Cardinality(replies) + Cardinality(timeout_nodes) + 1
    BY <1>3, Sizes
  <2>4. \E max_no \in {0} \cup {Votes(rs, q) : q \in Results} :
           Cardinality(rs) + Cardinality(timeout_nodes) <= max_no + N
    BY <2>1, <2>2, <2>3, <1>3, Sizes, OneMore, Zenon
  <2>5. QED
    BY <2>4, <1>1 DEF NoUnderflow
<1>6. \A q \in Results : \A m \in Honest : <<q, m>> \in rs => q = honest_result[m]
  BY <1>1 DEF IInv
<1>7. CASE Quorum(cnt) /\ FinishWith(Ok(r))
  <2>1. PICK m \in Honest : r = honest_result[m]
    BY <1>6, <1>7, QuorumHasHonest, Zenon
  <2>2. /\ acks' \in Seq(Acks) /\ Len(acks') = 1
        /\ \A i \in DOMAIN acks' : acks'[i] = Ok(r)
    BY <1>2, <1>7, FinishAcks, SMTT(30) DEF Waiting, Acks
  <2>3. OkIsHonest'
    BY <1>1, <2>1, <2>2 DEF OkIsHonest, Ok
  <2>4. TypeOK'
    BY <1>1, <1>7, <2>2 DEF IInv, TypeOK, FinishWith
  <2>5. ~ \E i \in DOMAIN acks' : acks'[i] = Err("PoolTimeout")
    BY <2>2 DEF Ok, Err
  <2>6. QED
    BY <1>1, <1>3, <1>5, <1>6, <1>7, <2>2, <2>3, <2>4, <2>5 DEF IInv, FinishWith
<1>8. CASE ~Quorum(cnt) /\ is_consensus_reachable(rs, timeout_nodes) /\ Continue(n)
  <2>1. ASSUME NEW q \in Results PROVE Votes(rs, q) <= f
    <3>1. CASE q = r
      <4>1. Votes(rs, r) \in Nat /\ ~(Votes(rs, r) > f)
        BY <1>8, VotesType DEF Quorum
      <4>2. QED
        BY <3>1, <4>1, NfType
    <3>2. CASE q # r
      BY <3>2, <1>2, <1>4, Zenon DEF Waiting
    <3>3. QED
      BY <3>1, <3>2
  <2>2. Heard \cup {n} \subseteq Heard'
    <3>1. <<r, n>> \in replies' /\ <<r, n>>[2] = n
      BY <1>1
    <3>2. Heard \subseteq Heard'
      BY <1>1 DEF Heard
    <3>3. n \in Heard'
      BY <3>1, Zenon DEF Heard
    <3>4. QED
      BY <3>2, <3>3
  <2>3. Nodes \subseteq timers' \cup timeout_nodes' \cup Heard'
    BY <1>1, <1>2, <1>8, <2>2 DEF Waiting, Continue
  <2>4. acks' = << >> /\ state' = "Consensus"
    BY <1>1, <1>2, <1>8 DEF Waiting, Continue
  <2>5. is_consensus_reachable(replies', timeout_nodes')
    BY <1>1, <1>8
  <2>6. Waiting'
    BY <1>1, <2>1, <2>3, <2>4, <2>5, Zenon DEF Waiting
  <2>7. TypeOK'
    BY <1>1, <1>8, <2>4 DEF IInv, TypeOK, Continue
  <2>8. OkIsHonest'
    BY <2>4 DEF OkIsHonest
  <2>9. QED
    BY <1>1, <1>3, <1>5, <1>6, <2>4, <2>6, <2>7, <2>8 DEF IInv
<1>9. CASE /\ ~is_consensus_reachable(rs, timeout_nodes)
           /\ FinishWith(Err("PoolTimeout"))
  <2>1. /\ acks' \in Seq(Acks) /\ Len(acks') = 1
        /\ \A i \in DOMAIN acks' : acks'[i] = Err("PoolTimeout")
    BY <1>2, <1>9, FinishAcks, Zenon DEF Waiting, Acks
  <2>2. OkIsHonest'
    BY <2>1 DEF OkIsHonest, Ok, Err
  <2>3. TypeOK'
    BY <1>1, <1>9, <2>1 DEF IInv, TypeOK, FinishWith
  <2>4. ~is_consensus_reachable(replies', timeout_nodes')
    BY <1>1, <1>9
  <2>5. QED
    BY <1>1, <1>3, <1>5, <1>6, <1>9, <2>1, <2>2, <2>3, <2>4 DEF IInv, FinishWith
<1>10. QED
  BY <1>7, <1>8, <1>9 DEF Reply

\* An expired deadline is counted, and the request goes on or is refused.
LEMMA TimeoutIInv ==
  ASSUME IInv, NEW n \in Nodes, Timeout(n)
  PROVE  IInv'
<1> DEFINE ts == timeout_nodes \cup {n}
<1>1. /\ state = "Consensus" /\ timeout_nodes' = ts
      /\ replies' = replies /\ honest_result' = honest_result
  BY DEF Timeout, TimedOut
<1>2. Waiting
  BY <1>1 DEF IInv
<1>3. /\ Cardinality(ts) \in Nat
      /\ Cardinality(ts) <= Cardinality(timeout_nodes) + 1
  BY Sizes, AddOne, Zenon
<1>4. NoUnderflow'
  <2>1. is_consensus_reachable(replies, timeout_nodes)
    BY <1>2 DEF Waiting
  <2>2. \A q \in Results : Votes(replies, q) <= Votes(replies, q)
    BY VotesType
  <2>3. Cardinality(replies) + Cardinality(ts)
           <= Cardinality(replies) + Cardinality(timeout_nodes) + 1
    BY <1>3, Sizes
  <2>4. \E max_no \in {0} \cup {Votes(replies, q) : q \in Results} :
           Cardinality(replies) + Cardinality(ts) <= max_no + N
    BY <2>1, <2>2, <2>3, <1>3, Sizes, OneMore
  <2>5. QED
    BY <2>4, <1>1 DEF NoUnderflow
<1>5. \A q \in Results : \A m \in Honest :
         <<q, m>> \in replies' => q = honest_result'[m]
  BY <1>1 DEF IInv
<1>6. CASE is_consensus_reachable(replies, ts) /\ Continue(n)
  <2>1. acks' = << >> /\ state' = "Consensus" /\ timers' = timers \ {n}
    BY <1>1, <1>2, <1>6 DEF Waiting, Continue
  <2>2. is_consensus_reachable(replies', timeout_nodes')
    BY <1>1, <1>6
  <2>3. \A q \in Results : Votes(replies', q) <= f
    BY <1>1, <1>2 DEF Waiting
  <2>4. Heard' = Heard
    BY <1>1 DEF Heard
  <2>5. Waiting'
    BY <1>1, <1>2, <2>1, <2>2, <2>3, <2>4 DEF Waiting
  <2>6. TypeOK' /\ OkIsHonest'
    BY <1>1, <2>1 DEF IInv, TypeOK, OkIsHonest
  <2>7. QED
    BY <1>1, <1>4, <1>5, <2>1, <2>5, <2>6 DEF IInv
<1>7. CASE ~is_consensus_reachable(replies, ts) /\ FinishWith(Err("PoolTimeout"))
  <2>1. /\ acks' \in Seq(Acks) /\ Len(acks') = 1
        /\ \A i \in DOMAIN acks' : acks'[i] = Err("PoolTimeout")
    BY <1>2, <1>7, FinishAcks, SMTT(30) DEF Waiting, Acks
  <2>2. OkIsHonest'
    BY <2>1 DEF OkIsHonest, Ok, Err
  <2>3. TypeOK'
    BY <1>1, <1>7, <2>1 DEF IInv, TypeOK, FinishWith
  <2>4. ~is_consensus_reachable(replies', timeout_nodes')
    BY <1>1, <1>7
  <2>5. QED
    BY <1>1, <1>4, <1>5, <1>7, <2>1, <2>2, <2>3, <2>4 DEF IInv, FinishWith
<1>8. QED
  BY <1>6, <1>7 DEF Timeout, TimedOut

\* Closing the pool refuses a pending request and keeps the invariant.
LEMMA TerminateIInv ==
  ASSUME IInv, Terminate
  PROVE  IInv'
<1>1. /\ state = "Consensus" /\ UNCHANGED <<replies, timeout_nodes, honest_result>>
      /\ FinishWith(Err("PoolTerminated"))
  BY DEF Terminate
<1>2. /\ acks' \in Seq(Acks) /\ Len(acks') = 1
      /\ \A i \in DOMAIN acks' : acks'[i] = Err("PoolTerminated")
  BY <1>1, FinishAcks, Zenon DEF IInv, Waiting, Acks
<1>3. OkIsHonest' /\ ~ \E i \in DOMAIN acks' : acks'[i] = Err("PoolTimeout")
  BY <1>2 DEF OkIsHonest, Ok, Err
<1>4. TypeOK'
  BY <1>1, <1>2 DEF IInv, TypeOK, FinishWith
<1>5. NoUnderflow'
  BY <1>1 DEF IInv, NoUnderflow
<1>6. QED
  BY <1>1, <1>2, <1>3, <1>4, <1>5 DEF IInv, FinishWith

\* The invariant depends on the variables of the request only.
LEMMA StutterIInv == IInv /\ UNCHANGED vars => IInv'
BY DEF IInv, vars, TypeOK, Waiting, OkIsHonest, NoUnderflow, Heard,
       is_consensus_reachable

\* Every step of the request keeps the inductive invariant.
THEOREM Inductive == Spec => []IInv
<1>1. IInv /\ [Next]_vars => IInv'
  BY StartIInv, ReplyIInv, TimeoutIInv, TerminateIInv, StutterIInv DEF Next
<1>2. QED
  BY InitIInv, <1>1, PTL DEF Spec
-----------------------------------------------------------------------------
\* If no node is counted twice, the test subtracts exactly the counted nodes,
\* so a refused request really had no result left that could win.
LEMMA RefusedIsImpossible == IInv => ImpossibleIsTrue
<1>1. SUFFICES ASSUME IInv,
                      Err("PoolTimeout") \in {acks[i] : i \in DOMAIN acks},
                      Heard \cap timeout_nodes = {},
                      Cardinality(replies) = Cardinality(Heard),
                      NEW r \in Results
               PROVE  Votes(replies, r)
                        + Cardinality(Nodes \ (Heard \cup timeout_nodes)) <= f
  BY DEF ImpossibleIsTrue
<1> DEFINE counted == Heard \cup timeout_nodes
<1>2. ~is_consensus_reachable(replies, timeout_nodes)
  BY <1>1 DEF IInv
<1>3. Heard \subseteq Nodes /\ timeout_nodes \subseteq Nodes
  BY <1>1 DEF IInv, TypeOK, Heard
<1>4. IsFiniteSet(Heard) /\ IsFiniteSet(timeout_nodes)
  BY <1>3, NodesAssumption, FS_Subset
<1>5. Cardinality(counted) = Cardinality(replies) + Cardinality(timeout_nodes)
  <2>1. Cardinality(counted)
          = Cardinality(Heard) + Cardinality(timeout_nodes)
              - Cardinality(Heard \cap timeout_nodes)
    BY <1>4, FS_Union
  <2>2. Cardinality(Heard \cap timeout_nodes) = 0
    BY <1>1, FS_EmptySet
  <2>3. QED
    BY <1>1, <2>1, <2>2, Sizes
<1>6. Cardinality(Nodes \ counted) = N - Cardinality(counted)
  <2>1. Nodes \cap counted = counted
    BY <1>3
  <2>2. Cardinality(Nodes \ counted) = N - Cardinality(Nodes \cap counted)
    BY NodesAssumption, FS_Difference, Zenon DEF N
  <2>3. QED
    BY <2>1, <2>2
<1>7. ~(Votes(replies, r) + N - Cardinality(replies) - Cardinality(timeout_nodes) > f)
  BY <1>2, Zenon DEF is_consensus_reachable
<1>8. QED
  BY <1>1, <1>5, <1>6, <1>7, VotesType, NfType, Sizes

\* The variables of a write request keep their types.
THEOREM TypeCorrect == Spec => []TypeOK
<1>1. IInv => TypeOK
  BY DEF IInv
<1>2. QED
  BY Inductive, <1>1, PTL

\* For every pool with at most f faulty nodes, an acknowledged result is the
\* answer of an honest node.
THEOREM OkIsHonestAlways == Spec => []OkIsHonest
<1>1. IInv => OkIsHonest
  BY DEF IInv
<1>2. QED
  BY Inductive, <1>1, PTL

\* A pending write request always has an armed deadline.
THEOREM PendingHasTimerAlways == Spec => []PendingHasTimer
BY Inductive, WaitingHasTimer, PTL

\* A write request is acknowledged once, when it finishes.
THEOREM AnsweredOnceAlways == Spec => []AnsweredOnce
<1>1. IInv => AnsweredOnce
  BY DEF IInv, TypeOK, Waiting, AnsweredOnce
<1>2. QED
  BY Inductive, <1>1, PTL

\* The reachability test of a write request never wraps around.
THEOREM NoUnderflowAlways == Spec => []NoUnderflow
<1>1. IInv => NoUnderflow
  BY DEF IInv
<1>2. QED
  BY Inductive, <1>1, PTL

\* "Consensus is impossible" is true whenever no node was counted twice.
THEOREM ImpossibleIsTrueAlways == Spec => []ImpossibleIsTrue
BY Inductive, RefusedIsImpossible, PTL

\* A write request is a request handler as PoolSM uses it: accepted, then
\* answered by one SubmitAck, and silent from then on.
THEOREM ImplementsHandlerSafely == Spec => Handler!Spec
<1>1. Init => Handler!Init
  BY DEF Init, Handler!Init
<1>2. ASSUME IInv, [Next]_vars
      PROVE  [Handler!Next]_(Handler!vars)
  <2>1. acks \in Seq(Acks)
    BY <1>2 DEF IInv, TypeOK
  <2>2. \A a \in Acks : Len(Append(acks, a)) = Len(acks) + 1
    BY <2>1
  <2>3. /\ \A r \in Results : Ok(r) \in Acks
        /\ Err("PoolTimeout") \in Acks /\ Err("PoolTerminated") \in Acks
    BY DEF Acks
  <2>4. ASSUME NEW a \in Acks, state = "Consensus", FinishWith(a)
        PROVE  Handler!Next
    BY <2>2, <2>4 DEF FinishWith, Handler!Next, Handler!Answer
  <2>5. CASE CustomConsensusRequest
    BY <2>5 DEF CustomConsensusRequest, Handler!Next, Handler!Accept
  <2>6. ASSUME NEW n \in Nodes, NEW r \in Results, Reply(n, r)
        PROVE  [Handler!Next]_(Handler!vars)
    BY <2>3, <2>4, <2>6 DEF Reply, Continue, Handler!vars
  <2>7. ASSUME NEW n \in Nodes, Timeout(n)
        PROVE  [Handler!Next]_(Handler!vars)
    BY <2>3, <2>4, <2>7 DEF Timeout, Continue, Handler!vars
  <2>8. CASE Terminate
    BY <2>3, <2>4, <2>8 DEF Terminate
  <2>9. CASE UNCHANGED vars
    BY <2>9 DEF vars, Handler!vars
  <2>10. QED
    BY <1>2, <2>5, <2>6, <2>7, <2>8, <2>9 DEF Next
<1>3. QED
  BY <1>1, <1>2, Inductive, PTL DEF Spec, Handler!Spec
=============================================================================
