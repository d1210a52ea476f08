------------------------- MODULE RequestFullProofs -------------------------
(***************************************************************************)
(* For every pool and every list of nodes: ReplyIsComplete and             *)
(* AnswerIsKept of RequestFull, and that it implements RequestHandlerSpec, *)
(* fairness aside.                                                         *)
(***************************************************************************)
EXTENDS RequestFull, FiniteSetTheorems, TLAPS

\* The nodes a started request may ask: all of them, or a list of known ones.
Accepted == nodes_to_send = All \/ Range(nodes_to_send) \subseteq Nodes

\* The inductive invariant: a node has an answer or an armed deadline, not both.
IInv ==
  /\ TypeOK
  /\ timers \cap DOMAIN accum_reply = {}
  /\ state = "Start" => acks = << >> /\ accum_reply = << >>
  /\ state = "Full" => acks = << >> /\ Accepted /\ nodes_to_send # Malformed
  /\ state = "Finish" => \E a : acks = <<a>> /\ (a.code = "Ok" => Complete(DOMAIN a.reply))
-----------------------------------------------------------------------------
\* A list names at most as many nodes as it has entries.
LEMMA RangeIsShort ==
  ASSUME NEW S, NEW s \in Seq(S)
  PROVE  IsFiniteSet(Range(s)) /\ Cardinality(Range(s)) <= Len(s)
<1>1. Len(s) \in Nat /\ DOMAIN s = 1 .. Len(s)
  OBVIOUS
<1>2. IsFiniteSet(1 .. Len(s)) /\ Cardinality(1 .. Len(s)) = Len(s)
  BY <1>1, FS_Interval, SMTT(30)
<1>3. s \in Surjection(1 .. Len(s), Range(s))
  BY <1>1 DEF Surjection, Range
<1>4. QED
  BY <1>2, <1>3, FS_Surjection

\* There are no more nodes to ask than answers are required.
LEMMA AskedIsShort ==
  ASSUME TypeOK, Accepted, nodes_to_send # Malformed
  PROVE  /\ IsFiniteSet(Asked)
         /\ Cardinality(Asked) <= required_reply_cnt
         /\ Cardinality(Asked) \in Nat /\ required_reply_cnt \in Nat
<1>1. CASE nodes_to_send = All
  <2>1. Asked = Nodes /\ required_reply_cnt = Cardinality(Nodes)
    BY <1>1 DEF Asked, required_reply_cnt
  <2>2. QED
    BY <2>1, NodesAssumption, FS_CardinalityType
<1>2. CASE nodes_to_send # All
  <2>1. nodes_to_send \in Seq(Nodes \cup {Unknown})
    BY <1>2, ListsAssumption DEF TypeOK
  <2>2. Asked = Range(nodes_to_send)
    BY <1>2 DEF Asked, Accepted
  <2>3. IsFiniteSet(Asked) /\ Cardinality(Asked) <= Len(nodes_to_send)
    BY <2>1, <2>2, RangeIsShort
  <2>4. required_reply_cnt = Len(nodes_to_send) /\ Len(nodes_to_send) \in Nat
    BY <1>2, <2>1 DEF required_reply_cnt
  <2>5. QED
    BY <2>3, <2>4, FS_CardinalityType
<1>3. QED
  BY <1>1, <1>2

\* The count of required answers is reached only by an answer of every node asked,
\* or with an answer nobody asked for.
LEMMA EnoughIsAll ==
  ASSUME TypeOK, Accepted, nodes_to_send # Malformed, NEW accum,
         DOMAIN accum \subseteq Asked \cup Faulty, Enough(accum)
  PROVE  Complete(DOMAIN accum)
<1>1. /\ IsFiniteSet(Asked)
      /\ Cardinality(Asked) <= required_reply_cnt
      /\ Cardinality(Asked) \in Nat /\ required_reply_cnt \in Nat
  BY AskedIsShort
<1>2. Cardinality(DOMAIN accum) = required_reply_cnt
  BY DEF Enough
<1>3. CASE DOMAIN accum \subseteq Asked
  <2>1. Cardinality(DOMAIN accum) <= Cardinality(Asked)
    BY <1>1, <1>3, FS_Subset
  <2>2. Cardinality(DOMAIN accum) = Cardinality(Asked)
    BY <1>1, <1>2, <2>1
  <2>3. DOMAIN accum = Asked
    BY <1>1, <1>3, <2>2, FS_Subset
  <2>4. QED
    BY <2>3 DEF Complete
<1>4. CASE ~(DOMAIN accum \subseteq Asked)
  <2>1. DOMAIN accum \ Asked # {} /\ DOMAIN accum \ Asked \subseteq Faulty
    BY <1>4
  <2>2. Cardinality(DOMAIN accum) >= Cardinality(Asked)
    BY <1>1, <1>2
  <2>3. QED
    BY <2>1, <2>2 DEF Complete
<1>5. QED
  BY <1>3, <1>4

\* A request that finishes has one acknowledgement.
LEMMA FinishIInv ==
  ASSUME IInv, state \in {"Start", "Full"}, NEW a, FinishWith(a),
         UNCHANGED nodes_to_send,
         DOMAIN accum_reply' \subseteq Asked \cup Faulty,
         \A n \in DOMAIN accum_reply' : accum_reply'[n] \in {"reply", "timeout"},
         a.code = "Ok" => Complete(DOMAIN a.reply)
  PROVE  IInv'
<1>0. acks = << >>
  BY DEF IInv
<1>1. acks' = <<a>> /\ state' = "Finish" /\ timers' = {}
  BY <1>0 DEF FinishWith
<1>2. Asked' = Asked /\ (Complete(DOMAIN a.reply))' = Complete(DOMAIN a.reply)
  BY DEF Asked, Complete
<1>3. QED
  BY <1>1, <1>2 DEF IInv, TypeOK

\* An answer or an expiry is accumulated; the last one finishes the request.
LEMMA AccumulateIInv ==
  ASSUME IInv, state = "Full", NEW n \in Asked \cup Faulty, NEW r \in {"reply", "timeout"},
         handle_consensus_state(n, r)
  PROVE  IInv'
<1> DEFINE accum == Accumulate(n, r)
<1>1. accum_reply' = accum /\ UNCHANGED nodes_to_send
  BY DEF handle_consensus_state
<1>2. /\ DOMAIN accum = DOMAIN accum_reply \cup {n}
      /\ \A m \in DOMAIN accum : accum[m] \in {"reply", "timeout"}
  BY DEF Accumulate, IInv, TypeOK
<1>3. DOMAIN accum \subseteq Asked \cup Faulty
  BY <1>2 DEF IInv, TypeOK
<1>4. CASE Enough(accum)
  <2>1. FinishWith([code |-> "Ok", reply |-> accum])
    BY <1>4 DEF handle_consensus_state
  <2>2. Complete(DOMAIN accum)
    BY <1>3, <1>4, EnoughIsAll DEF IInv
  <2>3. QED
    BY <1>1, <1>2, <1>3, <2>1, <2>2, FinishIInv
<1>5. CASE ~Enough(accum)
  <2>1. timers' = timers \ {n} /\ UNCHANGED <<state, acks>>
    BY <1>5 DEF handle_consensus_state, CleanTimeout
  <2>2. Asked' = Asked /\ Accepted' = Accepted
    BY <1>1 DEF Asked, Accepted
  <2>3. QED
    BY <1>1, <1>2, <1>3, <2>1, <2>2 DEF IInv, TypeOK
<1>6. QED
  BY <1>4, <1>5

\* The invariant of an action request is inductive.
THEOREM Inductive == Spec => []IInv
<1>1. Init => IInv
  BY DEF Init, IInv, TypeOK
<1>2. ASSUME IInv, [Next]_vars
      PROVE  IInv'
  <2>1. CASE CustomFullRequest
    <3>1. Asked' = Asked /\ Accepted' = Accepted /\ DOMAIN accum_reply = {}
      BY <1>2, <2>1 DEF IInv, CustomFullRequest, Asked, Accepted
    <3>2. QED
      BY <1>2, <2>1, <3>1 DEF IInv, TypeOK, CustomFullRequest, Accepted
  <2>2. CASE CustomFullRequestRefused
    BY <1>2, <2>2, FinishIInv DEF CustomFullRequestRefused, IInv, TypeOK
  <2>3. ASSUME NEW n \in Nodes, Reply(n)
        PROVE  IInv'
    BY <1>2, <2>3, AccumulateIInv DEF Reply
  <2>4. ASSUME NEW n \in Nodes, Timeout(n)
        PROVE  IInv'
    BY <1>2, <2>4, AccumulateIInv DEF Timeout, IInv, TypeOK
  <2>5. CASE Terminate
    BY <1>2, <2>5, FinishIInv DEF Terminate, IInv, TypeOK
  <2>6. CASE UNCHANGED vars
    BY <1>2, <2>6, Zenon DEF vars, IInv, TypeOK, Accepted, Asked, Complete
  <2>7. QED
    BY <1>2, <2>1, <2>2, <2>3, <2>4, <2>5, <2>6 DEF Next
<1>3. QED
  BY <1>1, <1>2, PTL DEF Spec
-----------------------------------------------------------------------------
\* The object an action returns has one entry for each node that was asked, or an
\* entry of a faulty node nobody asked, also when the list repeats a node.
THEOREM ReplyIsCompleteAlways == Spec => []ReplyIsComplete
<1>1. IInv => ReplyIsComplete
  BY DEF IInv, TypeOK, ReplyIsComplete
<1>2. QED
  BY Inductive, <1>1, PTL

\* An expiry never replaces the answer of a node.
THEOREM AnswerIsKeptAlways == Spec => AnswerIsKept
<1> DEFINE Kept == \A n \in DOMAIN accum_reply :
                     accum_reply[n] = "reply" => accum_reply'[n] = "reply"
<1>1. ASSUME IInv, Next
      PROVE  Kept
  <2>1. ASSUME NEW n, NEW r, handle_consensus_state(n, r),
               r = "reply" \/ n \notin DOMAIN accum_reply
        PROVE  Kept
    BY <2>1 DEF handle_consensus_state, Accumulate
  <2>2. ASSUME NEW n \in Nodes, Reply(n)
        PROVE  Kept
    BY <2>1, <2>2 DEF Reply
  <2>3. ASSUME NEW n \in Nodes, Timeout(n)
        PROVE  Kept
    <3>1. n \notin DOMAIN accum_reply
      BY <1>1, <2>3 DEF Timeout, IInv
    <3>2. QED
      BY <2>1, <2>3, <3>1 DEF Timeout
  <2>4. QED
    BY <1>1, <2>2, <2>3
    DEF Next, CustomFullRequest, CustomFullRequestRefused, Terminate
<1>2. ASSUME IInv, [Next]_vars
      PROVE  [Kept]_vars
  BY <1>1, <1>2
<1>3. QED
  BY <1>2, Inductive, PTL DEF Spec, AnswerIsKept

\* An action is a request handler as PoolSM uses it: accepted or refused, then
\* answered by one SubmitAck, and silent from then on.
THEOREM ImplementsHandlerSafely == Spec => Handler!Spec
<1>1. Init => Handler!Init
  BY DEF Init, Handler!Init
<1>2. ASSUME IInv, [Next]_vars
      PROVE  [Handler!Next]_(Handler!vars)
  <2>1. ASSUME NEW a, state \in {"Start", "Full"}, FinishWith(a)
        PROVE  Handler!Next
    <3>0. acks = << >>
      BY <1>2, <2>1 DEF IInv
    <3>1. acks = << >> /\ acks' = <<a>>
      BY <2>1, <3>0 DEF FinishWith
    <3>2. Len(acks) = 0 /\ Len(acks') = 1
      BY <3>1
    <3>3. QED
      BY <2>1, <3>2 DEF FinishWith, Handler!Next, Handler!Answer, Handler!Refuse
  <2>2. ASSUME NEW n, NEW r, state = "Full", handle_consensus_state(n, r)
        PROVE  [Handler!Next]_(Handler!vars)
    BY <2>1, <2>2 DEF handle_consensus_state, Handler!vars
  <2>3. CASE CustomFullRequest
    BY <2>3 DEF CustomFullRequest, Handler!Next, Handler!Accept
  <2>4. CASE CustomFullRequestRefused
    BY <2>1, <2>4 DEF CustomFullRequestRefused
  <2>5. ASSUME NEW n \in Nodes, Reply(n)
        PROVE  [Handler!Next]_(Handler!vars)
    BY <2>2, <2>5 DEF Reply
  <2>6. ASSUME NEW n \in Nodes, Timeout(n)
        PROVE  [Handler!Next]_(Handler!vars)
    BY <2>2, <2>6 DEF Timeout
  <2>7. CASE Terminate
    BY <2>1, <2>7 DEF Terminate
  <2>8. CASE UNCHANGED vars
    BY <2>8 DEF vars, Handler!vars
  <2>9. QED
    BY <1>2, <2>3, <2>4, <2>5, <2>6, <2>7, <2>8 DEF Next
<1>3. QED
  BY <1>1, <1>2, Inductive, PTL DEF Spec, Handler!Spec
=============================================================================
