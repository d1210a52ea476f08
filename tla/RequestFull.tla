----------------------------- MODULE RequestFull -----------------------------
(***************************************************************************)
(* One action request of the pool client (POOL_RESTART,                    *)
(* GET_VALIDATOR_INFO): RequestSM from Start through Full to Finish.  The  *)
(* request goes to the nodes the caller lists, or to all of them; the      *)
(* answers, with "timeout" for a silent node, are accumulated per node and *)
(* returned together.                                                      *)
(*                                                                         *)
(* An honest node answers only if it was asked; a faulty one may answer    *)
(* anyway, on the connection of another request, and is counted.  A REQACK *)
(* is ignored in this state.                                               *)
(***************************************************************************)
EXTENDS RequestConfig

VARIABLES
  state,            \* RequestState
  nodes_to_send,    \* the caller's list, "All" or "Malformed"
  accum_reply,      \* function from the nodes counted so far to their answers
  timers,           \* nodes with an armed deadline (PoolConnection.timeouts)
  acks              \* SubmitAcks sent to the command executor

vars == <<state, nodes_to_send, accum_reply, timers, acks>>

All       == <<"all nodes">>         \* no list was given
Malformed == <<"not a json list">>   \* the list does not parse

Asked == IF nodes_to_send = All THEN Nodes ELSE Range(nodes_to_send) \cap Nodes

TypeOK ==
  /\ state \in {"Start", "Full", "Finish"}
  /\ nodes_to_send \in NodeLists \cup {All, Malformed}
  /\ DOMAIN accum_reply \subseteq Asked \cup Faulty
  /\ \A n \in DOMAIN accum_reply : accum_reply[n] \in {"reply", "timeout"}
  /\ timers \subseteq Asked

Init ==
  /\ state = "Start"
  /\ nodes_to_send \in NodeLists \cup {All, Malformed}
  /\ accum_reply = << >>
  /\ timers = {}
  /\ acks = << >>
-----------------------------------------------------------------------------
FinishWith(ack) ==
  /\ acks' = Append(acks, ack)
  /\ timers' = {}
  /\ state' = "Finish"

\* SendAllRequest arms a deadline for each listed node of the pool.
CustomFullRequest ==
  /\ state = "Start"
  /\ nodes_to_send # Malformed
  /\ nodes_to_send # All => nodes_to_send # << >> /\ Range(nodes_to_send) \subseteq Nodes
  /\ state' = "Full"
  /\ timers' = Asked
  /\ UNCHANGED <<nodes_to_send, accum_reply, acks>>

\* An empty list, an unknown alias or a malformed list is refused at once.
CustomFullRequestRefused ==
  /\ state = "Start"
  /\ nodes_to_send # All
  /\ \/ nodes_to_send = Malformed
     \/ nodes_to_send = << >>
     \/ ~(Range(nodes_to_send) \subseteq Nodes)
  /\ FinishWith([code |-> "InvalidStructure"])
  /\ UNCHANGED <<nodes_to_send, accum_reply>>

\* nodes_to_send is a Vec: a node that is listed twice counts twice.
required_reply_cnt == IF nodes_to_send = All THEN Cardinality(Nodes) ELSE Len(nodes_to_send)

\* insert into the JSON object: a later answer of a node replaces an earlier one.
Accumulate(n, node_result) ==
  [m \in DOMAIN accum_reply \cup {n} |-> IF m = n THEN node_result ELSE accum_reply[m]]

EnoughEarly(accum) == Cardinality(DOMAIN accum) >= required_reply_cnt - 1

Enough(accum) == Cardinality(DOMAIN accum) = required_reply_cnt

CleanTimeout(n) == timers \ {n}

handle_consensus_state(n, node_result) ==
  LET accum == Accumulate(n, node_result)
  IN /\ accum_reply' = accum
     /\ \/ Enough(accum) /\ FinishWith([code |-> "Ok", reply |-> accum])
        \/ /\ ~Enough(accum)
           /\ timers' = CleanTimeout(n)
           /\ UNCHANGED <<state, acks>>
     /\ UNCHANGED nodes_to_send

Reply(n) ==
  state = "Full" /\ n \in Asked \cup Faulty /\ handle_consensus_state(n, "reply")

Timeout(n) == state = "Full" /\ n \in timers /\ handle_consensus_state(n, "timeout")

Terminate ==
  /\ state = "Full"
  /\ FinishWith([code |-> "PoolTerminated"])
  /\ UNCHANGED <<nodes_to_send, accum_reply>>

Next ==
  \/ CustomFullRequest
  \/ CustomFullRequestRefused
  \/ \E n \in Nodes : Reply(n)
  \/ \E n \in Nodes : Timeout(n)
  \/ Terminate

Spec == Init /\ [][Next]_vars
-----------------------------------------------------------------------------
\* The answered nodes are the ones asked, or a faulty node that was not asked
\* answered, perhaps in the place of one that was.
Complete(answered) ==
  \/ answered = Asked
  \/ /\ answered \ Asked # {} /\ answered \ Asked \subseteq Faulty
     /\ Cardinality(answered) >= Cardinality(Asked)

\* The returned object has one entry for each node that was asked, whichever
\* of them answered, answered twice or stayed silent, unless a faulty node has put
\* in an entry nobody asked for; it never has fewer entries than nodes were asked.
ReplyIsComplete ==
  \A i \in DOMAIN acks :
     acks[i].code = "Ok" => Complete(DOMAIN acks[i].reply)

\* Once a node's answer is in, an expiry cannot turn it into a "timeout": its
\* deadline was cleaned together with the answer.
AnswerIsKept ==
  [][\A n \in DOMAIN accum_reply :
        accum_reply[n] = "reply" => accum_reply'[n] = "reply"]_vars

\* The handler PoolSM relies on, which the request implements: one SubmitAck, sent
\* when the request finishes, and no step after that.
Handler == INSTANCE RequestHandlerSpec WITH
  status <- IF state = "Full" THEN "Pending" ELSE state,
  sent <- Len(acks), silent <- FALSE
=============================================================================
