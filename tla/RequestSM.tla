----------------------------- MODULE RequestSM -----------------------------
(***************************************************************************)
(* RequestSM: the event that reaches a new request handler decides what    *)
(* the request is, a write (RequestConsensus), a read (RequestSingle) or   *)
(* an action on listed nodes (RequestFull), and only the state of that one *)
(* is used.  Every RequestSM has one request; the variables the three have *)
(* in common are one variable here.  The nodes may fall silent for good.   *)
(***************************************************************************)
EXTENDS RequestConfig

VARIABLES
  request,          \* "write", "read" or "action"
  state, timers, acks,
  replies, timeout_nodes,
  honest_result,
  timestamps, order, cnt, ledger,
  nodes_to_send, accum_reply,
  silent            \* no message of a node comes any more

vars == <<request, state, timers, acks, replies, timeout_nodes, honest_result,
          timestamps, order, cnt, ledger, nodes_to_send, accum_reply, silent>>

Write  == INSTANCE RequestConsensus
Read   == INSTANCE RequestSingle
Action == INSTANCE RequestFull

\* The variables a request does not use.
Unused == << >>
NoWrite  == honest_result = Unused
NoRead   == timestamps = Unused /\ order = Unused /\ cnt = 0 /\ ledger = 0
NoAction == nodes_to_send = Unused /\ accum_reply = Unused
NoVotes  == replies = {} /\ timeout_nodes = {}

Init ==
  /\ silent = FALSE
  /\ \/ request = "write" /\ Write!Init /\ NoRead /\ NoAction
     \/ request = "read" /\ Read!Init /\ NoWrite /\ NoAction
     \/ request = "action" /\ Action!Init /\ NoWrite /\ NoRead /\ NoVotes

IsWrite ==
  request = "write" /\ UNCHANGED <<request, timestamps, order, cnt, ledger, nodes_to_send,
                                  accum_reply, silent>>
IsRead ==
  request = "read" /\ UNCHANGED <<request, honest_result, nodes_to_send, accum_reply, silent>>
IsAction ==
  request = "action" /\ UNCHANGED <<request, honest_result, timestamps, order, cnt, ledger,
                                   replies, timeout_nodes, silent>>

Start ==
  \/ IsWrite /\ Write!CustomConsensusRequest
  \/ IsRead /\ Read!CustomSingleRequest
  \/ IsAction /\ Action!CustomFullRequest
  \/ IsAction /\ Action!CustomFullRequestRefused

Reply(n) ==
  /\ ~silent
  /\ \/ IsWrite /\ \E r \in Results : Write!Reply(n, r)
     \/ IsRead /\ \E m \in Read!Messages : Read!Reply(n, m)
     \/ IsAction /\ Action!Reply(n)

Timeout(n) ==
  \/ IsWrite /\ Write!Timeout(n)
  \/ IsRead /\ Read!Timeout(n)
  \/ IsAction /\ Action!Timeout(n)

Terminate ==
  \/ IsWrite /\ Write!Terminate
  \/ IsRead /\ Read!Terminate
  \/ IsAction /\ Action!Terminate

Commit == IsRead /\ Read!Commit

FallSilent ==
  /\ ~silent /\ silent' = TRUE
  /\ UNCHANGED <<request, state, timers, acks, replies, timeout_nodes, honest_result,
                 timestamps, order, cnt, ledger, nodes_to_send, accum_reply>>

Next ==
  \/ Start \/ Terminate \/ Commit \/ FallSilent
  \/ \E n \in Nodes : Reply(n) \/ Timeout(n)

Spec == Init /\ [][Next]_vars

\* PoolSM starts a request, and the pool thread keeps polling: a deadline that stays
\* armed expires once no message, not even a REQACK, puts it off or keeps poll from
\* returning 0.  Before that nothing is assumed.
FairSpec == Spec /\ WF_vars(Start) /\ \A n \in Nodes : WF_vars(silent /\ Timeout(n))
-----------------------------------------------------------------------------
\* The types of all three requests.
TypeOK ==
  /\ request = "write" => Write!TypeOK
  /\ request = "read" => Read!TypeOK
  /\ request = "action" => Action!TypeOK

\* A write that is acknowledged with a result: an honest node gave it, however the
\* faulty nodes answer and whichever nodes answer late (cnt > f in handle_event).
OkIsHonest == request = "write" => Write!OkIsHonest

\* A write refused with "Consensus is impossible", no node counted twice, really
\* had no result left that could win.
ImpossibleIsTrue == request = "write" => Write!ImpossibleIsTrue

\* What a read returns was on the ledger when it was returned.
ReadIsReal == request = "read" => Read!ReadIsReal

\* A current value returned on the word of one node is no older than the
\* freshness threshold; an older one was reported by an honest node.
ReadIsFresh == request = "read" => Read!ReadIsFresh

Proofs == INSTANCE StateProof
PathsDecided == Proofs!PathsDecide(5)
TriesDecided == Proofs!TriesDecide

\* The state proof that lets one node's word end a read is decided rightly by the
\* algorithms of services/pool/state_proof: a transaction is accepted only if the
\* signed tree has it, whatever ledger size the reply claims, and at the place that
\* was asked for if that size is right; a value or a range of a trie is accepted
\* exactly when the signed root holds it, and never with nodes missing (but for a
\* key that is not stored and is the beginning of a stored one).
StateProofsDecide == request = "read" => PathsDecided /\ TriesDecided

\* The reply to an action has one entry for each node that was asked, whichever
\* of them answered, answered twice or stayed silent.
ReplyIsComplete == request = "action" => Action!ReplyIsComplete

Handler == INSTANCE RequestHandlerSpec WITH
  status <- IF state \in {"Consensus", "Single", "Full"} THEN "Pending" ELSE state,
  sent <- Len(acks)

\* Every request implements the handler PoolSM relies on: one SubmitAck, sent when
\* the request finishes, no step after that, and every request finishes once the
\* nodes are silent: whatever was answered before, a deadline is left that ends it.
ImplementsHandler == Handler!FairSpec
=============================================================================
