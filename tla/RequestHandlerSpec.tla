------------------------- MODULE RequestHandlerSpec -------------------------
(***************************************************************************)
(* What RequestHandler promises to PoolSM for a request of the             *)
(* application (the cmd_ids of RequestSM): the request is accepted or      *)
(* refused, a refused or finished one has sent its SubmitAck exactly once, *)
(* and is_terminal() stays true from then on.  When it is answered is      *)
(* promised only once the nodes are silent: messages put deadlines off,    *)
(* and the pool thread reports an expiry only when it has no message.      *)
(* PoolLifecycle uses the handlers of PoolSM by this specification;        *)
(* RequestConsensus, RequestSingle and RequestFull implement it.           *)
(***************************************************************************)
EXTENDS Naturals

VARIABLES
  status,   \* not started, pending, is_terminal()
  sent,     \* SubmitAcks sent
  silent    \* no message of a node comes any more

vars == <<status, sent, silent>>

Init == status = "Start" /\ sent = 0 /\ silent = FALSE

Accept == status = "Start" /\ status' = "Pending" /\ UNCHANGED <<sent, silent>>

Refuse == status = "Start" /\ status' = "Finish" /\ sent' = sent + 1 /\ UNCHANGED silent

Answer == status = "Pending" /\ status' = "Finish" /\ sent' = sent + 1 /\ UNCHANGED silent

FallSilent == ~silent /\ silent' = TRUE /\ UNCHANGED <<status, sent>>

Next == Accept \/ Refuse \/ Answer \/ FallSilent

Spec == Init /\ [][Next]_vars

\* PoolSM starts the handler as soon as it has made it.
FairSpec == Spec /\ WF_vars(Accept \/ Refuse) /\ WF_vars(silent /\ Answer)
=============================================================================
