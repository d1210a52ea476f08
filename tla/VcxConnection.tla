--------------------------- MODULE VcxConnection ---------------------------
(***************************************************************************)
(* Connections of libvcx in the Aries protocol: the DID exchange between   *)
(* an inviter and the invitees who have read its invitation                *)
(* (v3/handlers/connection/{states,connection,agent}.rs), the handles the  *)
(* application holds on them (connection.rs), and the mailboxes an agency  *)
(* keeps for each pairwise agent (dummy-cloud-agent agent_connection.rs).  *)
(*                                                                         *)
(* A pairwise agent is a key; the keys are numbered in the order they are  *)
(* created and key 0 stands for AgentInfo::default().  An invitee creates  *)
(* one agent per request, so the agent's key also serves as the id of the  *)
(* request, hence of the thread.  A message of a mailbox has the status    *)
(* Received or Reviewed and is never removed.                              *)
(*                                                                         *)
(* Every call of the agency may fail, having had its effect ("lost": the   *)
(* answer is lost) or not ("refused").  update_state asks two mailboxes    *)
(* one after the other, and the peers move in between; all else that a     *)
(* call does, it does under the lock of the handle cache.                  *)
(***************************************************************************)
EXTENDS Naturals, FiniteSets

CONSTANTS
    Invitees,       \* the parties who have read the invitation
    MaxKeys,        \* bound: pairwise agents created
    MaxFaults,      \* bound: calls of the agency that fail, or restarts
    Restarting,     \* the parties whose process may restart
    MaxAsks         \* bound: pings and queries the applications send

ASSUME BoundsAreNaturals ==
    MaxKeys \in Nat /\ MaxFaults \in Nat /\ MaxAsks \in Nat

VARIABLES
    conn,           \* conn[p]: the Connection p holds a handle of
    saved,          \* saved[p]: what p last serialised (to_string)
    half,           \* the parties whose update_state has yet to ask the previous agent
    box,            \* box[k]: the messages agent k has received, with their status
    owner,          \* owner[k]: the party that created agent k
    invitations,    \* the keys that have been handed out in an invitation
    accepted,       \* history: <<request, key>>, the responses invitees have accepted
    faults, asks,
    kind            \* the kind of behaviour, chosen at the start: "calm", nothing goes
                    \* wrong and messages come from the mailboxes only; "failing", calls
                    \* of the agency fail; "restarting", processes restart

vars == <<conn, saved, half, box, owner, invitations, accepted, faults, asks, kind>>

Inviter == "inviter"
Parties == Invitees \cup {Inviter}
Keys == 1..MaxKeys
NoKey == 0
Created == {k \in Keys : owner[k] # "nobody"}

(* DidExchangeSM: the state, agent_info, the DidDoc held in the state, and
   prev_agent_info.  "Released" is a handle that is not in the cache. *)
States == {"Null", "Invited", "Requested", "Responded", "Completed", "Released"}
Released == [state |-> "Released", agent |-> NoKey, doc |-> NoKey, prev |-> NoKey]

(* What the other side is told apart by: from is the key of the sender, for
   requests and responses also the one in their DidDoc; signer is the key
   SignedResponse is signed with. *)
Message(type, from, thread, signer) ==
    [type |-> type, from |-> from, thread |-> thread, signer |-> signer]
Connect == Message("connect", NoKey, NoKey, NoKey)
Ask(type, id) == Message(type, NoKey, id, NoKey)

Received == "Received"
Reviewed == "Reviewed"

-----------------------------------------------------------------------------
(* A call of the agency, httpclient::post_message. *)
Calls == {"ok", "refused", "lost"}

(* What step() may do: the connection after it, the messages that reach
   their mailbox, the agent it creates, whether it returns Ok, and how many
   calls failed on the way. *)
Outcome(c, mail, new, ok, failed) ==
    [conn |-> c, mail |-> mail, new |-> new, ok |-> ok, failed |-> failed]
Nothing(c) == {Outcome(c, {}, NoKey, TRUE, 0)}
Fails(c) == {Outcome(c, {}, NoKey, FALSE, 1)}

(* AgentInfo::send_message *)
Posted(r, to, m) == IF r = "refused" THEN {} ELSE {<<to, m>>}
Failed(r) == IF r = "ok" THEN 0 ELSE 1

(* The next agent create_agent provisions. *)
NextKey == Cardinality(Created) + 1

(* send_message(...)? : on an error the step is abandoned; send_message(...).ok() :
   the error is dropped. *)
SendOrFail(c, then, to, m) ==
    {Outcome(IF r = "ok" THEN then ELSE c, Posted(r, to, m), NoKey, r = "ok", Failed(r)) : r \in Calls}
SendAnyway(then, to, m) == {Outcome(then, Posted(r, to, m), NoKey, TRUE, Failed(r)) : r \in Calls}

(* The problem report sent before falling back to Null. *)
ToNull(c) == [c EXCEPT !.state = "Null", !.doc = NoKey, !.prev = NoKey]
Report(c, to, thread, mail, new, failed) ==
    {Outcome(ToNull(c), mail \cup Posted(r, to, Message("problem", c.agent, thread, NoKey)),
             new, TRUE, failed + Failed(r)) : r \in Calls}

(* Mutant: the response carries the agent of the invitation. *)
HandleRequestSameAgent(c, m) ==
    {Outcome([state |-> "Responded", agent |-> c.agent, doc |-> m.from, prev |-> c.agent],
             {<<m.from, Message("response", c.agent, m.thread, c.agent)>>}, NoKey, TRUE, 0)}

(* InvitedState::handle_connection_request and the step around it: a new
   agent, and a response signed with the key of the invitation. *)
HandleRequest(c, m) ==
    LET k == NextKey
        response == Message("response", k, m.thread, c.agent)
    IN  Report(c, m.from, m.thread, {}, NoKey, 1)
        \cup (IF k \notin Keys THEN {} ELSE
              {Outcome([state |-> "Responded", agent |-> k, doc |-> m.from, prev |-> c.agent],
                       {<<m.from, response>>}, k, TRUE, 0)}
              \cup UNION {Report(c, m.from, m.thread, Posted(r, m.from, response), k, 1)
                          : r \in {"refused", "lost"}})

(* SignedResponse::decode and Response::from_thread *)
Acceptable(c, m) == m.signer = c.doc /\ m.thread = c.agent

(* Mutant: the DidDoc of the invitation is kept. *)
HandleResponseOldDoc(c, m) ==
    IF ~Acceptable(c, m) THEN Report(c, c.doc, c.agent, {}, NoKey, 0)
    ELSE {Outcome([c EXCEPT !.state = "Completed"],
                  {<<m.from, Message("ack", c.agent, m.thread, NoKey)>>}, NoKey, TRUE, 0)}

(* RequestedState::handle_connection_response and the step around it. *)
HandleResponse(c, m) ==
    LET ack == Message("ack", c.agent, m.thread, NoKey)
    IN  IF ~Acceptable(c, m) THEN Report(c, c.doc, c.agent, {}, NoKey, 0)
        ELSE {Outcome([c EXCEPT !.state = "Completed", !.doc = m.from], {<<m.from, ack>>}, NoKey, TRUE, 0)}
             \cup UNION {Report(c, c.doc, c.agent, Posted(r, m.from, ack), NoKey, 1)
                         : r \in {"refused", "lost"}}

(* _handle_ping and handle_discovery_query: the answer to an ask. *)
Answer(c, then, m) ==
    SendOrFail(c, then, c.doc, Message(IF m.type = "ping" THEN "pong" ELSE "disclose", c.agent, m.thread, NoKey))

(* CompleteState::handle_message *)
StepCompleted(c, m) ==
    CASE m.type = "send_ping" -> SendAnyway(c, c.doc, Message("ping", c.agent, m.thread, NoKey))
      [] m.type = "send_query" -> SendOrFail(c, c, c.doc, Message("query", c.agent, m.thread, NoKey))
      [] m.type \in {"ping", "query"} -> Answer(c, c, m)
      [] OTHER -> Nothing(c)

(* DidExchangeSM::step for the inviter ... *)
StepInviter(c, m) ==
    LET complete == [c EXCEPT !.state = "Completed", !.prev = NoKey]
    IN  CASE c.state = "Null" /\ m.type = "connect" ->
                Fails(c) \cup
                {Outcome([c EXCEPT !.state = "Invited", !.agent = k, !.doc = k], {}, k, TRUE, 0)
                    : k \in {NextKey} \cap Keys}
          [] c.state = "Invited" /\ m.type = "request" -> HandleRequest(c, m)
          [] c.state \in {"Invited", "Responded"} /\ m.type = "problem" -> Nothing(ToNull(c))
          [] c.state = "Responded" /\ m.type \in {"ack", "pong"} -> Nothing(complete)
          [] c.state = "Responded" /\ m.type = "ping" -> Answer(c, complete, m)
          [] c.state = "Responded" /\ m.type = "send_ping" ->
                SendAnyway(c, c.doc, Message("ping", c.agent, m.thread, NoKey))
          [] c.state = "Completed" -> StepCompleted(c, m)
          [] OTHER -> Nothing(c)

(* ... and for the invitee. *)
StepInvitee(c, m) ==
    CASE c.state = "Invited" /\ m.type = "connect" ->
            Fails(c) \cup
            {Outcome(IF r = "ok" THEN [c EXCEPT !.state = "Requested", !.agent = k] ELSE c,
                     Posted(r, c.doc, Message("request", k, k, NoKey)), k, r = "ok", Failed(r))
                : k \in {NextKey} \cap Keys, r \in Calls}
      [] c.state = "Requested" /\ m.type = "response" -> HandleResponse(c, m)
      [] c.state \in {"Invited", "Requested"} /\ m.type = "problem" -> Nothing(ToNull(c))
      [] c.state = "Completed" -> StepCompleted(c, m)
      [] OTHER -> Nothing(c)

Step(p, m) == IF p = Inviter THEN StepInviter(conn[p], m) ELSE StepInvitee(conn[p], m)

(* Mutant: an inviter that has responded waits for a ping only. *)
WantedPing(p) ==
    CASE conn[p].state = "Invited" /\ p = Inviter -> {"request", "problem"}
      [] conn[p].state = "Requested" -> {"response", "problem"}
      [] conn[p].state = "Responded" -> {"ping", "pong", "problem"}
      [] OTHER -> {}

(* find_message_to_handle: the types it looks for in each state; the first
   one of an unordered map is any of them. *)
Wanted(p) ==
    CASE conn[p].state = "Invited" /\ p = Inviter -> {"request", "problem"}
      [] conn[p].state = "Requested" -> {"response", "problem"}
      [] conn[p].state = "Responded" -> {"ack", "ping", "pong", "problem"}
      [] conn[p].state = "Completed" -> {"ping", "pong", "query", "disclose"}
      [] OTHER -> {}
ToHandle(p, k) == {m \in DOMAIN box[k] : box[k][m] = Received /\ m.type \in Wanted(p)}

-----------------------------------------------------------------------------
Init ==
    /\ conn = [p \in Parties |-> Released]
    /\ saved = [p \in Parties |-> Released]
    /\ half = {}
    /\ box = [k \in Keys |-> << >>]
    /\ owner = [k \in Keys |-> "nobody"]
    /\ invitations = {} /\ accepted = {}
    /\ faults = 0 /\ asks = 0
    /\ kind \in {"calm", "failing", "restarting"}

(* AgentConnection::handle_forward_message for each message posted. *)
Deliver(mail, marked) ==
    box' = [k \in Keys |->
              LET got == {x[2] : x \in {y \in mail : y[1] = k}}
              IN  [m \in DOMAIN box[k] \cup got |->
                     IF m \in got THEN Received
                     ELSE IF <<k, m>> \in marked THEN Reviewed ELSE box[k][m]]]

(* Connection::step: the connection becomes what step returns, or is kept. *)
Apply(p, m, o) ==
    /\ conn' = [conn EXCEPT ![p] = o.conn]
    /\ owner' = IF o.new = NoKey THEN owner ELSE [owner EXCEPT ![o.new] = p]
    /\ invitations' = IF o.conn.state = "Invited" THEN invitations \cup {o.conn.doc} ELSE invitations
    /\ accepted' = IF m.type = "response" /\ conn[p].state = "Requested" /\ Acceptable(conn[p], m)
                   THEN accepted \cup {<<conn[p].agent, m.from>>} ELSE accepted

Failing(n) ==
    /\ n > 0 => kind = "failing" /\ faults + n <= MaxFaults
    /\ faults' = faults + n

(* A call of the application that is one step: handle_message(m). *)
Handle(p, m) ==
    \E o \in Step(p, m) :
        /\ Failing(o.failed)
        /\ Apply(p, m, o)
        /\ Deliver(o.mail, {})

(* Handles a message of mailbox k, then update_message_status(uid)?, which
   may fail in turn: the connection has moved all the same.  The call goes
   on to the previous agent, if it is the first half and nothing failed. *)
HandleFrom(p, k, first) ==
    \E m \in ToHandle(p, k) : \E o \in Step(p, m), r \in Calls :
        /\ ~o.ok => r = "ok"
        /\ Failing(o.failed + Failed(r))
        /\ Apply(p, m, o)
        /\ Deliver(o.mail, IF o.ok /\ r # "refused" THEN {<<k, m>>} ELSE {})
        /\ half' = IF first /\ o.ok /\ r = "ok" /\ o.conn.prev # NoKey THEN half \cup {p} ELSE half \ {p}

Callable(p) == conn[p].state # "Released" /\ p \notin half

(* vcx_connection_create and create_with_invite. *)
Create(p) ==
    /\ conn[p] = Released
    /\ IF p = Inviter THEN conn' = [conn EXCEPT ![p].state = "Null"]
       ELSE \E k \in invitations : conn' = [conn EXCEPT ![p].state = "Invited", ![p].doc = k]
    /\ UNCHANGED <<saved, half, box, owner, invitations, accepted, faults, asks, kind>>

(* vcx_connection_connect *)
DoConnect(p) ==
    /\ Callable(p)
    /\ conn[p].state = (IF p = Inviter THEN "Null" ELSE "Invited")
    /\ Handle(p, Connect)
    /\ UNCHANGED <<saved, half, asks, kind>>

(* send_ping and send_discovery_features *)
SendAsk(p, type) ==
    /\ Callable(p)
    /\ conn[p].state \in {"Responded", "Completed"}
    /\ kind # "restarting" /\ asks < MaxAsks /\ asks' = asks + 1
    /\ Handle(p, Ask(type, asks))
    /\ UNCHANGED <<saved, half, kind>>

(* update_state_with_message: a message the application has downloaded for
   this connection, new or old; it keeps its status. *)
UpdateByHand(p, k, m) ==
    /\ kind # "calm"
    /\ Callable(p)
    /\ k \in {conn[p].agent, conn[p].prev}
    /\ Handle(p, m)
    /\ UNCHANGED <<saved, half, asks, kind>>

(* update_state, first half: the mailbox of the current agent. *)
UpdateCurrent(p) ==
    /\ Callable(p)
    /\ conn[p].agent # NoKey
    /\ \/ HandleFrom(p, conn[p].agent, TRUE)
       \/ /\ ToHandle(p, conn[p].agent) = {}
          /\ conn[p].prev # NoKey
          /\ half' = half \cup {p}
          /\ UNCHANGED <<conn, box, owner, invitations, accepted, faults>>
    /\ UNCHANGED <<saved, asks, kind>>

(* Second half: the mailbox of the agent the invitation was made with, as
   long as the connection is Responded.  get_messages may fail. *)
UpdatePrevious(p) ==
    /\ p \in half
    /\ \/ HandleFrom(p, conn[p].prev, FALSE)
       \/ /\ ToHandle(p, conn[p].prev) # {} => Failing(1)
          /\ ToHandle(p, conn[p].prev) = {} => Failing(0)
          /\ half' = half \ {p}
          /\ UNCHANGED <<conn, box, owner, invitations, accepted>>
    /\ UNCHANGED <<saved, asks, kind>>

(* vcx_connection_serialize *)
Save(p) ==
    /\ Callable(p)
    /\ kind = "restarting" /\ p \in Restarting /\ faults < MaxFaults
    /\ saved[p] # conn[p]
    /\ saved' = [saved EXCEPT ![p] = conn[p]]
    /\ UNCHANGED <<conn, half, box, owner, invitations, accepted, faults, asks, kind>>

(* The process ends, wherever it is, and the next one deserialises what was
   saved (from_string). *)
Restart(p) ==
    /\ p \in Restarting /\ conn[p].state # "Released" /\ conn[p] # saved[p]
    /\ kind = "restarting" /\ faults < MaxFaults /\ faults' = faults + 1
    /\ conn' = [conn EXCEPT ![p] = saved[p]]
    /\ half' = half \ {p}
    /\ UNCHANGED <<saved, box, owner, invitations, accepted, asks, kind>>

(* vcx_connection_delete_connection: the handle is released whether or not
   the agency is told; a deleted agent still takes messages. *)
Delete(p) ==
    /\ kind = "failing"
    /\ Callable(p)
    /\ conn' = [conn EXCEPT ![p] = Released]
    /\ UNCHANGED <<saved, half, box, owner, invitations, accepted, faults, asks, kind>>

Update(p) == UpdateCurrent(p) \/ UpdatePrevious(p)

Next ==
    \E p \in Parties :
        \/ Create(p) \/ DoConnect(p)
        \/ \E type \in {"send_ping", "send_query"} : SendAsk(p, type)
        \/ \E k \in Keys : \E m \in DOMAIN box[k] : UpdateByHand(p, k, m)
        \/ UpdateCurrent(p) \/ UpdatePrevious(p)
        \/ Save(p) \/ Restart(p) \/ Delete(p)

Spec == Init /\ [][Next]_vars

(* The applications poll: update_state is all that moves a connection. *)
Fairness == \A p \in Parties : WF_vars(Update(p))
FairSpec == Spec /\ Fairness

-----------------------------------------------------------------------------
Connections == [state : States, agent : Keys \cup {NoKey}, doc : Keys \cup {NoKey}, prev : Keys \cup {NoKey}]
Mail == [type : {"request", "response", "ack", "problem", "ping", "pong", "query", "disclose"},
         from : Keys, thread : Nat, signer : Keys \cup {NoKey}]

(* The types of the variables; a call is between its halves only while the
   connection is Responded, which is what prev_agent_info() reads. *)
TypeOK ==
    /\ conn \in [Parties -> Connections] /\ saved \in [Parties -> Connections]
    /\ owner \in [Keys -> Parties \cup {"nobody"}]
    /\ invitations \subseteq Keys /\ accepted \subseteq Keys \X Keys
    /\ \A k \in Keys : DOMAIN box[k] \subseteq Mail
    /\ half \subseteq {p \in Parties : conn[p].state = "Responded"}
    /\ \A p \in Parties : conn[p].prev # NoKey <=> conn[p].state = "Responded"

(* An inviter that is Completed is connected to an invitee that has accepted
   its keys: the request it answered, conn.doc, got a response with the very
   agent the inviter now uses, and passed the checks of
   handle_connection_response.  Acks, pings and problem reports carry no
   check of their thread, so this rests on the agent being new for each
   request: it must survive two requests for one invitation, retried
   requests, lost answers, a restart from an older state, and messages
   handled twice. *)
InviterAgrees ==
    conn[Inviter].state = "Completed" => <<conn[Inviter].doc, conn[Inviter].agent>> \in accepted

(* An invitee that is Completed addresses an agent the inviter created in
   answer to this very request: not to one it sent before a failed connect,
   nor to the request of another invitee. *)
InviteeAgrees ==
    \A p \in Invitees :
        conn[p].state = "Completed" =>
            /\ owner[conn[p].doc] = Inviter
            /\ \E m \in DOMAIN box[conn[p].agent] :
                    m.type = "response" /\ m.thread = conn[p].agent /\ m.from = conn[p].doc

(* When no call fails, an inviter that has answered a request does become
   Completed, and so does the invitee it answered: the acknowledgement is
   looked for where the invitee sends it. *)
HandshakeEnds ==
    (kind = "calm" /\ conn[Inviter].state = "Responded")
        ~> (/\ conn[Inviter].state = "Completed"
            /\ conn[owner[conn[Inviter].doc]].state = "Completed")
=============================================================================
