--------------------------- MODULE PoolLifecycle ---------------------------
(***************************************************************************)
(* Opening, refreshing, using and closing pools: the command executor with *)
(* its callback maps (commands/pool.rs, commands/ledger.rs), PoolService   *)
(* with open_pools and pending_pools (services/pool/mod.rs), and one       *)
(* worker thread per pool running PoolSM (services/pool/pool.rs).          *)
(*                                                                         *)
(* There is one executor thread.  It shares with a worker only two queues: *)
(* the pool's command socket (inbox) and the executor's channel (acks of   *)
(* the workers).  An API call is modelled at the moment the executor takes *)
(* it from its channel.  The catch-up and the requests in flight are       *)
(* abstracted to what they may report (RequestHandlerSpec, Catchup).       *)
(***************************************************************************)
EXTENDS Naturals, FiniteSets, Sequences, Functions

CONSTANTS
    Names,          \* pool names
    ReqIds,         \* reqId values of submitted requests
    Uses,           \* the ways the application may use its pools, see use
    MaxId           \* bound on the ids drawn from indy_utils::sequence

ASSUME LifecycleAssumption ==
    /\ MaxId \in Nat
    /\ Uses \subseteq [calls : SUBSET STRING, unique : BOOLEAN, Hwm : Nat]

VARIABLES
    dirs,           \* names with a configuration directory
    configs,        \* names whose directory has the genesis transactions
    protocol,       \* the process-wide ProtocolVersion
    next_id,        \* next id of the shared sequence
    pools,          \* PoolService: handle -> name and the map that holds the pool
    sm,             \* handle -> PoolSM of the worker thread
    inbox,          \* handle -> commands sent and not yet received
    channel,        \* acks sent to the executor and not yet executed
    callbacks,      \* ids in open_, refresh_, close_ and send_callbacks
    joining,        \* the close the executor waits for in Drop for ZMQPool
    answers,        \* id -> results given to the application's callback
    use             \* of this behaviour: the API calls that are made, whether no
                    \* reqId is reused, and how many messages a command socket
                    \* holds (ZeroMQ high-water mark)

vars == <<dirs, configs, protocol, next_id, pools, sm, inbox, channel, callbacks,
          joining, answers, use>>

Ids == 1 .. MaxId
None == 0
NotJoining == [pool |-> None, cmd |-> None, sent |-> FALSE, exit |-> FALSE]
NoName == "no name"
NoReqId == "no reqId"
Kinds == {"Open", "Refresh", "Close", "Submit"}
\* NodeTransactionV1 in the genesis file: build_node_state wants version 2.
GenesisVersion == 2

States == {"None", "Initialization", "GettingCatchupTarget", "SyncCatchup",
           "Active", "Terminated", "Closed"}

\* request_handlers: at most one per reqId, see InsertHandler.
Handlers == [req : ReqIds, cmd : Ids, done : BOOLEAN]

Events == [type : {"CheckCache", "Refresh", "SendRequest", "Close"},
           cmd : Ids \cup {None}, req : ReqIds \cup {NoReqId}]

Acks == [kind : Kinds, cmd : Ids \cup {None}, result : {"Ok", "Err"}]

\* The types; a pool runs at most one request per reqId, and its socket never
\* holds more than Hwm messages.
TypeOK ==
    /\ dirs \subseteq Names /\ configs \subseteq dirs
    /\ protocol \in {1, 2}
    /\ next_id \in 1 .. MaxId + 1
    /\ pools \in [Ids -> [name : Names \cup {NoName},
                          at : {"none", "pending", "open", "dropped"}]]
    /\ sm \in [Ids -> [state : States, cmd : Ids \cup {None}, refresh : BOOLEAN,
                       handlers : SUBSET Handlers]]
    /\ \A h \in Ids : \A x, y \in sm[h].handlers : x.req = y.req => x = y
    /\ inbox \in [Ids -> Seq(Events)]
    /\ \A h \in Ids : Len(inbox[h]) <= use.Hwm
    /\ channel \in Seq(Acks)
    /\ callbacks \in [Kinds -> SUBSET Ids]
    /\ joining \in [pool : Ids \cup {None}, cmd : Ids \cup {None}, sent : BOOLEAN, exit : BOOLEAN]
    /\ answers \in [Ids -> Seq({"Ok", "Err"})]
    /\ use \in Uses

Init ==
    /\ dirs = {} /\ configs = {} /\ protocol = 2 /\ next_id = 1
    /\ pools = [h \in Ids |-> [name |-> NoName, at |-> "none"]]
    /\ sm = [h \in Ids |-> [state |-> "None", cmd |-> None, refresh |-> FALSE,
                            handlers |-> {}]]
    /\ inbox = [h \in Ids |-> <<>>]
    /\ channel = <<>> /\ callbacks = [k \in Kinds |-> {}]
    /\ joining = NotJoining
    /\ answers = [c \in Ids |-> <<>>]
    /\ use \in Uses

-----------------------------------------------------------------------------
(* The executor: API calls.                                                *)

Event(type, cmd, req) == [type |-> type, cmd |-> cmd, req |-> req]

Idle == joining.pool = None

Answer(cmd, result) == answers' = [answers EXCEPT ![cmd] = Append(@, result)]

Register(kind, cmd) == callbacks' = [callbacks EXCEPT ![kind] = @ \cup {cmd}]

\* PoolService::create; the callback gets its answer within the call.  A failure
\* after create_dir_all leaves the directory, with or without the transactions.
Create(name) ==
    /\ Idle /\ "Create" \in use.calls
    /\ name \notin dirs
    /\ dirs' = dirs \cup {name}
    /\ configs' \in {configs, configs \cup {name}}
    /\ UNCHANGED <<protocol, next_id, pools, sm, inbox, channel, callbacks, joining, answers, use>>

OpenPools == {h \in Ids : pools[h].at = "open"}

IsOpened(name) == \E h \in OpenPools : pools[h].name = name

\* PoolService::delete looks at open_pools only.  remove_dir_all may fail half way.
Delete(name) ==
    /\ Idle /\ "Delete" \in use.calls
    /\ name \in dirs /\ ~IsOpened(name)
    /\ dirs' \in {dirs, dirs \ {name}}
    /\ configs' = configs \ {name}
    /\ UNCHANGED <<protocol, next_id, pools, sm, inbox, channel, callbacks, joining, answers, use>>

set_protocol_version(version) ==
    /\ Idle /\ "SetProtocolVersion" \in use.calls
    /\ version # protocol
    /\ protocol' = version
    /\ UNCHANGED <<dirs, configs, next_id, pools, sm, inbox, channel, callbacks, joining, answers, use>>

\* PoolCommandExecutor::open: the pool's handle is also the command's id.  The
\* socket is new, so the connect command fits.
Open(name) ==
    /\ Idle /\ "Open" \in use.calls /\ next_id \in Ids
    /\ next_id' = next_id + 1
    /\ IF IsOpened(name)
       THEN /\ Answer(next_id, "Err")
            /\ UNCHANGED <<pools, sm, inbox, callbacks>>
       ELSE /\ pools' = [pools EXCEPT ![next_id] = [name |-> name, at |-> "pending"]]
            /\ sm' = [sm EXCEPT ![next_id].state = "Initialization"]
            /\ inbox' = [inbox EXCEPT ![next_id] = <<Event("CheckCache", next_id, NoReqId)>>]
            /\ Register("Open", next_id)
            /\ UNCHANGED answers
    /\ UNCHANGED <<dirs, configs, protocol, channel, joining, use>>

HasRoom(h) == Len(inbox[h]) < use.Hwm

\* PoolService::send_action: an unknown handle, or a socket that takes no more
\* messages (DONTWAIT), is an error given to the callback at once.
send_action(kind, h, type, req) ==
    /\ Idle /\ next_id \in Ids
    /\ next_id' = next_id + 1
    /\ IF h \in OpenPools /\ HasRoom(h)
       THEN /\ inbox' = [inbox EXCEPT ![h] = Append(@, Event(type, next_id, req))]
            /\ Register(kind, next_id)
            /\ UNCHANGED answers
       ELSE /\ Answer(next_id, "Err")
            /\ UNCHANGED <<inbox, callbacks>>
    /\ UNCHANGED <<dirs, configs, protocol, pools, sm, channel, joining, use>>

Refresh(h) == "Refresh" \in use.calls /\ send_action("Refresh", h, "Refresh", NoReqId)

InUse == UNION {{e.req : e \in Range(inbox[h])} \cup {x.req : x \in sm[h].handlers} : h \in Ids}

\* submit_request and submit_action.
Submit(h, req) ==
    /\ "Submit" \in use.calls
    /\ use.unique => req \notin InUse \ {NoReqId}
    /\ send_action("Submit", h, "SendRequest", req)

SendExit(h, cmd) ==
    inbox' = IF HasRoom(h) THEN [inbox EXCEPT ![h] = Append(@, Event("Close", cmd, NoReqId))]
                           ELSE inbox

StillOpen(h) == pools

Removed(h) == [pools EXCEPT ![h].at = "dropped"]

\* PoolService::close: the pool leaves open_pools, gets the exit command, and is
\* dropped at the end of the match.
Close(h) ==
    /\ Idle /\ "Close" \in use.calls /\ next_id \in Ids
    /\ next_id' = next_id + 1
    /\ IF h \in OpenPools
       THEN /\ pools' = Removed(h)
            /\ SendExit(h, next_id)
            /\ joining' = [pool |-> h, cmd |-> next_id, sent |-> HasRoom(h), exit |-> FALSE]
            /\ UNCHANGED answers
       ELSE /\ Answer(next_id, "Err")
            /\ UNCHANGED <<pools, inbox, joining>>
    /\ UNCHANGED <<dirs, configs, protocol, sm, channel, callbacks, use>>

\* Drop for ZMQPool sends one more exit, without an id, before it joins.
DropExit ==
    /\ ~Idle /\ ~joining.exit
    /\ SendExit(joining.pool, None)
    /\ joining' = [joining EXCEPT !.exit = TRUE]
    /\ UNCHANGED <<dirs, configs, protocol, next_id, pools, sm, channel, callbacks, answers, use>>

\* worker.join() returns.  Only now is the callback put into close_callbacks, or
\* told that the exit command could not be sent.
Joined ==
    /\ ~Idle /\ joining.exit
    /\ sm[joining.pool].state = "Closed"
    /\ joining' = NotJoining
    /\ IF joining.sent THEN Register("Close", joining.cmd) /\ UNCHANGED answers
                       ELSE Answer(joining.cmd, "Err") /\ UNCHANGED callbacks
    /\ UNCHANGED <<dirs, configs, protocol, next_id, pools, sm, inbox, channel, use>>

\* OpenAck, RefreshAck, CloseAck, SubmitAck: the callback leaves its map and gets
\* the result; a successful open moves the pool from pending_pools to open_pools
\* (add_open_pool).  An ack without a callback is only logged.
ExecuteAck ==
    /\ Idle /\ channel # <<>>
    /\ LET ack == Head(channel) IN
       /\ channel' = Tail(channel)
       /\ IF ack.cmd \in callbacks[ack.kind]
          THEN /\ callbacks' = [callbacks EXCEPT ![ack.kind] = @ \ {ack.cmd}]
               /\ Answer(ack.cmd, ack.result)
               /\ pools' = IF ack.kind = "Open" /\ ack.result = "Ok"
                           THEN [pools EXCEPT ![ack.cmd].at = "open"] ELSE pools
          ELSE UNCHANGED <<callbacks, answers, pools>>
    /\ UNCHANGED <<dirs, configs, protocol, next_id, sm, inbox, joining, use>>

-----------------------------------------------------------------------------
(* The worker thread of pool h: PoolSM::handle_event.                      *)

Ack(kind, cmd, result) == [kind |-> kind, cmd |-> cmd, result |-> result]

Send(acks) == channel' = channel \o acks

\* From<...> impls: request_handlers exist in Active only.
Move(h, state) == sm' = [sm EXCEPT ![h].state = state, ![h].handlers = {}]

TerminateAll(h) ==
    LET left == {x.cmd : x \in sm[h].handlers}
    IN {[i \in 1 .. Cardinality(left) |-> Ack("Submit", order[i], "Err")] :
            order \in Injection(1 .. Cardinality(left), left)}

TerminateNone(h) == {<<>>}

\* From<ActiveState> for ClosedState: every handler gets Terminate, a handler
\* that has finished ignores it.  The order of the map is arbitrary.
TerminateHandlers(h) ==
    LET left == {x.cmd : x \in {y \in sm[h].handlers : ~y.done}}
    IN {[i \in 1 .. Cardinality(left) |-> Ack("Submit", order[i], "Err")] :
            order \in Injection(1 .. Cardinality(left), left)}

\* _get_request_handler_with_ledger_status_sent: needs the transactions, of the
\* version that is set.
CanStart(h) == pools[h].name \in configs /\ protocol = GenesisVersion

\* _send_open_refresh_ack.
CatchupAck(h, result) ==
    Ack(IF sm[h].refresh THEN "Refresh" ELSE "Open", sm[h].cmd, result)

Ignore == UNCHANGED <<sm, channel>>

CloseWhenQuiet(h, cmd) ==
    IF \E x \in sm[h].handlers : ~x.done THEN Ignore
    ELSE Move(h, "Closed") /\ Send(<<Ack("Close", cmd, "Ok")>>)

OnClose(h, cmd) ==
    /\ Move(h, "Closed")
    /\ \E left \in TerminateHandlers(h) : Send(<<Ack("Close", cmd, "Ok")>> \o left)

OnCheckCache(h, cmd) ==
    IF CanStart(h)
    THEN /\ sm' = [sm EXCEPT ![h] = [state |-> "GettingCatchupTarget", cmd |-> cmd,
                                     refresh |-> FALSE, handlers |-> {}]]
         /\ UNCHANGED channel
    ELSE /\ Move(h, "Terminated")
         /\ Send(<<Ack("Open", cmd, "Err")>>)

\* In Active the requests in flight go with the state; in Active and in
\* Terminated a failing start is not acknowledged.
OnRefresh(h, cmd) ==
    /\ IF CanStart(h)
       THEN sm' = [sm EXCEPT ![h] = [state |-> "GettingCatchupTarget", cmd |-> cmd,
                                     refresh |-> TRUE, handlers |-> {}]]
       ELSE Move(h, "Terminated")
    /\ UNCHANGED channel

RefreshStates == {"Active", "Terminated"}

\* request_handlers.insert: a handler of the same reqId is replaced.
InsertHandler(h, handler) ==
    sm' = [sm EXCEPT ![h].handlers = {x \in @ : x.req # handler.req} \cup {handler}]

\* A request without a reqId is refused by PoolSM; one that its handler refuses
\* at once (an action with a bad list of nodes) is answered, and kept.
OnSendRequest(h, cmd, req) ==
    IF req = NoReqId
    THEN Send(<<Ack("Submit", cmd, "Err")>>) /\ UNCHANGED sm
    ELSE \E refused \in BOOLEAN :
            /\ InsertHandler(h, [req |-> req, cmd |-> cmd, done |-> refused])
            /\ Send(IF refused THEN <<Ack("Submit", cmd, "Err")>> ELSE <<>>)

\* Commander::fetch_events and the command arms of handle_event.
OnCommand(h) ==
    /\ inbox[h] # <<>> /\ sm[h].state # "Closed"
    /\ inbox' = [inbox EXCEPT ![h] = Tail(@)]
    /\ LET e == Head(inbox[h])
           state == sm[h].state
       IN \/ e.type = "Close" /\ OnClose(h, e.cmd)
          \/ e.type = "CheckCache" /\ state = "Initialization" /\ OnCheckCache(h, e.cmd)
          \/ e.type = "Refresh" /\ state \in RefreshStates /\ OnRefresh(h, e.cmd)
          \/ e.type = "SendRequest" /\ state = "Active" /\ OnSendRequest(h, e.cmd, e.req)
          \/ /\ \/ e.type = "Refresh" /\ state \notin RefreshStates
                \/ e.type = "SendRequest" /\ state # "Active"
             /\ Ignore
    /\ UNCHANGED <<dirs, configs, protocol, next_id, pools, callbacks, joining, answers, use>>

NodesParse == protocol = GenesisVersion

\* The handler of GettingCatchupTarget reports Synced, CatchupTargetFound,
\* CatchupRestart or CatchupTargetNotFound.  Only the last one, and a Synced
\* whose node transactions can be read, are acknowledged.
GettingCatchupTarget(h, outcome) ==
    /\ sm[h].state = "GettingCatchupTarget"
    /\ \/ /\ outcome = "CatchupTargetNotFound"
          /\ Move(h, "Terminated") /\ Send(<<CatchupAck(h, "Err")>>)
       \/ /\ outcome = "Synced" /\ NodesParse
          /\ Move(h, "Active") /\ Send(<<CatchupAck(h, "Ok")>>)
       \/ /\ outcome = "CatchupTargetFound" /\ NodesParse
          /\ Move(h, "SyncCatchup") /\ UNCHANGED channel
       \/ /\ outcome \in {"Synced", "CatchupTargetFound", "CatchupRestart"} /\ ~NodesParse
          /\ Move(h, "Terminated") /\ UNCHANGED channel
    /\ UNCHANGED <<dirs, configs, protocol, next_id, pools, inbox, callbacks, joining, answers, use>>

\* The handler of SyncCatchup reports Synced once dump_new_txns has written to
\* the pool's directory.
SyncCatchup(h) ==
    /\ sm[h].state = "SyncCatchup" /\ pools[h].name \in configs
    /\ IF NodesParse
       THEN Move(h, "Active") /\ Send(<<CatchupAck(h, "Ok")>>)
       ELSE Move(h, "Terminated") /\ UNCHANGED channel
    /\ UNCHANGED <<dirs, configs, protocol, next_id, pools, inbox, callbacks, joining, answers, use>>

\* A NodeReply ends the request of handler x; a late one of a request that a
\* Timeout has ended only removes the handler.
NodeReply(h, x) ==
    /\ sm[h].state = "Active" /\ x \in sm[h].handlers
    /\ sm' = [sm EXCEPT ![h].handlers = @ \ {x}]
    /\ \E result \in {"Ok", "Err"} :
          Send(IF x.done THEN <<>> ELSE <<Ack("Submit", x.cmd, result)>>)
    /\ UNCHANGED <<dirs, configs, protocol, next_id, pools, inbox, callbacks, joining, answers, use>>

\* A Timeout ends the request of handler x, which stays in request_handlers.
Timeout(h, x) ==
    /\ sm[h].state = "Active" /\ x \in sm[h].handlers /\ ~x.done
    /\ InsertHandler(h, [x EXCEPT !.done = TRUE])
    /\ \E result \in {"Ok", "Err"} : Send(<<Ack("Submit", x.cmd, result)>>)
    /\ UNCHANGED <<dirs, configs, protocol, next_id, pools, inbox, callbacks, joining, answers, use>>

-----------------------------------------------------------------------------
Executor ==
    \/ \E name \in Names : Create(name) \/ Delete(name) \/ Open(name)
    \/ \E version \in {1, 2} : set_protocol_version(version)
    \/ \E h \in Ids : Refresh(h) \/ Close(h)
    \/ \E h \in Ids, req \in ReqIds \cup {NoReqId} : Submit(h, req)
    \/ DropExit \/ Joined \/ ExecuteAck

PoolThread(h) ==
    \/ OnCommand(h)
    \/ \E outcome \in {"Synced", "CatchupTargetFound", "CatchupTargetNotFound", "CatchupRestart"} :
          GettingCatchupTarget(h, outcome)
    \/ SyncCatchup(h)
    \/ \E x \in sm[h].handlers : NodeReply(h, x) \/ Timeout(h, x)

Next == Executor \/ \E h \in Ids : PoolThread(h)

Spec == Init /\ [][Next]_vars

\* Both threads run, and the worker looks at its command socket in every round.
\* Nothing is assumed of the nodes: a catch-up or a request may wait for ever.
FairSpec ==
    /\ Spec
    /\ WF_vars(ExecuteAck) /\ WF_vars(DropExit) /\ WF_vars(Joined)
    /\ \A h \in Ids : WF_vars(OnCommand(h))

-----------------------------------------------------------------------------
\* No ack is lost: when the executor reaches an ack its callback is in the map,
\* the callback of a close being put there after the worker has sent the ack,
\* and no command gets a second ack ("appropriate callback not found!").
AckHasCallback ==
    \A i \in DOMAIN channel : channel[i].cmd # None =>
       /\ \/ channel[i].cmd \in callbacks[channel[i].kind]
          \/ channel[i].kind = "Close" /\ joining.cmd = channel[i].cmd /\ joining.sent
       /\ \A j \in DOMAIN channel : channel[j].cmd = channel[i].cmd => i = j

\* A handle the application holds after a successful open, and has not closed,
\* belongs to a worker thread that has left Initialization and still runs.
OpenIsServed ==
    \A h \in OpenPools : sm[h].state \notin {"None", "Initialization", "Closed"}

\* No refresh drops requests in flight, no directory disappears, no protocol
\* version changes, reqIds are unique and every command fits its socket.
Calm ==
    /\ use.unique /\ use.Hwm > MaxId + 1
    /\ use.calls \cap {"Refresh", "Delete", "SetProtocolVersion"} = {}

\* close never blocks the executor for good: the worker it joins always reaches
\* the exit command and ends, whatever was queued before it.
CloseReturns == Calm => []<>Idle

\* The nodes still owe an answer: to the catch-up of an open, or to a request that
\* has its handler.
NodesOwe(kind, cmd) ==
    \/ kind = "Open" /\ sm[cmd].state \in {"GettingCatchupTarget", "SyncCatchup"}
    \/ /\ kind = "Submit"
       /\ \E h \in Ids : \E x \in sm[h].handlers : x.cmd = cmd /\ ~x.done

\* Every callback that was registered is called, unless the nodes leave it waiting:
\* it leaves its map only with its answer, and in the end only callbacks the nodes
\* owe an answer are left.  No callback of a close is, nor one of a closed pool.
AllAnswered ==
    Calm => <>[](\A k \in Kinds : \A c \in callbacks[k] : NodesOwe(k, c))

\* "It is impossible to open pool with the same name more than once."
SameNameOnce ==
    \A h, g \in OpenPools : pools[h].name = pools[g].name => h = g
=============================================================================
