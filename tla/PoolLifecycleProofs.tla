------------------------ MODULE PoolLifecycleProofs ------------------------
(***************************************************************************)
(* OpenIsServed of PoolLifecycle, for any number of pools and commands,    *)
(* any reqIds and any size of the command sockets.                         *)
(***************************************************************************)
EXTENDS PoolLifecycle, SequenceTheorems, FiniteSetTheorems, TLAPS

\* The worker of h has left Initialization.
Left(h) == sm[h].state \notin {"None", "Initialization"}

\* What the socket of pool h can hold: the connect command of h itself, and an
\* exit only once the pool is dropped.
Fitting(h) ==
  {e \in Events : /\ e.type = "CheckCache" => e.cmd = h
                  /\ e.type = "Close" => pools[h].at = "dropped"
                  /\ e.type = "SendRequest" => e.cmd \in Ids}

\* What the executor's channel can hold: a successful open of a running worker.
Right == {a \in Acks : a.kind = "Open" /\ a.result = "Ok" => a.cmd \in Ids /\ Left(a.cmd)}

Types ==
  /\ next_id \in Nat
  /\ pools \in [Ids -> [name : Names \cup {NoName},
                        at : {"none", "pending", "open", "dropped"}]]
  /\ sm \in [Ids -> [state : States, cmd : Ids \cup {None}, refresh : BOOLEAN,
                     handlers : SUBSET Handlers]]
  /\ DOMAIN inbox = Ids
  /\ DOMAIN callbacks = Kinds

\* The pool of handle h, as the executor and the worker see it.
PoolOK(h) ==
  /\ inbox[h] \in Seq(Fitting(h))
  /\ h \in callbacks["Open"] => pools[h].at = "pending"
  /\ h >= next_id => pools[h].at = "none" /\ sm[h].state = "None"
  /\ pools[h].at = "open" => Left(h)
  /\ sm[h].state = "Closed" => pools[h].at = "dropped"
  /\ sm[h].state \in {"GettingCatchupTarget", "SyncCatchup"} /\ ~sm[h].refresh => sm[h].cmd = h

\* The inductive invariant.
IInv ==
  /\ Types
  /\ \A h \in Ids : PoolOK(h)
  /\ channel \in Seq(Right)
  /\ joining.pool # None => joining.pool \in Ids /\ pools[joining.pool].at = "dropped"
-----------------------------------------------------------------------------
\* A sequence of members of S is one of members of a larger set.
LEMMA SeqMono ==
  ASSUME NEW S, NEW T, S \subseteq T, NEW s \in Seq(S)
  PROVE  s \in Seq(T)
OBVIOUS

\* Handles are numbers.
LEMMA IdsType == MaxId \in Nat /\ Ids \subseteq Nat /\ None = 0 /\ None \notin Ids
BY LifecycleAssumption DEF Ids, None

\* A step of the worker of h: what it may do to its state and to its socket.
WorkerMoves(h) ==
  /\ sm' \in [Ids -> [state : States, cmd : Ids \cup {None}, refresh : BOOLEAN,
                      handlers : SUBSET Handlers]]
  /\ \A g \in Ids : g # h => sm'[g] = sm[g]
  /\ sm'[h].state # sm[h].state => h < next_id
  /\ Left(h) => Left(h)'
  /\ sm'[h].state = "Closed" => pools[h].at = "dropped"
  /\ sm'[h].state \in {"GettingCatchupTarget", "SyncCatchup"} /\ ~sm'[h].refresh
        => sm'[h].cmd = h

WorkerTakes(h) ==
  /\ DOMAIN inbox' = Ids
  /\ inbox'[h] \in Seq(Fitting(h))
  /\ \A g \in Ids : g # h => inbox'[g] = inbox[g]
  /\ UNCHANGED <<next_id, pools, callbacks, joining>>

\* Acks that move no pool to open_pools.
Harmless == {a \in Acks : ~(a.kind = "Open" /\ a.result = "Ok")}

\* Such a step keeps the invariant, whatever acks it sends that are right.
LEMMA WorkerStep ==
  ASSUME IInv, NEW h \in Ids, WorkerMoves(h), WorkerTakes(h),
         NEW acks, acks \in Seq(Right'), channel' = channel \o acks
  PROVE  IInv'
<1> USE DEF WorkerMoves, WorkerTakes
<1>1. Types'
  BY DEF IInv, Types
<1>2. ASSUME NEW g \in Ids
      PROVE  PoolOK(g)'
  <2>1. Fitting(g)' = Fitting(g)
    BY DEF Fitting
  <2>2. CASE g = h
    BY <2>1, <2>2, IdsType, SMTT(30) DEF IInv, Types, PoolOK, Left
  <2>3. CASE g # h
    <3>1. PoolOK(g) /\ sm'[g] = sm[g] /\ inbox'[g] = inbox[g]
      BY <2>3 DEF IInv
    <3>2. QED
      BY <2>1, <3>1 DEF PoolOK, Left
  <2>4. QED
    BY <2>2, <2>3
<1>3. channel' \in Seq(Right')
  <2>1. \A g \in Ids : Left(g) => Left(g)'
    BY DEF Left
  <2>2. Right \subseteq Right'
    BY <2>1 DEF Right
  <2>3. channel \in Seq(Right')
    BY <2>2, SeqMono DEF IInv
  <2>4. QED
    BY <2>3, ConcatProperties
<1>4. QED
  BY <1>1, <1>2, <1>3 DEF IInv

\* Harmless acks are right in every state.
LEMMA HarmlessIsRight ==
  ASSUME NEW acks \in Seq(Harmless)
  PROVE  acks \in Seq(Right')
<1>1. Harmless \subseteq Right'
  BY DEF Harmless, Right
<1>2. QED
  BY <1>1, SeqMono

\* The first event of a socket, and what is left of it.
LEMMA Taken ==
  ASSUME NEW S, NEW s \in Seq(S), s # <<>>
  PROVE  Head(s) \in S /\ Tail(s) \in Seq(S)
BY HeadTailProperties

\* The acks of the handlers that ClosedState terminates.
LEMMA TerminatedType ==
  ASSUME IInv, NEW h \in Ids, NEW acks \in TerminateHandlers(h)
  PROVE  acks \in Seq(Harmless)
<1> DEFINE left == {x.cmd : x \in {y \in sm[h].handlers : ~y.done}}
<1>1. left \subseteq Ids
  BY DEF IInv, Types, Handlers
<1>2. IsFiniteSet(Ids)
  BY IdsType, FS_Interval DEF Ids
<1>3. Cardinality(left) \in Nat
  BY <1>1, <1>2, FS_Subset, FS_CardinalityType
<1>4. PICK order \in [1 .. Cardinality(left) -> left] :
         acks = [i \in 1 .. Cardinality(left) |-> Ack("Submit", order[i], "Err")]
  BY Zenon DEF TerminateHandlers, Injection
<1> HIDE DEF left
<1>5. \A i \in 1 .. Cardinality(left) : acks[i] \in Harmless
  BY <1>1, <1>4 DEF Ack, Acks, Kinds, Harmless
<1>6. QED
  BY <1>3, <1>4, <1>5

\* Initially no pool is open.
LEMMA InitIInv == Init => IInv
<1> SUFFICES ASSUME Init PROVE IInv
  OBVIOUS
<1>1. Types
  BY IdsType, Zenon DEF Init, Types, States, NoName
<1>2. ASSUME NEW h \in Ids PROVE PoolOK(h)
  BY IdsType DEF Init, PoolOK, Left, Kinds
<1>3. channel \in Seq(Right) /\ joining.pool = None
  BY DEF Init, NotJoining
<1>4. QED
  BY <1>1, <1>2, <1>3 DEF IInv

\* A command that the worker takes from its socket.
LEMMA OnCommandIInv ==
  ASSUME IInv, NEW h \in Ids, OnCommand(h)
  PROVE  IInv'
<1> DEFINE e == Head(inbox[h])
<1>1. e \in Fitting(h) /\ Tail(inbox[h]) \in Seq(Fitting(h))
  BY Taken DEF IInv, PoolOK, OnCommand
<1>2. e \in Events
  BY <1>1 DEF Fitting
<1>3. WorkerTakes(h)
  BY <1>1 DEF OnCommand, WorkerTakes, IInv, Types
<1>4. /\ sm \in [Ids -> [state : States, cmd : Ids \cup {None}, refresh : BOOLEAN,
                         handlers : SUBSET Handlers]]
      /\ sm[h].state # "None" => h < next_id
      /\ next_id \in Nat /\ h \in Nat
      /\ PoolOK(h)
  BY IdsType DEF IInv, Types, PoolOK
<1> HIDE DEF e
<1>5. CASE e.type = "Close" /\ OnClose(h, e.cmd)
  <2>1. PICK left \in TerminateHandlers(h) :
           channel' = channel \o (<<Ack("Close", e.cmd, "Ok")>> \o left)
    BY <1>5, SMTT(30) DEF OnClose, Send
  <2>2. <<Ack("Close", e.cmd, "Ok")>> \in Seq(Harmless) /\ left \in Seq(Harmless)
    BY TerminatedType, <1>2 DEF Ack, Acks, Kinds, Events, Harmless
  <2>3. <<Ack("Close", e.cmd, "Ok")>> \o left \in Seq(Right')
    BY <2>2, ConcatProperties, HarmlessIsRight, Zenon
  <2>4. sm' = [sm EXCEPT ![h].state = "Closed", ![h].handlers = {}]
    BY <1>5 DEF OnClose, Move
  <2>5. pools[h].at = "dropped" /\ h < next_id
    BY <1>1, <1>4, <1>5 DEF Fitting, PoolOK
  <2>6. WorkerMoves(h)
    BY <1>4, <2>4, <2>5, ZenonT(60) DEF WorkerMoves, Left, States
  <2>7. QED
    BY <1>3, <2>1, <2>3, <2>6, WorkerStep, Zenon
<1>6. CASE e.type = "CheckCache" /\ sm[h].state = "Initialization" /\ OnCheckCache(h, e.cmd)
  <2>1. e.cmd = h
    BY <1>1, <1>6 DEF Fitting
  <2>2. CASE CanStart(h)
    <3>1. /\ sm' = [sm EXCEPT ![h] = [state |-> "GettingCatchupTarget", cmd |-> h,
                                      refresh |-> FALSE, handlers |-> {}]]
          /\ UNCHANGED channel
      BY <1>6, <2>1, <2>2 DEF OnCheckCache
    <3>2. WorkerMoves(h)
      BY <1>4, <1>6, <3>1, ZenonT(60) DEF WorkerMoves, Left, States
    <3>3. channel' = channel \o << >>
      BY <3>1, ConcatEmptySeq DEF IInv
    <3>4. << >> \in Seq(Right')
      OBVIOUS
    <3>5. QED
      BY <1>3, <3>2, <3>3, <3>4, WorkerStep, Zenon
  <2>3. CASE ~CanStart(h)
    <3>1. /\ sm' = [sm EXCEPT ![h].state = "Terminated", ![h].handlers = {}]
          /\ channel' = channel \o <<Ack("Open", h, "Err")>>
      BY <1>6, <2>1, <2>3 DEF OnCheckCache, Move, Send
    <3>2. WorkerMoves(h)
      BY <1>4, <1>6, <3>1, ZenonT(60) DEF WorkerMoves, Left, States
    <3>3. <<Ack("Open", h, "Err")>> \in Seq(Harmless)
      BY DEF Harmless, Acks, Ack, Kinds
    <3>4. QED
      BY <1>3, <3>1, <3>2, <3>3, WorkerStep, HarmlessIsRight, Zenon
  <2>4. QED
    BY <2>2, <2>3
<1>7. CASE e.type = "Refresh" /\ sm[h].state \in RefreshStates /\ OnRefresh(h, e.cmd)
  <2>1. \/ sm' = [sm EXCEPT ![h] = [state |-> "GettingCatchupTarget", cmd |-> e.cmd,
                                    refresh |-> TRUE, handlers |-> {}]]
        \/ sm' = [sm EXCEPT ![h].state = "Terminated", ![h].handlers = {}]
    BY <1>7 DEF OnRefresh, Move
  <2>2. WorkerMoves(h)
    <3>1. e.cmd \in Ids \cup {None} /\ h < next_id
      BY <1>2, <1>4, <1>7 DEF Events, RefreshStates
    <3>2. CASE sm' = [sm EXCEPT ![h] = [state |-> "GettingCatchupTarget", cmd |-> e.cmd,
                                        refresh |-> TRUE, handlers |-> {}]]
      BY <1>4, <3>1, <3>2, ZenonT(60) DEF WorkerMoves, Left, States
    <3>3. CASE sm' = [sm EXCEPT ![h].state = "Terminated", ![h].handlers = {}]
      BY <1>4, <3>1, <3>3, ZenonT(60) DEF WorkerMoves, Left, States
    <3>4. QED
      BY <2>1, <3>2, <3>3
  <2>3. channel' = channel \o << >>
    BY <1>7, ConcatEmptySeq DEF IInv, OnRefresh
  <2>4. << >> \in Seq(Right')
    BY SMTT(30)
  <2>5. QED
    BY <1>3, <2>2, <2>3, <2>4, WorkerStep, ZenonT(60)
<1>8. CASE e.type = "SendRequest" /\ sm[h].state = "Active" /\ OnSendRequest(h, e.cmd, e.req)
  <2>1. e.cmd \in Ids /\ <<Ack("Submit", e.cmd, "Err")>> \in Seq(Harmless)
    BY <1>1, <1>8 DEF Fitting, Harmless, Acks, Ack, Kinds
  <2>2. CASE e.req = NoReqId
    <3>1. WorkerMoves(h)
      BY <1>4, <1>8, <2>2 DEF WorkerMoves, Left, OnSendRequest, PoolOK
    <3>2. QED
      BY <1>3, <1>8, <2>1, <2>2, <3>1, WorkerStep, HarmlessIsRight, Zenon DEF OnSendRequest, Send
  <2>3. CASE e.req # NoReqId
    <3>1. PICK refused \in BOOLEAN :
             /\ InsertHandler(h, [req |-> e.req, cmd |-> e.cmd, done |-> refused])
             /\ Send(IF refused THEN <<Ack("Submit", e.cmd, "Err")>> ELSE <<>>)
      BY <1>8, <2>3, Zenon DEF OnSendRequest
    <3>2. [req |-> e.req, cmd |-> e.cmd, done |-> refused] \in Handlers
      BY <1>2, <2>1, <2>3 DEF Events, Handlers
    <3>3. WorkerMoves(h)
      BY <1>4, <1>8, <3>1, <3>2 DEF WorkerMoves, Left, InsertHandler
    <3>4. PICK acks \in Seq(Harmless) : channel' = channel \o acks
      <4>1. << >> \in Seq(Harmless)
        OBVIOUS
      <4>2. QED
        BY <2>1, <3>1, <4>1, Zenon DEF Send
    <3>5. QED
      BY <1>3, <3>3, <3>4, WorkerStep, HarmlessIsRight
  <2>4. QED
    BY <2>2, <2>3
<1>9. CASE Ignore
  <2>1. WorkerMoves(h)
    BY <1>4, <1>9 DEF WorkerMoves, Left, Ignore, PoolOK
  <2>2. channel' = channel \o << >> /\ << >> \in Seq(Right')
    BY <1>9, ConcatEmptySeq DEF IInv, Ignore
  <2>3. QED
    BY <1>3, <2>1, <2>2, WorkerStep, Zenon
<1>10. QED
  BY <1>5, <1>6, <1>7, <1>8, <1>9, SMTT(30) DEF OnCommand, e

\* What a catch-up reports: a successful open comes from the worker it names.
LEMMA CatchupIInv ==
  ASSUME IInv, NEW h \in Ids,
         sm[h].state \in {"GettingCatchupTarget", "SyncCatchup"},
         NEW state \in {"Active", "Terminated", "SyncCatchup"}, Move(h, state),
         \/ UNCHANGED channel
         \/ \E result \in {"Ok", "Err"} : Send(<<CatchupAck(h, result)>>),
         UNCHANGED <<next_id, pools, inbox, callbacks, joining>>
  PROVE  IInv'
<1>1. /\ sm \in [Ids -> [state : States, cmd : Ids \cup {None}, refresh : BOOLEAN,
                         handlers : SUBSET Handlers]]
      /\ next_id \in Nat /\ h \in Nat
      /\ PoolOK(h)
  BY IdsType DEF IInv, Types
<1>2. sm' = [sm EXCEPT ![h].state = state, ![h].handlers = {}]
  BY DEF Move
<1>3. h < next_id
  BY <1>1 DEF PoolOK
<1>4. WorkerMoves(h)
  BY <1>1, <1>2, <1>3, ZenonT(60) DEF WorkerMoves, Left, States, PoolOK
<1>5. WorkerTakes(h)
  BY <1>1 DEF WorkerTakes, IInv, Types, PoolOK
<1>6. CASE UNCHANGED channel
  <2>1. channel' = channel \o << >> /\ << >> \in Seq(Right')
    BY <1>6, ConcatEmptySeq DEF IInv
  <2>2. QED
    BY <1>4, <1>5, <2>1, WorkerStep, Zenon
<1>7. ASSUME NEW result \in {"Ok", "Err"}, Send(<<CatchupAck(h, result)>>)
      PROVE  IInv'
  <2>1. CatchupAck(h, result) \in Acks
    BY <1>1 DEF CatchupAck, Acks, Ack, Kinds
  <2>2. CatchupAck(h, result).kind = "Open" => CatchupAck(h, result).cmd = h
    BY <1>1 DEF CatchupAck, Ack, PoolOK
  <2>3. Left(h)'
    BY <1>1, <1>2 DEF Left
  <2>4. CatchupAck(h, result) \in Right'
    <3> DEFINE a == CatchupAck(h, result)
    <3>1. a \in Acks /\ (a.kind = "Open" => a.cmd = h)
      BY <2>1, <2>2
    <3> HIDE DEF a
    <3>2. a \in Right'
      BY <2>3, <3>1 DEF Right
    <3>3. QED
      BY <3>2 DEF a
  <2>5. <<CatchupAck(h, result)>> \in Seq(Right')
    BY <2>4
  <2>6. QED
    BY <1>4, <1>5, <1>7, <2>5, WorkerStep, Zenon DEF Send
<1>8. QED
  BY <1>6, <1>7

\* The end of a request changes request_handlers only.
LEMMA RequestIInv ==
  ASSUME IInv, NEW h \in Ids, NEW x \in sm[h].handlers, NodeReply(h, x) \/ Timeout(h, x)
  PROVE  IInv'
<1>1. /\ sm \in [Ids -> [state : States, cmd : Ids \cup {None}, refresh : BOOLEAN,
                         handlers : SUBSET Handlers]]
      /\ PoolOK(h)
  BY DEF IInv, Types
<1>2. x \in Handlers /\ [x EXCEPT !.done = TRUE] \in Handlers
  <2>1. x \in Handlers
    BY <1>1
  <2>2. QED
    BY <2>1, Zenon DEF Handlers
<1>3. PICK handlers \in SUBSET Handlers : sm' = [sm EXCEPT ![h].handlers = handlers]
  <2>1. CASE NodeReply(h, x)
    BY <1>1, <2>1, Zenon DEF NodeReply
  <2>2. CASE Timeout(h, x)
    BY <1>1, <1>2, <2>2, Zenon DEF Timeout, InsertHandler
  <2>3. QED
    BY <2>1, <2>2
<1>4. WorkerMoves(h)
  BY <1>1, <1>3 DEF WorkerMoves, Left, PoolOK
<1>5. WorkerTakes(h)
  BY <1>1 DEF WorkerTakes, NodeReply, Timeout, IInv, Types, PoolOK
<1>6. \A result \in {"Ok", "Err"} : <<Ack("Submit", x.cmd, result)>> \in Seq(Harmless)
  BY <1>2 DEF Harmless, Acks, Ack, Kinds, Handlers
<1>7. PICK acks \in Seq(Harmless) : channel' = channel \o acks
  <2>1. << >> \in Seq(Harmless)
    OBVIOUS
  <2>2. QED
    BY <1>6, <2>1, Zenon DEF NodeReply, Timeout, Send
<1>8. QED
  BY <1>4, <1>5, <1>7, WorkerStep, HarmlessIsRight, SMTT(30)

\* The executor's step keeps what the channel holds right when it moves no
\* worker but one that has not left Initialization.
LEMMA RightStays ==
  ASSUME \A g \in Ids : Left(g) => Left(g)', NEW s \in Seq(Right)
  PROVE  s \in Seq(Right')
<1>1. Right \subseteq Right'
  BY DEF Right
<1>2. QED
  BY <1>1, SeqMono

\* pool_open.
LEMMA OpenIInv ==
  ASSUME IInv, NEW name \in Names, Open(name)
  PROVE  IInv'
<1> DEFINE n == next_id
<1>1. n \in Ids /\ n \in Nat /\ next_id' = n + 1 /\ UNCHANGED <<channel, joining>>
  BY IdsType DEF Open
<1>2. /\ Types
      /\ \A h \in Ids : PoolOK(h)
      /\ channel \in Seq(Right)
      /\ joining.pool # None => joining.pool \in Ids /\ pools[joining.pool].at = "dropped"
  BY DEF IInv
<1>3. pools[n].at = "none" /\ sm[n].state = "None"
  BY <1>1, <1>2, SMTT(30) DEF PoolOK
<1>4. CASE IsOpened(name)
  <2>1. UNCHANGED <<pools, sm, inbox, callbacks>>
    BY <1>4 DEF Open
  <2>2. Types'
    BY <1>1, <1>2, <2>1, SMTT(30) DEF Types
  <2>3. ASSUME NEW h \in Ids PROVE PoolOK(h)'
    <3>1. Fitting(h)' = Fitting(h) /\ PoolOK(h)
      BY <1>2, <2>1 DEF Fitting
    <3>2. h >= next_id' => h >= next_id
      BY <1>1, IdsType
    <3>3. QED
      BY <2>1, <3>1, <3>2, SMTT(30) DEF PoolOK, Left
  <2>4. Right' = Right
    BY <2>1 DEF Right, Left
  <2>5. QED
    BY <1>1, <1>2, <2>1, <2>2, <2>3, <2>4, SMTT(30) DEF IInv
<1>5. CASE ~IsOpened(name)
  <2>1. /\ pools' = [pools EXCEPT ![n] = [name |-> name, at |-> "pending"]]
        /\ sm' = [sm EXCEPT ![n].state = "Initialization"]
        /\ inbox' = [inbox EXCEPT ![n] = <<Event("CheckCache", n, NoReqId)>>]
        /\ callbacks' = [callbacks EXCEPT !["Open"] = @ \cup {n}]
    BY <1>5 DEF Open, Register
  <2> HIDE DEF n
  <2>2. Types'
    <3>1. next_id' \in Nat /\ DOMAIN inbox' = Ids
      BY <1>1, <1>2, <2>1, SMTT(30) DEF Types
    <3>2. pools' \in [Ids -> [name : Names \cup {NoName},
                              at : {"none", "pending", "open", "dropped"}]]
      BY <1>2, <2>1, Zenon DEF Types
    <3>3. sm' \in [Ids -> [state : States, cmd : Ids \cup {None}, refresh : BOOLEAN,
                           handlers : SUBSET Handlers]]
      BY <1>2, <2>1, ZenonT(60) DEF Types, States
    <3>4. DOMAIN callbacks' = Kinds
      BY <1>1, <1>2, <2>1 DEF Types
    <3>5. QED
      BY <3>1, <3>2, <3>3, <3>4, SMTT(30) DEF Types
  <2>3. ASSUME NEW h \in Ids PROVE PoolOK(h)'
    <3>1. CASE h = n
      <4>1. /\ pools'[h].at = "pending" /\ sm'[h].state = "Initialization" /\ h < next_id'
            /\ inbox'[h] = <<Event("CheckCache", n, NoReqId)>>
        BY <1>1, <1>2, <2>1, <3>1 DEF Types
      <4>2. Event("CheckCache", n, NoReqId) \in Fitting(h)'
        BY <1>1, <3>1, SMTT(30) DEF Fitting, Events, Event
      <4>3. QED
        BY <1>1, <4>1, <4>2, IdsType DEF PoolOK, Left
    <3>2. CASE h # n
      <4>1. /\ pools'[h] = pools[h] /\ sm'[h] = sm[h] /\ inbox'[h] = inbox[h]
            /\ h \in callbacks'["Open"] => h \in callbacks["Open"]
            /\ PoolOK(h)
        BY <1>2, <2>1, <3>2 DEF Types, Kinds
      <4>2. Fitting(h)' = Fitting(h)
        BY <4>1 DEF Fitting
      <4>3. h >= next_id' => h >= next_id
        BY <1>1, IdsType, SMTT(30) DEF n
      <4>4. QED
        BY <4>1, <4>2, <4>3 DEF PoolOK, Left
    <3>3. QED
      BY <3>1, <3>2
  <2>4. \A g \in Ids : Left(g) => Left(g)'
    BY <1>2, <1>3, <2>1 DEF Left, Types
  <2>5. channel' \in Seq(Right')
    BY <1>1, <1>2, <2>4, RightStays
  <2>6. joining'.pool # None => joining'.pool \in Ids /\ pools'[joining'.pool].at = "dropped"
    BY <1>1, <1>2, <1>3, <2>1, SMTT(30) DEF Types
  <2>7. QED
    BY <2>2, <2>3, <2>5, <2>6, SMTT(30) DEF IInv
<1>6. QED
  BY <1>4, <1>5

\* pool_refresh, submit_request and submit_action.
LEMMA SendActionIInv ==
  ASSUME IInv, NEW h \in Ids, NEW req \in ReqIds \cup {NoReqId}, NEW kind \in {"Refresh", "Submit"},
         NEW type \in {"Refresh", "SendRequest"}, send_action(kind, h, type, req)
  PROVE  IInv'
<1> DEFINE e == Event(type, next_id, req)
<1>1. /\ next_id \in Ids /\ next_id \in Nat /\ next_id' = next_id + 1
      /\ UNCHANGED <<pools, sm, channel, joining>>
      /\ inbox' \in {inbox, [inbox EXCEPT ![h] = Append(@, e)]}
      /\ callbacks' \in {callbacks, [callbacks EXCEPT ![kind] = @ \cup {next_id}]}
  BY IdsType DEF send_action, Register
<1>2. Types /\ (\A g \in Ids : PoolOK(g))
  BY DEF IInv
<1>3. Types' /\ callbacks'["Open"] = callbacks["Open"]
  BY <1>1, <1>2, SMTT(30) DEF Types, Kinds
<1>4. ASSUME NEW g \in Ids PROVE PoolOK(g)'
  <2>1. Fitting(g)' = Fitting(g) /\ PoolOK(g)
    BY <1>1, <1>2, Zenon DEF Fitting
  <2>2. e \in Fitting(g)
    BY <1>1, SMTT(30) DEF Fitting, Event, Events
  <2> HIDE DEF e
  <2>3. Append(inbox[g], e) \in Seq(Fitting(g))
    BY <2>1, <2>2, AppendProperties, SMTT(30) DEF PoolOK
  <2>4. inbox'[g] = inbox[g] \/ inbox'[g] = Append(inbox[g], e)
    BY <1>1, <1>2, SMTT(30) DEF Types
  <2>5. inbox'[g] \in Seq(Fitting(g)')
    BY <2>1, <2>3, <2>4, SMTT(30) DEF PoolOK
  <2>6. QED
    BY <1>1, <1>3, <2>1, <2>5, IdsType, SMTT(30) DEF PoolOK, Left
<1>5. Right' = Right
  BY <1>1 DEF Right, Left
<1>6. QED
  BY <1>1, <1>3, <1>4, <1>5, SMTT(30) DEF IInv

\* An exit command goes to a pool that is dropped.
LEMMA SendExitIInv ==
  ASSUME IInv, NEW h \in Ids, NEW cmd \in Ids \cup {None}, SendExit(h, cmd),
         pools' = [pools EXCEPT ![h].at = "dropped"],
         pools[h].at \in {"open", "dropped"},
         joining'.pool = h,
         next_id' \in Nat, next_id' >= next_id,
         UNCHANGED <<sm, channel, callbacks>>
  PROVE  IInv'
<1> DEFINE e == Event("Close", cmd, NoReqId)
<1>1. Types /\ (\A g \in Ids : PoolOK(g))
  BY DEF IInv
<1>2. Types' /\ pools'[h].at = "dropped"
  BY <1>1 DEF Types, SendExit
<1>3. ASSUME NEW g \in Ids, g # h PROVE PoolOK(g)'
  <2>1. /\ pools'[g] = pools[g] /\ inbox'[g] = inbox[g] /\ PoolOK(g)
        /\ sm' = sm /\ callbacks' = callbacks
    BY <1>1, <1>3 DEF Types, SendExit
  <2>2. Fitting(g)' = Fitting(g)
    BY <2>1, Zenon DEF Fitting
  <2>3. g >= next_id' => g >= next_id
    BY <1>1, IdsType DEF Types
  <2>4. QED
    BY <2>1, <2>2, <2>3, SMTT(30) DEF PoolOK, Left
<1>4. PoolOK(h)'
  <2>1. Fitting(h) \subseteq Fitting(h)' /\ e \in Fitting(h)'
    BY <1>2 DEF Fitting, Events, Event
  <2> HIDE DEF e
  <2>2. inbox[h] \in Seq(Fitting(h)') /\ Append(inbox[h], e) \in Seq(Fitting(h)')
    BY <1>1, <2>1, SeqMono, AppendProperties DEF PoolOK
  <2>3. inbox'[h] \in {inbox[h], Append(inbox[h], e)}
    BY <1>1 DEF SendExit, e, Types
  <2>4. h < next_id'
    BY <1>1, IdsType DEF PoolOK, Types
  <2>5. h \notin callbacks["Open"]
    BY <1>1 DEF PoolOK
  <2>6. QED
    <3>1. PoolOK(h) /\ inbox'[h] \in Seq(Fitting(h)') /\ ~(h >= next_id')
      <4>1. ~(h >= next_id')
        BY <2>4, IdsType
      <4>2. QED
        BY <1>1, <2>2, <2>3, <4>1, Zenon
    <3>2. QED
      BY <1>2, <2>5, <3>1 DEF PoolOK, Left
<1>5. Right' = Right
  BY DEF Right, Left
<1>6. QED
  BY <1>2, <1>3, <1>4, <1>5, SMTT(30) DEF IInv

\* pool_close, until the worker is joined.
LEMMA CloseIInv ==
  ASSUME IInv, NEW h \in Ids, Close(h)
  PROVE  IInv'
<1>1. next_id \in Ids /\ next_id' = next_id + 1 /\ UNCHANGED <<sm, channel, callbacks>>
  BY DEF Close
<1>2. next_id \in Nat /\ next_id' \in Nat /\ next_id' >= next_id
  BY <1>1, IdsType
<1>3. CASE h \in OpenPools
  <2>1. /\ pools' = [pools EXCEPT ![h].at = "dropped"] /\ pools[h].at = "open"
        /\ SendExit(h, next_id) /\ joining'.pool = h
    BY <1>3, SMTT(30) DEF Close, Removed, OpenPools
  <2>2. QED
    BY <1>1, <1>2, <2>1, SendExitIInv, Zenon
<1>4. CASE h \notin OpenPools
  <2>1. UNCHANGED <<pools, inbox, joining>>
    BY <1>4 DEF Close
  <2>2. ASSUME NEW g \in Ids PROVE PoolOK(g)'
    <3>1. Fitting(g)' = Fitting(g) /\ PoolOK(g)
      BY <2>1 DEF Fitting, IInv
    <3>2. g >= next_id' => g >= next_id
      BY <1>2, IdsType
    <3>3. QED
      BY <1>1, <2>1, <3>1, <3>2, SMTT(30) DEF PoolOK, Left
  <2>3. Right' = Right /\ Types'
    BY <1>1, <1>2, <2>1, SMTT(30) DEF Right, Left, IInv, Types
  <2>4. QED
    BY <1>1, <2>1, <2>2, <2>3, SMTT(30) DEF IInv
<1>5. QED
  BY <1>3, <1>4, SMTT(30)

\* Drop for ZMQPool sends its exit to the pool that close has removed.
LEMMA DropExitIInv == IInv /\ DropExit => IInv'
<1> SUFFICES ASSUME IInv, DropExit PROVE IInv'
  OBVIOUS
<1> DEFINE h == joining.pool
<1>1. /\ h \in Ids /\ pools[h].at = "dropped" /\ SendExit(h, None)
      /\ UNCHANGED <<next_id, pools, sm, channel, callbacks>>
  BY DEF DropExit, Idle, IInv
<1>2. joining'.pool = h
  BY DEF DropExit
<1> HIDE DEF h
<1>3. pools' = [pools EXCEPT ![h].at = "dropped"]
  BY <1>1, SMTT(30) DEF IInv, Types
<1>4. next_id' \in Nat /\ next_id' >= next_id
  BY <1>1, SMTT(30) DEF IInv, Types
<1>5. QED
  BY <1>1, <1>2, <1>3, <1>4, SendExitIInv, Zenon

\* The callback of a close is registered once the worker is joined.
LEMMA JoinedIInv == IInv /\ Joined => IInv'
<1> SUFFICES ASSUME IInv, Joined PROVE IInv'
  BY SMTT(30)
<1>1. UNCHANGED <<next_id, pools, sm, inbox, channel>> /\ joining' = NotJoining
  BY DEF Joined
<1>2. callbacks'["Open"] = callbacks["Open"]
  BY SMTT(30) DEF Joined, Register, IInv, Types, Kinds
<1>3. Types'
  BY <1>1, SMTT(30) DEF Joined, Register, IInv, Types
<1>4. ASSUME NEW g \in Ids PROVE PoolOK(g)'
  <2>1. Fitting(g)' = Fitting(g) /\ PoolOK(g)
    BY <1>1 DEF Fitting, IInv
  <2>2. QED
    BY <1>1, <1>2, <2>1, SMTT(30) DEF PoolOK, Left
<1>5. Right' = Right
  BY <1>1 DEF Right, Left
<1>6. QED
  BY <1>1, <1>3, <1>4, <1>5, SMTT(30) DEF IInv, NotJoining

\* The ack of an open moves a pool whose worker runs to open_pools.
LEMMA ExecuteAckIInv == IInv /\ ExecuteAck => IInv'
<1> SUFFICES ASSUME IInv, ExecuteAck PROVE IInv'
  BY SMTT(30)
<1> DEFINE a == Head(channel)
<1>1. /\ a \in Right /\ channel' = Tail(channel) /\ channel' \in Seq(Right)
      /\ UNCHANGED <<next_id, sm, inbox, joining>>
  BY Taken DEF IInv, ExecuteAck
<1>2. /\ Types
      /\ \A h \in Ids : PoolOK(h)
      /\ joining.pool # None => joining.pool \in Ids /\ pools[joining.pool].at = "dropped"
  BY DEF IInv
<1>3. \/ UNCHANGED <<callbacks, pools>>
      \/ /\ a.cmd \in callbacks[a.kind]
         /\ callbacks' = [callbacks EXCEPT ![a.kind] = @ \ {a.cmd}]
         /\ pools' = IF a.kind = "Open" /\ a.result = "Ok"
                     THEN [pools EXCEPT ![a.cmd].at = "open"] ELSE pools
  BY DEF ExecuteAck
<1>4. Right' = Right
  BY <1>1 DEF Right, Left
<1> HIDE DEF a
<1>5. /\ DOMAIN callbacks' = Kinds
      /\ \A h \in Ids : h \in callbacks'["Open"] => h \in callbacks["Open"]
  BY <1>2, <1>3, SMTT(30) DEF Types, Kinds
<1>6. CASE pools' = pools
  <2>1. Types'
    BY <1>1, <1>2, <1>5, <1>6, SMTT(30) DEF Types
  <2>2. ASSUME NEW g \in Ids PROVE PoolOK(g)'
    <3>1. Fitting(g)' = Fitting(g) /\ PoolOK(g)
      BY <1>2, <1>6, SMTT(30) DEF Fitting
    <3>2. QED
      BY <1>1, <1>5, <1>6, <3>1, SMTT(30) DEF PoolOK, Left
  <2>3. QED
    BY <1>1, <1>2, <1>4, <1>6, <2>1, <2>2, SMTT(30) DEF IInv
<1>7. CASE pools' # pools
  <2>1. PICK c \in Ids :
           /\ c \in callbacks["Open"] /\ Left(c)
           /\ pools' = [pools EXCEPT ![c].at = "open"]
           /\ callbacks' = [callbacks EXCEPT !["Open"] = @ \ {c}]
    <3>1. /\ a.kind = "Open" /\ a.cmd \in callbacks["Open"] /\ a.cmd \in Ids /\ Left(a.cmd)
          /\ pools' = [pools EXCEPT ![a.cmd].at = "open"]
          /\ callbacks' = [callbacks EXCEPT !["Open"] = @ \ {a.cmd}]
      BY <1>1, <1>3, <1>7 DEF Right
    <3>2. QED
      BY <3>1, Zenon
  <2>2. pools[c].at = "pending" /\ PoolOK(c)
    BY <1>2, <2>1 DEF PoolOK
  <2>3. Types'
    BY <1>1, <1>2, <1>5, <2>1, SMTT(30) DEF Types
  <2>4. ASSUME NEW g \in Ids, g # c PROVE PoolOK(g)'
    <3>1. pools'[g] = pools[g] /\ PoolOK(g)
      BY <1>2, <2>1, <2>4, SMTT(30) DEF Types
    <3>2. Fitting(g)' = Fitting(g)
      BY <3>1 DEF Fitting
    <3>3. QED
      BY <1>1, <1>5, <3>1, <3>2, SMTT(30) DEF PoolOK, Left
  <2>5. PoolOK(c)'
    <3>1. pools'[c].at = "open" /\ c \notin callbacks'["Open"]
      BY <1>2, <2>1, SMTT(30) DEF Types, Kinds
    <3>2. Fitting(c) \subseteq Fitting(c)'
      BY <2>2, SMTT(30) DEF Fitting
    <3>3. inbox'[c] \in Seq(Fitting(c)')
      BY <1>1, <2>2, <3>2, SeqMono, SMTT(30) DEF PoolOK
    <3>4. sm'[c].state # "Closed" /\ ~(c >= next_id')
      BY <1>1, <2>2 DEF PoolOK
    <3>5. QED
      BY <1>1, <2>1, <2>2, <3>1, <3>3, <3>4, SMTT(30) DEF PoolOK, Left
  <2>6. joining'.pool # None => joining'.pool \in Ids /\ pools'[joining'.pool].at = "dropped"
    BY <1>1, <1>2, <2>1, <2>2, SMTT(30) DEF Types
  <2>7. QED
    BY <1>1, <1>4, <2>3, <2>4, <2>5, <2>6, SMTT(30) DEF IInv
<1>8. QED
  BY <1>6, <1>7, SMTT(30)
-----------------------------------------------------------------------------
\* Steps that leave pools, workers, sockets, channel and callbacks alone.
LEMMA SameIInv ==
  ASSUME IInv, UNCHANGED <<next_id, pools, sm, inbox, channel, callbacks, joining>>
  PROVE  IInv'
<1>1. ASSUME NEW g \in Ids PROVE PoolOK(g)'
  <2>1. Fitting(g)' = Fitting(g) /\ PoolOK(g)
    BY SMTT(30) DEF Fitting, IInv
  <2>2. QED
    BY <2>1 DEF PoolOK, Left
<1>2. Right' = Right /\ Types'
  BY DEF Right, Left, Types, IInv
<1>3. QED
  BY <1>1, <1>2, SMTT(30) DEF IInv

\* Every step of the executor and of the workers keeps the invariant.
THEOREM Inductive == Spec => []IInv
<1>1. ASSUME IInv, Next PROVE IInv'
  <2>1. ASSUME NEW name \in Names, Create(name) \/ Delete(name) PROVE IInv'
    BY <1>1, <2>1, SameIInv DEF Create, Delete
  <2>2. ASSUME NEW name \in Names, Open(name) PROVE IInv'
    BY <1>1, <2>2, OpenIInv, SMTT(30)
  <2>3. ASSUME NEW version \in {1, 2}, set_protocol_version(version) PROVE IInv'
    BY <1>1, <2>3, SameIInv, SMTT(30) DEF set_protocol_version
  <2>4. ASSUME NEW h \in Ids, Refresh(h) PROVE IInv'
    BY <1>1, <2>4, SendActionIInv, SMTT(30) DEF Refresh
  <2>5. ASSUME NEW h \in Ids, Close(h) PROVE IInv'
    BY <1>1, <2>5, CloseIInv, SMTT(30)
  <2>6. ASSUME NEW h \in Ids, NEW req \in ReqIds \cup {NoReqId}, Submit(h, req) PROVE IInv'
    BY <1>1, <2>6, SendActionIInv, SMTT(30) DEF Submit
  <2>7. CASE DropExit \/ Joined \/ ExecuteAck
    BY <1>1, <2>7, DropExitIInv, JoinedIInv, ExecuteAckIInv, SMTT(30)
  <2>8. ASSUME NEW h \in Ids, OnCommand(h) PROVE IInv'
    BY <1>1, <2>8, OnCommandIInv, SMTT(30)
  <2>9. ASSUME NEW h \in Ids,
               NEW outcome \in {"Synced", "CatchupTargetFound", "CatchupTargetNotFound",
                                "CatchupRestart"},
               GettingCatchupTarget(h, outcome)
        PROVE  IInv'
    <3>1. /\ sm[h].state \in {"GettingCatchupTarget", "SyncCatchup"}
          /\ UNCHANGED <<next_id, pools, inbox, callbacks, joining>>
          /\ \E state \in {"Active", "Terminated", "SyncCatchup"} : Move(h, state)
          /\ UNCHANGED channel \/ \E result \in {"Ok", "Err"} : Send(<<CatchupAck(h, result)>>)
      BY <2>9, Zenon DEF GettingCatchupTarget
    <3>2. QED
      BY <1>1, <3>1, CatchupIInv
  <2>10. ASSUME NEW h \in Ids, SyncCatchup(h) PROVE IInv'
    <3>1. /\ sm[h].state \in {"GettingCatchupTarget", "SyncCatchup"}
          /\ UNCHANGED <<next_id, pools, inbox, callbacks, joining>>
          /\ \E state \in {"Active", "Terminated", "SyncCatchup"} : Move(h, state)
          /\ UNCHANGED channel \/ \E result \in {"Ok", "Err"} : Send(<<CatchupAck(h, result)>>)
      BY <2>10, Zenon DEF SyncCatchup
    <3>2. QED
      BY <1>1, <3>1, CatchupIInv
  <2>11. ASSUME NEW h \in Ids, NEW x \in sm[h].handlers, NodeReply(h, x) \/ Timeout(h, x)
         PROVE  IInv'
    BY <1>1, <2>11, RequestIInv, SMTT(30)
  <2>12. QED
    BY <1>1, <2>1, <2>2, <2>3, <2>4, <2>5, <2>6, <2>7, <2>8, <2>9, <2>10, <2>11, SMTT(30)
       DEF Next, Executor, PoolThread
<1>2. IInv /\ UNCHANGED vars => IInv'
  BY SameIInv DEF vars
<1>3. QED
  BY InitIInv, <1>1, <1>2, PTL DEF Spec

\* A handle that an OpenAck has given to the application, and that close has not
\* taken back, belongs to a worker that has left Initialization and still runs.
THEOREM OpenIsServedAlways == Spec => []OpenIsServed
<1>1. IInv => OpenIsServed
  BY DEF IInv, PoolOK, Left, OpenIsServed, OpenPools
<1>2. QED
  BY <1>1, Inductive, PTL
=============================================================================
