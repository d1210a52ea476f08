---------------------------- MODULE VcxExchange ----------------------------
(***************************************************************************)
(* The two exchanges libvcx runs over a connection, each between the       *)
(* object of the side that opens it and the object of the side that        *)
(* answers:                                                                *)
(*                                                                         *)
(*   issuance      IssuerSM and HolderSM   (v3/handlers/issuance)          *)
(*   presentation  VerifierSM and ProverSM (v3/handlers/proof_presentation)*)
(*                                                                         *)
(* Which one a behaviour is about is chosen at the start.  The two sides   *)
(* have a mailbox each, as in VcxConnection: a message has the status      *)
(* Received or Reviewed and is never removed.  The opener numbers its      *)
(* threads, one for each offer or request it sends; the holder numbers its *)
(* credential requests, whose blinding data the credential has to fit; the *)
(* issuer's registry numbers the credentials it signs.                     *)
(*                                                                         *)
(* Every call of the agency, the ledger or the wallet may fail; a call of  *)
(* the agency may fail although it had its effect ("lost").                *)
(***************************************************************************)
EXTENDS Naturals, FiniteSets

CONSTANTS
    MaxThreads,     \* bound: offers, or requests, the opener sends
    MaxRequests,    \* bound: credential requests the holder makes
    RegistrySize,   \* credentials the registry can hold
    MaxFaults       \* bound: calls that fail, or restarts

ASSUME ExchangeAssumption ==
    /\ MaxThreads \in Nat /\ MaxRequests \in Nat
    /\ RegistrySize \in Nat /\ MaxFaults \in Nat

VARIABLES
    obj,            \* obj[p]: the object p holds a handle of
    saved,          \* saved[p]: what p last serialised (to_string)
    box,            \* box[p]: the messages p has received, with their status
    threads,        \* threads the opener has started
    requests,       \* credential requests the holder has made
    curr_id,        \* the last index the issuer's registry has given out
    stored,         \* the credentials in the holder's wallet: <<index, copy>>
    misled,         \* history: messages delivered though the sender got an error
    again,          \* history: updates whose status call failed, and restarts
    faults,
    exchange,       \* "issuance" or "presentation"
    kind            \* "calm", "failing" or "restarting", as in VcxConnection

vars == <<obj, saved, box, threads, requests, curr_id, stored, misled, again,
          faults, exchange, kind>>

Opener == "opener"
Answerer == "answerer"
Parties == {Opener, Answerer}
Issuing == exchange = "issuance"

(* An object: its state, the status of a finished one, its thread, and its
   item: the credential it names, the request it made, the proof it prepared. *)
Object(state, status, thread, item) ==
    [state |-> state, status |-> status, thread |-> thread, item |-> item]
Absent == Object("Absent", "Undefined", 0, 0)
Fresh == Object("Initial", "Undefined", 0, 0)
Finished(o, status, item) == Object("Finished", status, o.thread, item)

Message(type, thread, item, of) ==
    [type |-> type, thread |-> thread, item |-> item, of |-> of]
Report(o) == Message("problem", o.thread, 0, 0)

(* What the application asks for is a message too. *)
Call(type) == Message(type, 0, 0, 0)

-----------------------------------------------------------------------------
(* A call of the agency, httpclient::post_message. *)
Calls == {"ok", "refused", "lost"}
Failed(r) == IF r = "ok" THEN 0 ELSE 1

(* What a step may do: the object after it, what it sends, whether it signed
   a credential, made a request or stored a credential, whether it returns
   Ok, what it delivered in vain, and how many calls failed. *)
Outcome(o, mail, done, ok, vain, failed) ==
    [obj |-> o, mail |-> mail, done |-> done, ok |-> ok, vain |-> vain, failed |-> failed]
Nothing(o) == {Outcome(o, {}, {}, TRUE, {}, 0)}
Fails(o) == {Outcome(o, {}, {}, FALSE, {}, 1)}

(* connection::send_message(...)? : on an error the object is kept. *)
Send(o, then, m, done, failed) ==
    {Outcome(IF r = "ok" THEN then ELSE o, IF r = "refused" THEN {} ELSE {m}, done,
             r = "ok", IF r = "lost" THEN {m} ELSE {}, failed + Failed(r))
        : r \in Calls}

(* Mutant: the issuer records the index before the one it has just signed. *)
IssueOldIndex(o) ==
    Send(o, Finished(o, "Success", curr_id),
         Message("credential", o.thread, curr_id + 1, o.item), {"signed"}, 0)

(* IssuerSM, CredentialSend: _create_credential takes the next index of the
   registry; when it fails, for a full registry or a request (0) that answers
   another offer say, the holder is told. *)
Issue(o) ==
    LET can == curr_id < RegistrySize /\ o.item # 0
    IN  Send(o, Finished(o, "Failed", 0), Report(o), {}, IF can THEN 1 ELSE 0)
        \cup (IF ~can THEN {} ELSE
          Send(o, Finished(o, "Success", curr_id + 1),
               Message("credential", o.thread, curr_id + 1, o.item), {"signed"}, 0))

(* IssuerSM::handle_message *)
StepIssuer(o, m) ==
    CASE o.state = "Initial" /\ m.type = "init" ->
            Fails(o) \cup Send(o, Object("OfferSent", "Undefined", threads + 1, 0),
                               Message("offer", threads + 1, 0, 0), {"opened"}, 0)
      [] o.state = "OfferSent" /\ m.type = "request" ->
            Nothing([o EXCEPT !.state = "RequestReceived",
                              !.item = IF m.thread = o.thread THEN m.item ELSE 0])
      [] o.state = "OfferSent" /\ m.type = "proposal" ->
            Send(o, Finished(o, "Failed", 0), Report(o), {}, 0)
      [] o.state = "OfferSent" /\ m.type = "problem" -> Nothing(Finished(o, "Failed", 0))
      [] o.state = "RequestReceived" /\ m.type = "send" -> Issue(o)
      [] OTHER -> Nothing(o)

(* _store_credential: prover_store_credential checks the signature with the
   blinding data of the request the holder remembers. *)
Fits(o, m) == m.of = o.item

(* HolderSM::handle_message.  The acknowledgement after a credential is stored
   is left out: IssuerSM never sets please_ack. *)
StepHolder(o, m) ==
    CASE o.state = "Initial" /\ m.type = "send" ->
            Send(o, Object("RequestSent", "Undefined", o.thread, requests + 1),
                 Message("request", o.thread, requests + 1, 0), {"requested"}, 0)
            \cup Send(o, Finished(o, "Failed", 0), Report(o), {}, 1)
      [] o.state = "RequestSent" /\ m.type = "credential" ->
            (IF Fits(o, m)
             THEN {Outcome(Finished(o, "Success", m.item), {}, {"stored"}, TRUE, {}, 0)} ELSE {})
            \cup Send(o, Finished(o, "Failed", 0), Report(o), {}, IF Fits(o, m) THEN 1 ELSE 0)
      [] o.state = "RequestSent" /\ m.type = "problem" -> Nothing(Finished(o, "Failed", 0))
      [] OTHER -> Nothing(o)

(* validate_indy_proof: the nonce is set once, in Verifier::create, so a proof
   made for an earlier sending of the request is as good as one for the last. *)
Valid(m) == m.item = 1

(* Mutant: the presentation is acknowledged before it is checked. *)
VerifyAckFirst(o, m) ==
    {Outcome(Finished(o, IF Valid(m) THEN "Success" ELSE "Revoked", 0),
             {Message("ack", o.thread, 0, 0)}, {}, TRUE, {}, 0)}

(* VerifierSM, VerifyPresentation: a valid proof is acknowledged, an invalid
   one reported, and so is a failure to check it or to acknowledge it. *)
Verify(o, m) ==
    LET ack == Message("ack", o.thread, 0, 0)
        reported(status, failed) == Send(o, Finished(o, status, 0), Report(o), {}, failed)
    IN  reported("Failed", 1)
        \cup (IF ~Valid(m) THEN reported("Revoked", 0)
              ELSE {Outcome(Finished(o, "Success", 0), {ack}, {}, TRUE, {}, 0)}
                   \cup {[x EXCEPT !.mail = @ \cup {ack}, !.vain = @ \cup {ack}]
                            : x \in reported("Failed", 1)})

(* VerifierSM::step *)
StepVerifier(o, m) ==
    CASE o.state = "Initial" /\ m.type = "init" ->
            Fails(o) \cup Send(o, Object("RequestSent", "Undefined", threads + 1, 0),
                               Message("offer", threads + 1, 0, 0), {"opened"}, 0)
      [] o.state = "RequestSent" /\ m.type = "presentation" -> Verify(o, m)
      [] o.state = "RequestSent" /\ m.type = "problem" -> Nothing(Finished(o, "Failed", 0))
      [] o.state = "RequestSent" /\ m.type = "proposal" ->
            Send(o, Finished(o, "Failed", 0), Report(o), {}, 0)
      [] OTHER -> Nothing(o)

(* ProverSM::step: the proof of the credentials the application chose is good
   (1), or bad (0), a revoked credential say, or cannot be made.  The branches
   that answer to the endpoint of a ~service decorator are left out: VerifierSM
   never sets one. *)
StepProver(o, m) ==
    CASE o.state = "Initial" /\ m.type = "prepare" ->
            {Outcome([o EXCEPT !.state = "Prepared", !.item = good], {}, {}, TRUE, {}, 0) : good \in {0, 1}}
            \cup Nothing([o EXCEPT !.state = "PreparationFailed"])
      [] o.state \in {"Initial", "Prepared"} /\ m.type \in {"reject", "propose"} ->
            Send(o, Finished(o, "Declined", 0),
                 Message(IF m.type = "reject" THEN "problem" ELSE "proposal", o.thread, 0, 0), {}, 0)
      [] o.state = "Prepared" /\ m.type = "send" ->
            Send(o, [o EXCEPT !.state = "Sent"], Message("presentation", o.thread, o.item, 0), {}, 0)
      [] o.state = "PreparationFailed" /\ m.type = "send" ->
            Send(o, Finished(o, "Failed", 0), Report(o), {}, 0)
      [] o.state = "Sent" /\ m.type = "ack" -> Nothing(Finished(o, "Success", o.item))
      [] o.state = "Sent" /\ m.type = "problem" -> Nothing(Finished(o, "Failed", o.item))
      [] o.state = "Sent" /\ m.type = "reject" -> {Outcome(o, {}, {}, FALSE, {}, 0)}
      [] OTHER -> Nothing(o)

Step(p, m) ==
    IF Issuing THEN (IF p = Opener THEN StepIssuer(obj[p], m) ELSE StepHolder(obj[p], m))
               ELSE (IF p = Opener THEN StepVerifier(obj[p], m) ELSE StepProver(obj[p], m))

(* Mutant: the prover waits for an acknowledgement only. *)
WantedAck(p) ==
    CASE obj[p].state = "OfferSent" -> {"request", "proposal", "problem"}
      [] obj[p].state = "RequestSent" /\ p = Answerer -> {"credential", "problem"}
      [] obj[p].state = "RequestSent" /\ p = Opener -> {"presentation", "proposal", "problem"}
      [] obj[p].state = "Sent" -> {"ack"}
      [] OTHER -> {}

(* find_message_to_handle: the messages of the object's thread that its state
   waits for; the first one of an unordered map is any of them. *)
Wanted(p) ==
    CASE obj[p].state = "OfferSent" -> {"request", "proposal", "problem"}
      [] obj[p].state = "RequestSent" /\ p = Answerer -> {"credential", "problem"}
      [] obj[p].state = "RequestSent" /\ p = Opener -> {"presentation", "proposal", "problem"}
      [] obj[p].state = "Sent" -> {"ack", "problem"}
      [] OTHER -> {}
ToHandle(p) == {m \in DOMAIN box[p] : /\ box[p][m] = "Received"
                                      /\ m.type \in Wanted(p)
                                      /\ m.thread = obj[p].thread}

-----------------------------------------------------------------------------
Init ==
    /\ obj = [p \in Parties |-> IF p = Opener THEN Fresh ELSE Absent]
    /\ saved = obj
    /\ box = [p \in Parties |-> << >>]
    /\ threads = 0 /\ requests = 0 /\ curr_id = 0
    /\ stored = {} /\ misled = {} /\ again = 0
    /\ faults = 0
    /\ exchange \in {"issuance", "presentation"}
    /\ kind \in {"calm", "failing", "restarting"}

(* The mail of p's peer, and p's own message marked as Reviewed. *)
Deliver(p, mail, marked) ==
    box' = [q \in Parties |->
              LET got == IF q = p THEN {} ELSE mail
              IN  [m \in DOMAIN box[q] \cup got |->
                     IF m \in got THEN "Received"
                     ELSE IF q = p /\ m \in marked THEN "Reviewed" ELSE box[q][m]]]

Failing(n) ==
    /\ n > 0 => kind = "failing" /\ faults + n <= MaxFaults
    /\ faults' = faults + n

(* What a step does besides moving the object. *)
Effects(x, m) ==
    /\ threads' = threads + (IF "opened" \in x.done THEN 1 ELSE 0)
    /\ threads' <= MaxThreads
    /\ requests' = requests + (IF "requested" \in x.done THEN 1 ELSE 0)
    /\ requests' <= MaxRequests
    /\ curr_id' = curr_id + (IF "signed" \in x.done THEN 1 ELSE 0)
    /\ stored' = IF "stored" \in x.done
                 THEN stored \cup {<<m.item, Cardinality(stored) + 1>>} ELSE stored
    /\ misled' = misled \cup x.vain

(* A call that is one step: step(m). *)
Do(p, m) ==
    /\ \E x \in Step(p, m) :
          /\ Failing(x.failed)
          /\ obj' = [obj EXCEPT ![p] = x.obj]
          /\ Effects(x, m)
          /\ Deliver(p, x.mail, {})
    /\ UNCHANGED <<saved, again, exchange, kind>>

(* send_credential_offer, send_credential, send_request; send_presentation_request,
   generate_presentation, send_presentation, decline_presentation_request. *)
Apply(p, type) ==
    /\ obj[p].state # "Absent"
    /\ type = "init" => p = Opener /\ obj[p].state = "Initial"
    /\ type \in {"prepare", "reject", "propose"} => ~Issuing /\ p = Answerer
    /\ obj[p].state # "Finished"
    /\ Do(p, Call(type))

(* vcx_credential_create_with_offer, vcx_disclosed_proof_create_with_request *)
Create(m) ==
    /\ obj[Answerer] = Absent
    /\ m.type = "offer"
    /\ obj' = [obj EXCEPT ![Answerer] = Object("Initial", "Undefined", m.thread, 0)]
    /\ UNCHANGED <<saved, box, threads, requests, curr_id, stored, misled, again,
                   faults, exchange, kind>>

(* Mutant: the new object is dropped, as if update_state did not assign it. *)
Forgets(r, o, then) == o

(* Issuer and Holder assign the new object last, update_message_status(uid)?
   included; Verifier and Prover assign it before that call. *)
Moved(r, o, then) == IF Issuing /\ r # "ok" THEN o ELSE then

(* update_state, update_status *)
Update(p) ==
    \E m \in ToHandle(p) : \E x \in Step(p, m), r \in Calls :
        /\ ~x.ok => r = "ok"
        /\ Failing(x.failed + Failed(r))
        /\ obj' = [obj EXCEPT ![p] = IF x.ok THEN Moved(r, obj[p], x.obj) ELSE obj[p]]
        /\ Effects(x, m)
        /\ Deliver(p, x.mail, IF x.ok /\ r # "refused" THEN {m} ELSE {})
        /\ again' = again + Failed(r)
        /\ UNCHANGED <<saved, exchange, kind>>

(* update_state_with_message: any message of the mailbox, whatever its thread. *)
UpdateByHand(p, m) ==
    /\ kind # "calm"
    /\ obj[p].state \notin {"Absent", "Finished"}
    /\ Do(p, m)

(* to_string *)
Save(p) ==
    /\ kind = "restarting" /\ faults < MaxFaults
    /\ obj[p] # Absent /\ saved[p] # obj[p]
    /\ saved' = [saved EXCEPT ![p] = obj[p]]
    /\ UNCHANGED <<obj, box, threads, requests, curr_id, stored, misled, again,
                   faults, exchange, kind>>

(* The process ends and the next one deserialises what was saved (from_string). *)
Restart(p) ==
    /\ kind = "restarting" /\ faults < MaxFaults /\ faults' = faults + 1
    /\ obj[p] # saved[p]
    /\ obj' = [obj EXCEPT ![p] = saved[p]]
    /\ again' = again + 1
    /\ UNCHANGED <<saved, box, threads, requests, curr_id, stored, misled, exchange, kind>>

Next ==
    \/ \E p \in Parties :
          \/ \E type \in {"init", "send", "prepare", "reject", "propose"} : Apply(p, type)
          \/ Update(p)
          \/ \E m \in DOMAIN box[p] : UpdateByHand(p, m)
          \/ Save(p) \/ Restart(p)
    \/ \E m \in DOMAIN box[Answerer] : Create(m)

Spec == Init /\ [][Next]_vars

(* The applications of both sides make the calls that are due and keep polling. *)
Application(p) ==
    \/ \E type \in {"init", "send", "prepare", "reject", "propose"} : Apply(p, type)
    \/ p = Answerer /\ \E m \in DOMAIN box[p] : Create(m)
Fairness == \A p \in Parties : WF_vars(Application(p)) /\ WF_vars(Update(p))
FairSpec == Spec /\ Fairness

-----------------------------------------------------------------------------
States == {"Absent", "Initial", "OfferSent", "RequestReceived", "RequestSent",
           "Prepared", "PreparationFailed", "Sent", "Finished"}
Statuses == {"Undefined", "Success", "Revoked", "Failed", "Declined"}

(* Types; a status is given to finished objects only, and the registry never
   gives out more indices than it has. *)
TypeOK ==
    /\ \A p \in Parties :
          /\ obj[p].state \in States /\ obj[p].status \in Statuses
          /\ obj[p].status # "Undefined" <=> obj[p].state = "Finished"
          /\ \A m \in DOMAIN box[p] : box[p][m] \in {"Received", "Reviewed"}
    /\ curr_id \in 0..RegistrySize
    /\ stored \subseteq ((1..RegistrySize) \X Nat)
    /\ faults \in 0..MaxFaults

(* A credential the holder has stored can be revoked: its index is the one the
   finished issuer object names, unless its sending was reported as failed, or
   the issuer went back to an older object. *)
Revocable ==
    kind # "restarting" =>
        \A s \in stored : \/ obj[Opener].state = "Finished" /\ obj[Opener].item = s[1]
                         \/ \E m \in misled : m.type = "credential" /\ m.item = s[1]

(* The wallet holds one credential of the exchange, and one more for each time
   the answer to the status call, or the object itself, was lost: the holder
   handles the credential again and stores it under a new id. *)
CopiesAreCaused == Cardinality(stored) <= 1 + again

(* Two finished objects agree on the outcome: the prover is told of a success
   exactly when the verifier has verified the proof, and a holder only has a
   credential of an issuer that knows it issued it; unless one of them ended
   after an answer that was delivered though its sending failed. *)
OutcomesAgree ==
    kind # "restarting" /\ misled = {} /\ (\A p \in Parties : obj[p].state = "Finished") =>
        /\ obj[Answerer].status = "Success" => obj[Opener].status = "Success"
        /\ ~Issuing /\ obj[Opener].status = "Success" => obj[Answerer].status = "Success"

(* With no failing call both sides finish. *)
ExchangeEnds == kind = "calm" => <>(\A p \in Parties : obj[p].state = "Finished")
=============================================================================
