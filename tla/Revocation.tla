----------------------------- MODULE Revocation -----------------------------
(***************************************************************************)
(* A revocation registry, from the issuer's wallet to the verifier.        *)
(*                                                                         *)
(*   - libindy's issuer commands (commands/anoncreds/issuer.rs): the       *)
(*     registry is two wallet records, the accumulator (rev_reg) and the   *)
(*     bookkeeping (rev_reg_info), written one after the other, so a       *)
(*     process that stops between the two writes leaves them torn;         *)
(*   - the deltas these commands return, which their caller publishes,     *)
(*     merges or loses, and the ledger, which takes a delta only when its  *)
(*     prevAccum is the accumulator of the last entry (external);          *)
(*   - libvcx's prover (disclosed_proof.rs, build_rev_states_json), which  *)
(*     keeps one revocation state for each registry in its wallet and      *)
(*     brings it up to date with deltas read from the ledger;              *)
(*   - libvcx's verifier (proof.rs), which reads the registry as it was at *)
(*     the timestamp the prover names.                                     *)
(*                                                                         *)
(* An accumulator is a product of the tails of its members.  It is         *)
(* modelled by the exponent of each tail: a function from Ids to Int.  A   *)
(* witness of index i is such a product too; it proves membership of i     *)
(* in the accumulator that is the witness times the tail of i.             *)
(***************************************************************************)
EXTENDS Integers, Sequences, FiniteSets, SequencesExt, FiniteSetsExt

CONSTANTS
    MaxCredNum,     \* max_cred_num of the registry
    RevokeIds,      \* the ids callers pass to indy_issuer_revoke_credential
    MaxHeld,        \* credentials of the registry one holder keeps
    AskBack,        \* whether an interval may end before the cached state
    MaxDeltas,      \* deltas the issuer's caller holds at once
    MaxTime,        \* the last second of the clock
    MaxTorn         \* how often the issuer stops between two wallet writes

ASSUME RegistryAssumption ==
    /\ MaxCredNum \in Nat \ {0}
    /\ MaxTime \in Nat \ {0} /\ MaxTorn \in Nat
    /\ MaxHeld \in Nat /\ MaxDeltas \in Nat
    /\ RevokeIds \subseteq 0..(MaxCredNum + 1)
    /\ AskBack \in BOOLEAN

VARIABLES
    issuance_type,  \* of the registry definition
    rev_reg,        \* the issuer's wallet: the accumulator
    curr_id,        \* the issuer's wallet: rev_reg_info.curr_id
    used_ids,       \* the issuer's wallet: rev_reg_info.used_ids
    deltas,         \* deltas returned to the issuer's caller, not yet published
    ledger,         \* the entries of the registry on the ledger, oldest first
    now,            \* the clock
    held,           \* indices of the holder's credentials
    cache,          \* the holder's wallet: the cached revocation state
    shown,          \* the last presentation and the verifier's verdict on it
    torn            \* history: stops between two writes

issuer == <<rev_reg, curr_id, used_ids>>
vars == <<issuance_type, rev_reg, curr_id, used_ids, deltas, ledger, now,
          held, cache, shown, torn>>

ByDefault == issuance_type = "ISSUANCE_BY_DEFAULT"

Indices == 1..MaxCredNum
\* The bound revoke_credential tests lets one id past the last index, and 0.
Ids == 0..(MaxCredNum + 1)

\* Products of tails.
One(S) == [i \in Ids |-> IF i \in S THEN 1 ELSE 0]
Times(a, S) == [i \in Ids |-> a[i] + One(S)[i]]
Over(a, S) == [i \in Ids |-> a[i] - One(S)[i]]

Delta == [prev : [Ids -> Int], accum : [Ids -> Int],
          issued : SUBSET Ids, revoked : SUBSET Ids]
Entry == [time : 0..MaxTime, accum : [Ids -> Int], members : SUBSET Indices]
NoState == [timestamp |-> 0, accum |-> One({}), witness |-> One({})]
NoProof == [creds |-> {}, from |-> 0, to |-> 0, timestamp |-> 0, base |-> 0,
            start |-> 0, valid |-> FALSE]

\* The members of a registry nobody has touched.
AtFirst == IF ByDefault THEN Indices ELSE {}

-----------------------------------------------------------------------------
(* The issuer's wallet. *)

\* The index new_credential gives out, and the records it will write.
NextId == curr_id + 1

Full == NextId > MaxCredNum

Signed == IF ByDefault THEN rev_reg ELSE Times(rev_reg, {NextId})
UsedAfterIssue == IF ByDefault THEN used_ids ELSE used_ids \cup {NextId}

(* Mutant: an id is revoked whatever used_ids says. *)
RevokesAgain(i) == i <= MaxCredNum + 1

\* revoke_credential accepts i: its bound, and used_ids, which holds the
\* revoked ids of a registry issued by default and the issued ones otherwise.
MayRevoke(i) ==
    /\ i <= MaxCredNum + 1
    /\ IF ByDefault THEN i \notin used_ids ELSE i \in used_ids

(* Mutant: the bookkeeping forgets the revocation. *)
NotRecorded(i) == used_ids

UsedAfterRevoke(i) == IF ByDefault THEN used_ids \cup {i} ELSE used_ids \ {i}

\* indy_issuer_create_credential, for the holder modelled here (mine) or for
\* another one.  A registry issued by default needs no delta.
NewCredential(mine) ==
    /\ ~Full
    /\ Len(deltas) < MaxDeltas
    /\ mine => Cardinality(held) < MaxHeld
    /\ rev_reg' = Signed
    /\ curr_id' = NextId
    /\ used_ids' = UsedAfterIssue
    /\ held' = IF mine THEN held \cup {NextId} ELSE held
    /\ deltas' = IF ByDefault THEN deltas
                 ELSE Append(deltas, [prev |-> rev_reg, accum |-> Signed,
                                      issued |-> {NextId}, revoked |-> {}])
    /\ UNCHANGED <<issuance_type, ledger, now, cache, shown, torn>>

\* indy_issuer_revoke_credential.
Revoke(i) ==
    /\ MayRevoke(i)
    /\ Len(deltas) < MaxDeltas
    /\ rev_reg' = Over(rev_reg, {i})
    /\ used_ids' = UsedAfterRevoke(i)
    /\ deltas' = Append(deltas, [prev |-> rev_reg, accum |-> Over(rev_reg, {i}),
                                 issued |-> {}, revoked |-> {i}])
    /\ UNCHANGED <<issuance_type, curr_id, ledger, now, held, cache, shown, torn>>

\* The process stops, or the second write fails, once either command has
\* written the accumulator: rev_reg_info keeps its old value, and the caller
\* gets neither a credential nor a delta.
Torn(accum) ==
    /\ torn < MaxTorn
    /\ torn' = torn + 1
    /\ rev_reg' = accum
    /\ UNCHANGED <<issuance_type, curr_id, used_ids, deltas, ledger, now, held,
                   cache, shown>>

TornCredential == ~Full /\ Torn(Signed)
TornRevoke(i) == MayRevoke(i) /\ Torn(Over(rev_reg, {i}))

-----------------------------------------------------------------------------
(* Deltas and the ledger. *)

\* indy_issuer_merge_revocation_registry_deltas: the caller replaces two
\* deltas it holds by one.  The second must start where the first ends.
Merged(d, e) ==
    [prev |-> d.prev, accum |-> e.accum,
     issued  |-> (d.issued  \cup (e.issued  \ d.revoked)) \ e.revoked,
     revoked |-> (d.revoked \cup (e.revoked \ d.issued))  \ e.issued]

Merge(k) ==
    /\ k + 1 \in DOMAIN deltas
    /\ deltas[k].accum = deltas[k + 1].prev
    /\ deltas' = RemoveAt([deltas EXCEPT ![k] = Merged(deltas[k], deltas[k + 1])],
                          k + 1)
    /\ UNCHANGED <<issuance_type, issuer, ledger, now, held, cache, shown, torn>>

\* The ledger takes a delta that continues its last entry.  An entry is later
\* than the one before it and than what was read before it.
Publish(k) ==
    /\ now < MaxTime
    /\ now' = now + 1
    /\ deltas[k].prev = Last(ledger).accum
    /\ ledger' = Append(ledger,
           [time |-> now + 1, accum |-> deltas[k].accum,
            members |-> (Last(ledger).members \cup (deltas[k].issued \cap Indices))
                        \ deltas[k].revoked])
    /\ deltas' = RemoveAt(deltas, k)
    /\ UNCHANGED <<issuance_type, issuer, held, cache, shown, torn>>

\* publish_rev_reg_delta fails: the request is lost or the ledger refuses it,
\* and revoke_credential returns an error without the delta.
Lose(k) ==
    /\ deltas' = RemoveAt(deltas, k)
    /\ UNCHANGED <<issuance_type, issuer, ledger, now, held, cache, shown, torn>>

Tick ==
    /\ now < MaxTime
    /\ now' = now + 1
    /\ UNCHANGED <<issuance_type, issuer, deltas, ledger, held, cache, shown, torn>>

\* The registry as it was at time t: GET_REVOC_REG.
At(t) == ledger[Max({k \in DOMAIN ledger : ledger[k].time <= t})]

\* GET_REVOC_REG_DELTA up to `to', from the state at `from' or from nothing (0).
\* Its timestamp is that of the entry it ends in.
LedgerDelta(from, to) ==
    LET before == IF from = 0 THEN AtFirst ELSE At(from).members
        after  == At(to).members
    IN  [accum |-> At(to).accum, issued |-> after \ before,
         revoked |-> before \ after, timestamp |-> At(to).time]

-----------------------------------------------------------------------------
(* The prover. *)

\* indy_create_revocation_state for index i, from a delta that starts at the
\* registry's creation.
CreateState(i, d) ==
    [timestamp |-> d.timestamp, accum |-> d.accum,
     witness |-> One(((AtFirst \cup d.issued) \ d.revoked) \ {i})]

\* indy_update_revocation_state for index i.
UpdateState(i, st, d) ==
    [timestamp |-> d.timestamp, accum |-> d.accum,
     witness |-> Over(Times(st.witness, d.issued \ {i}), d.revoked \ {i})]

(* Mutant: the start of the interval is not compared. *)
UsableIfOld(from, to) == cache.timestamp <= to

Usable(from, to) == cache.timestamp >= from /\ cache.timestamp <= to

(* Mutant: the delta starts at the interval, not at the cached state. *)
FromAsked(from) == from

\* Where the delta that updates the cached state starts.
UpdateFrom(from) == IF from >= cache.timestamp THEN cache.timestamp ELSE 0

\* build_rev_states_json: the state it puts in the proof, for the first of the
\* credentials, and whether it goes into the cache.
StateFor(i, from, to) ==
    IF cache = NoState THEN CreateState(i, LedgerDelta(0, to))
    ELSE IF Usable(from, to) THEN cache
    ELSE UpdateState(i, cache, LedgerDelta(UpdateFrom(from), to))

Cached(st) == IF cache = NoState \/ st.timestamp > cache.timestamp THEN st ELSE cache

\* The sub-proof of index i made with state st verifies against the registry
\* the verifier read for the prover's timestamp (build_rev_reg_json, verify).
Verifies(i, st) ==
    /\ st.accum = At(st.timestamp).accum
    /\ Times(st.witness, {i}) = st.accum

\* A proof of the credentials cs for the interval from..to, made and verified.
\* All credentials of one registry are proved with the first one's state.
Present(cs, from, to) ==
    LET st == StateFor(Head(cs), from, to) IN
    /\ from <= to /\ to <= now
    /\ ledger[1].time <= to
    /\ AskBack \/ to >= cache.timestamp
    /\ cache' = Cached(st)
    /\ shown' = [creds |-> Range(cs), from |-> from, to |-> to,
                 timestamp |-> st.timestamp,
                 base |-> IF Usable(from, to) THEN 0 ELSE cache.timestamp,
                 start |-> IF Usable(from, to) THEN 0 ELSE UpdateFrom(from),
                 valid |-> \A i \in Range(cs) : Verifies(i, st)]
    /\ UNCHANGED <<issuance_type, issuer, deltas, ledger, now, held, torn>>

-----------------------------------------------------------------------------
\* create_and_store_revocation_registry, and its first entry on the ledger.
Init ==
    /\ issuance_type \in {"ISSUANCE_BY_DEFAULT", "ISSUANCE_ON_DEMAND"}
    /\ rev_reg = One(AtFirst)
    /\ curr_id = 0 /\ used_ids = {}
    /\ deltas = <<>>
    /\ ledger = <<[time |-> 1, accum |-> One(AtFirst), members |-> AtFirst]>>
    /\ now = 1
    /\ held = {} /\ cache = NoState /\ shown = NoProof
    /\ torn = 0

Next ==
    \/ \E mine \in BOOLEAN : NewCredential(mine)
    \/ \E i \in RevokeIds : Revoke(i) \/ TornRevoke(i)
    \/ TornCredential
    \/ \E k \in DOMAIN deltas : Merge(k) \/ Publish(k) \/ Lose(k)
    \/ Tick
    \/ \E cs \in SeqOf(held, 2) \ {<<>>}, from, to \in 0..MaxTime : Present(cs, from, to)

Spec == Init /\ [][Next]_vars

-----------------------------------------------------------------------------
(* Properties. *)

\* The types of the records, of the ledger and of what the prover holds.
TypeOK ==
    /\ issuance_type \in {"ISSUANCE_BY_DEFAULT", "ISSUANCE_ON_DEMAND"}
    /\ rev_reg \in [Ids -> Int] /\ curr_id \in 0..MaxCredNum
    /\ used_ids \subseteq Ids
    /\ \A k \in DOMAIN deltas : deltas[k] \in Delta
    /\ ledger # <<>> /\ \A k \in DOMAIN ledger : ledger[k] \in Entry
    /\ now \in 1..MaxTime /\ held \subseteq Indices /\ torn \in 0..MaxTorn
    /\ cache.timestamp \in 0..now /\ shown.timestamp \in 0..now

\* The issuer's two records agree: the accumulator holds the tails of exactly
\* the ids the bookkeeping counts as members, each once.  new_credential and
\* revoke_credential write the two one after the other, so this is promised
\* only while no write was torn.
RecordsAgree ==
    torn = 0 => rev_reg = IF ByDefault THEN Over(One(Indices), used_ids)
                                       ELSE One(used_ids)

\* Every entry on the ledger holds the tails of exactly its members, however
\* the caller ordered, merged or lost the deltas: each delta says what its
\* command did to the accumulator, and prevAccum keeps the ledger from taking
\* one out of turn.  A torn write breaks the promise: an id revoked twice.
EntriesAgree ==
    torn = 0 => \A k \in DOMAIN ledger : ledger[k].accum = One(ledger[k].members)

\* A proof the verifier accepts is one of credentials that were all in the
\* registry at some moment of the interval asked for, though the prover uses a
\* cached state and the verifier never compares the timestamp with the interval.
ValidInInterval ==
    shown.valid => \E t \in shown.from..shown.to :
                      /\ ledger[1].time <= t
                      /\ shown.creds \subseteq At(t).members

\* The verifier accepts the proof of a credential that was in the registry at
\* the timestamp the prover chose: caching and updating the revocation state
\* never spoils the witness.  Promised to a holder of one credential of the
\* registry who is not asked about the time before its cached state.
MemberProves ==
    /\ torn = 0
    /\ shown.creds # {}
    /\ shown.creds \subseteq At(shown.timestamp).members
    => shown.valid

\* indy_update_revocation_state asks for a delta that "must cover the registry
\* gap from based state creation until the specified time": the delta
\* build_rev_states_json gives it starts at the cached state.
DeltaCoversGap == shown.start = shown.base
=============================================================================
