-------------------------- MODULE RevocationProofs --------------------------
(***************************************************************************)
(* For a registry of any size, any ids passed to revoke_credential and any *)
(* order of issuing, revoking, merging, publishing and losing: the two     *)
(* wallet records agree (RecordsAgree) and, when callers pass ids of the   *)
(* registry, so does every entry on the ledger (EntriesAgree).             *)
(***************************************************************************)
EXTENDS Revocation, SequenceTheorems, TLAPS

\* The accumulator the bookkeeping describes.
Recorded == IF ByDefault THEN Over(One(Indices), used_ids) ELSE One(used_ids)

\* What the bookkeeping can hold.
Bookkept ==
  /\ issuance_type \in {"ISSUANCE_BY_DEFAULT", "ISSUANCE_ON_DEMAND"}
  /\ curr_id \in 0 .. MaxCredNum
  /\ used_ids \subseteq IF ByDefault THEN RevokeIds ELSE 1 .. curr_id
  /\ torn \in Nat

RInv == Bookkept /\ (torn = 0 => rev_reg = Recorded)

\* No tail is in the product more than once, or less than never.
Simple(a) == a \in [Ids -> {0, 1}]

\* A delta says what happened to the accumulator.
Tells(d) ==
  /\ d.issued \subseteq Indices /\ d.revoked \subseteq Indices
  /\ d.issued \cap d.revoked = {}
  /\ Simple(d.prev) /\ Simple(d.accum)
  /\ \A i \in Ids : d.accum[i] = d.prev[i] + One(d.issued)[i] - One(d.revoked)[i]

Told   == {d \in Delta : Tells(d)}
Agreed == {e \in Entry : e.accum = One(e.members)}

\* The inductive invariant of EntriesAgree.
IInv ==
  /\ RInv
  /\ rev_reg \in [Ids -> Int] /\ now \in 0 .. MaxTime
  /\ deltas \in Seq(Delta)
  /\ ledger \in Seq(Entry) /\ ledger # << >>
  /\ torn = 0 => deltas \in Seq(Told) /\ ledger \in Seq(Agreed)
-----------------------------------------------------------------------------
\* The ids and the indices are numbers.
LEMMA IdsType == MaxCredNum \in Nat /\ Indices \subseteq Ids /\ Ids \subseteq Nat
BY RegistryAssumption DEF Indices, Ids

\* new_credential records what it multiplies in.
LEMMA IssueRecords ==
  ASSUME Bookkept, rev_reg = Recorded, ~Full
  PROVE  Signed = IF ByDefault THEN Over(One(Indices), UsedAfterIssue)
                               ELSE One(UsedAfterIssue)
<1>1. CASE ByDefault
  BY <1>1 DEF Recorded, Signed, UsedAfterIssue
<1>2. CASE ~ByDefault
  <2>1. NextId \notin used_ids /\ NextId \in Ids
    BY <1>2, IdsType DEF Bookkept, NextId, Full, Ids
  <2>2. QED
    BY <1>2, <2>1 DEF Recorded, Signed, UsedAfterIssue, Times, One
<1>3. QED
  BY <1>1, <1>2

\* revoke_credential records what it divides out.
LEMMA RevokeRecords ==
  ASSUME Bookkept, rev_reg = Recorded, NEW i \in RevokeIds, MayRevoke(i)
  PROVE  Over(rev_reg, {i}) = IF ByDefault THEN Over(One(Indices), UsedAfterRevoke(i))
                                          ELSE One(UsedAfterRevoke(i))
<1>1. CASE ByDefault
  BY <1>1 DEF Recorded, UsedAfterRevoke, MayRevoke, Over, One
<1>2. CASE ~ByDefault
  BY <1>2, SMTT(30) DEF Recorded, UsedAfterRevoke, MayRevoke, Over, One
<1>3. QED
  BY <1>1, <1>2, SMTT(30)

\* The commands keep the bookkeeping within the registry.
LEMMA RecordsStep == RInv /\ [Next]_vars => RInv'
<1>1. SUFFICES ASSUME RInv, [Next]_vars
               PROVE  RInv'
  OBVIOUS
<1>2. ASSUME NEW mine \in BOOLEAN, NewCredential(mine)
      PROVE  RInv'
  <2>1. ByDefault' = ByDefault
    BY <1>2 DEF NewCredential, ByDefault
  <2>2. Bookkept'
    BY <1>1, <1>2, <2>1, IdsType, SMTT(30)
    DEF RInv, Bookkept, NewCredential, UsedAfterIssue, NextId, Full
  <2>3. torn' = 0 => rev_reg' = Recorded'
    BY <1>1, <1>2, <2>1, IssueRecords, SMTT(30) DEF RInv, NewCredential, Recorded
  <2>4. QED
    BY <2>2, <2>3, SMTT(30) DEF RInv
<1>3. ASSUME NEW i \in RevokeIds, Revoke(i)
      PROVE  RInv'
  <2>1. ByDefault' = ByDefault
    BY <1>3 DEF Revoke, ByDefault
  <2>2. Bookkept'
    BY <1>1, <1>3, <2>1, SMTT(30) DEF RInv, Bookkept, Revoke, UsedAfterRevoke
  <2>3. torn' = 0 => rev_reg' = Recorded'
    BY <1>1, <1>3, <2>1, RevokeRecords, SMTT(30) DEF RInv, Revoke, Recorded
  <2>4. QED
    BY <2>2, <2>3, SMTT(30) DEF RInv
<1>4. ASSUME NEW a, Torn(a)
      PROVE  RInv'
  BY <1>1, <1>4, SMTT(30) DEF RInv, Bookkept, Torn, ByDefault
<1>5. ASSUME UNCHANGED <<issuance_type, rev_reg, curr_id, used_ids, torn>>
      PROVE  RInv'
  BY <1>1, <1>5, SMTT(30) DEF RInv, Bookkept, Recorded, ByDefault
<1>6. QED
  BY <1>1, <1>2, <1>3, <1>4, <1>5, Zenon
  DEF Next, vars, issuer, TornCredential, TornRevoke, Merge, Publish, Lose, Tick, Present
\* While no write was torn, the accumulator and the bookkeeping agree.
THEOREM RecordsAgreeAlways == Spec => []RecordsAgree
<1>1. Init => RInv
  <2>1. SUFFICES ASSUME Init PROVE RInv
    OBVIOUS
  <2>2. rev_reg = Recorded
    BY <2>1 DEF Init, Recorded, AtFirst, Over, One
  <2>3. QED
    BY <2>1, <2>2, IdsType, SMTT(30) DEF Init, RInv, Bookkept
<1>2. RInv => RecordsAgree
  BY DEF RInv, RecordsAgree, Recorded
<1>3. QED
  BY <1>1, <1>2, RecordsStep, PTL DEF Spec
-----------------------------------------------------------------------------
\* Removing an element leaves a sequence of the other elements.
LEMMA RemoveAtType ==
  ASSUME NEW S, NEW s \in Seq(S), NEW k \in DOMAIN s
  PROVE  RemoveAt(s, k) \in Seq(S)
<1>1. /\ Len(s) \in Nat /\ k \in 1 .. Len(s)
      /\ \A i \in 1 .. k - 1 : s[i] \in S
      /\ \A i \in k + 1 .. Len(s) : s[i] \in S
  OBVIOUS
<1>2. SubSeq(s, 1, k - 1) \in Seq(S)
  BY <1>1, SubSeqProperties, SMTT(30)
<1>3. SubSeq(s, k + 1, Len(s)) \in Seq(S)
  BY <1>1, SubSeqProperties, SMTT(30)
<1>4. QED
  BY <1>2, <1>3, ConcatProperties, SMTT(30) DEF RemoveAt

\* The accumulator the bookkeeping describes holds each tail at most once.
LEMMA RecordedIsSimple ==
  ASSUME Bookkept, RevokeIds \subseteq Indices
  PROVE  Simple(Recorded)
BY IdsType, SMTT(30) DEF Bookkept, Recorded, Simple, Over, One, Indices

\* new_credential's delta says what it did.
LEMMA IssueTells ==
  ASSUME Bookkept, Simple(rev_reg), Simple(Signed), ~ByDefault, ~Full
  PROVE  Tells([prev |-> rev_reg, accum |-> Signed, issued |-> {NextId}, revoked |-> {}])
<1>1. NextId \in Indices
  BY IdsType, SMTT(30) DEF Bookkept, NextId, Full, Indices
<1>2. QED
  BY <1>1, IdsType, SMTT(30) DEF Tells, Signed, Times, One, Simple

\* revoke_credential's delta says what it did.
LEMMA RevokeTells ==
  ASSUME NEW i \in Indices, Simple(rev_reg), Simple(Over(rev_reg, {i}))
  PROVE  Tells([prev |-> rev_reg, accum |-> Over(rev_reg, {i}),
                issued |-> {}, revoked |-> {i}])
BY IdsType, SMTT(30) DEF Tells, Over, One, Simple

\* Two deltas in a row are told by their merger.
LEMMA MergedTells ==
  ASSUME NEW d, NEW e, Tells(d), Tells(e), d.accum = e.prev
  PROVE  Tells(Merged(d, e))
<1> DEFINE m == Merged(d, e)
<1>1. /\ m.prev = d.prev /\ m.accum = e.accum
      /\ m.issued = (d.issued \cup (e.issued \ d.revoked)) \ e.revoked
      /\ m.revoked = (d.revoked \cup (e.revoked \ d.issued)) \ e.issued
  BY DEF Merged
<1> HIDE DEF m
<1>2. m.issued \subseteq Indices /\ m.revoked \subseteq Indices /\ m.issued \cap m.revoked = {}
  BY <1>1, SMTT(30) DEF Tells
<1>3. ASSUME NEW i \in Ids
      PROVE  m.accum[i] = m.prev[i] + One(m.issued)[i] - One(m.revoked)[i]
  <2>1. /\ d.prev[i] \in {0, 1} /\ d.accum[i] \in {0, 1} /\ e.accum[i] \in {0, 1}
        /\ e.prev[i] = d.accum[i]
    BY <1>3, SMTT(30) DEF Tells, Simple
  <2>2. /\ d.accum[i] = d.prev[i] + (IF i \in d.issued THEN 1 ELSE 0)
                                  - (IF i \in d.revoked THEN 1 ELSE 0)
        /\ e.accum[i] = e.prev[i] + (IF i \in e.issued THEN 1 ELSE 0)
                                  - (IF i \in e.revoked THEN 1 ELSE 0)
        /\ ~(i \in d.issued /\ i \in d.revoked) /\ ~(i \in e.issued /\ i \in e.revoked)
    BY <1>3, SMTT(30) DEF Tells, One
  <2>3. /\ One(m.issued)[i] = IF i \in m.issued THEN 1 ELSE 0
        /\ One(m.revoked)[i] = IF i \in m.revoked THEN 1 ELSE 0
    BY <1>3 DEF One
  <2>4. /\ i \in m.issued <=> (i \in d.issued \/ (i \in e.issued /\ i \notin d.revoked))
                               /\ i \notin e.revoked
        /\ i \in m.revoked <=> (i \in d.revoked \/ (i \in e.revoked /\ i \notin d.issued))
                                /\ i \notin e.issued
    BY <1>1, SMTT(30)
  <2>5. CASE i \in d.issued
    BY <1>1, <2>1, <2>2, <2>3, <2>4, <2>5, SMTT(30)
  <2>6. CASE i \in d.revoked
    <3>1. i \notin d.issued /\ d.prev[i] = 1 /\ d.accum[i] = 0
      BY <2>1, <2>2, <2>6, SMTT(30)
    <3>2. i \notin e.revoked
      BY <2>1, <2>2, <3>1, SMTT(30)
    <3>3. QED
      BY <1>1, <2>1, <2>2, <2>3, <2>4, <2>6, <3>1, <3>2, SMTT(30)
  <2>7. CASE i \notin d.issued /\ i \notin d.revoked
    BY <1>1, <2>1, <2>2, <2>3, <2>4, <2>7, SMTT(30)
  <2>8. QED
    BY <2>5, <2>6, <2>7, SMTT(30)
<1>4. QED
  BY <1>1, <1>2, <1>3, Zenon DEF Tells, m

\* The ledger's next entry holds the tails of its members.
LEMMA PublishedAgrees ==
  ASSUME NEW M \in SUBSET Indices, NEW d, Tells(d), d.prev = One(M)
  PROVE  d.accum = One((M \cup (d.issued \cap Indices)) \ d.revoked)
<1> DEFINE R == (M \cup (d.issued \cap Indices)) \ d.revoked
<1>1. ASSUME NEW i \in Ids
      PROVE  d.accum[i] = One(R)[i]
  BY <1>1 DEF Tells, Simple, One
<1>2. d.accum \in [Ids -> {0, 1}] /\ One(R) \in [Ids -> {0, 1}]
  BY DEF Tells, Simple, One
<1>3. QED
  BY <1>1, <1>2, SMTT(30)
\* Every entry of the ledger agrees with its members, in a registry whose
\* callers revoke its own indices.
LEMMA EntriesStep ==
  ASSUME RevokeIds \subseteq Indices, IInv, [Next]_vars
  PROVE  IInv'
<1>1. RInv'
  BY RecordsStep DEF IInv
<1>2. torn = 0 => Simple(rev_reg)
  BY RecordedIsSimple DEF IInv, RInv
<1>3. torn' = 0 => Simple(rev_reg')
  <2>1. Bookkept' => Simple(Recorded')
    BY IdsType DEF Bookkept, Recorded, Simple, Over, One, Indices, ByDefault
  <2>2. QED
    BY <1>1, <2>1, SMTT(30) DEF RInv
<1>4. ASSUME NEW mine \in BOOLEAN, NewCredential(mine)
      PROVE  IInv'
  <2> DEFINE d == [prev |-> rev_reg, accum |-> Signed, issued |-> {NextId}, revoked |-> {}]
  <2>1. NextId \in Ids /\ Signed \in [Ids -> Int]
    BY <1>4, IdsType, SMTT(30)
    DEF IInv, RInv, Bookkept, NewCredential, NextId, Full, Ids, Signed, Times, One
  <2>2. d \in Delta
    BY <2>1, SMTT(30) DEF IInv, Delta
  <2>3. ~ByDefault /\ torn = 0 => d \in Told
    BY <1>2, <1>3, <1>4, <2>2, IssueTells, SMTT(30) DEF IInv, RInv, NewCredential, Told
  <2> HIDE DEF d
  <2>4. /\ deltas' = IF ByDefault THEN deltas ELSE Append(deltas, d)
        /\ rev_reg' = Signed /\ UNCHANGED <<ledger, now, torn>>
    BY <1>4, SMTT(30) DEF NewCredential, d
  <2>5. deltas' \in Seq(Delta) /\ (torn = 0 => deltas' \in Seq(Told))
    BY <2>2, <2>3, <2>4, AppendProperties, SMTT(30) DEF IInv
  <2>6. QED
    BY <1>1, <2>1, <2>4, <2>5, SMTT(30) DEF IInv
<1>5. ASSUME NEW i \in RevokeIds, Revoke(i)
      PROVE  IInv'
  <2> DEFINE d == [prev |-> rev_reg, accum |-> Over(rev_reg, {i}),
                   issued |-> {}, revoked |-> {i}]
  <2>1. i \in Indices /\ i \in Ids /\ Over(rev_reg, {i}) \in [Ids -> Int]
    BY IdsType DEF IInv, Over, One
  <2>2. d \in Delta
    BY <2>1, Zenon DEF IInv, Delta
  <2>3. torn = 0 => d \in Told
    BY <1>2, <1>3, <1>5, <2>1, <2>2, RevokeTells, SMTT(30) DEF Revoke, Told
  <2> HIDE DEF d
  <2>4. /\ deltas' = Append(deltas, d)
        /\ rev_reg' = Over(rev_reg, {i}) /\ UNCHANGED <<ledger, now, torn>>
    BY <1>5, SMTT(30) DEF Revoke, d
  <2>5. deltas' \in Seq(Delta) /\ (torn = 0 => deltas' \in Seq(Told))
    BY <2>2, <2>3, <2>4, AppendProperties, SMTT(30) DEF IInv
  <2>6. QED
    BY <1>1, <2>1, <2>4, <2>5, Zenon DEF IInv
<1>6. ASSUME NEW a \in [Ids -> Int], Torn(a)
      PROVE  IInv'
  BY <1>1, <1>6, SMTT(30) DEF IInv, RInv, Bookkept, Torn
<1>7. CASE TornCredential
  BY <1>6, <1>7, IdsType, SMTT(30)
  DEF TornCredential, IInv, Signed, Times, One
<1>8. ASSUME NEW i \in RevokeIds, TornRevoke(i)
      PROVE  IInv'
  BY <1>6, <1>8, IdsType, SMTT(30) DEF TornRevoke, IInv, Over, One
<1>9. ASSUME NEW k \in DOMAIN deltas, Merge(k)
      PROVE  IInv'
  <2> DEFINE m  == Merged(deltas[k], deltas[k + 1])
             ds == [deltas EXCEPT ![k] = m]
  <2>1. k + 1 \in DOMAIN deltas /\ deltas[k].accum = deltas[k + 1].prev
    BY <1>9, SMTT(30) DEF Merge
  <2>2. deltas[k] \in Delta /\ deltas[k + 1] \in Delta
    BY <2>1, SMTT(30) DEF IInv
  <2>3. m \in Delta
    BY <2>2, SMTT(30) DEF Delta, Merged
  <2>4. torn = 0 => m \in Told
    <3>1. torn = 0 => deltas[k] \in Told /\ deltas[k + 1] \in Told
      BY <2>1, SMTT(30) DEF IInv
    <3>2. QED
      BY <2>1, <2>3, <3>1, MergedTells, SMTT(30) DEF Told
  <2> HIDE DEF m
  <2>5. ds \in Seq(Delta) /\ (torn = 0 => ds \in Seq(Told)) /\ DOMAIN ds = DOMAIN deltas
    BY <2>3, <2>4, SMTT(30) DEF IInv
  <2> HIDE DEF ds
  <2>6. deltas' = RemoveAt(ds, k + 1) /\ UNCHANGED <<rev_reg, ledger, now, torn>>
    BY <1>9, SMTT(30) DEF Merge, ds, m, issuer
  <2>7. deltas' \in Seq(Delta) /\ (torn = 0 => deltas' \in Seq(Told))
    BY <2>1, <2>5, <2>6, RemoveAtType, SMTT(30)
  <2>8. QED
    BY <1>1, <2>6, <2>7, SMTT(30) DEF IInv
<1>10. ASSUME NEW k \in DOMAIN deltas, Publish(k)
       PROVE  IInv'
  <2> DEFINE M == Last(ledger).members
             d == deltas[k]
             e == [time |-> now + 1, accum |-> d.accum,
                   members |-> (M \cup (d.issued \cap Indices)) \ d.revoked]
  <2>1. Last(ledger) \in Entry /\ (torn = 0 => Last(ledger) \in Agreed)
    BY DEF IInv, Last
  <2>2. d \in Delta /\ (torn = 0 => d \in Told)
    BY SMTT(30) DEF IInv
  <2>3. M \in SUBSET Indices /\ d.prev = Last(ledger).accum /\ now + 1 \in 0 .. MaxTime
    BY <1>10, <2>1, RegistryAssumption, SMTT(30) DEF Publish, Entry, IInv
  <2>4. e \in Entry
    BY <2>2, <2>3, SMTT(30) DEF Entry, Delta
  <2>5. torn = 0 => e \in Agreed
    <3>1. torn = 0 => d.accum = One(e.members)
      BY <2>1, <2>2, <2>3, PublishedAgrees, SMTT(30) DEF Agreed, Told
    <3>2. QED
      BY <2>4, <3>1, SMTT(30) DEF Agreed
  <2>6. /\ ledger' = Append(ledger, e) /\ deltas' = RemoveAt(deltas, k)
        /\ now' = now + 1 /\ UNCHANGED <<rev_reg, torn>>
    BY <1>10, SMTT(30) DEF Publish, issuer
  <2> HIDE DEF e
  <2>7. /\ ledger' \in Seq(Entry) /\ ledger' # << >>
        /\ torn = 0 => ledger' \in Seq(Agreed)
    BY <2>4, <2>5, <2>6, AppendProperties, SMTT(30) DEF IInv
  <2>8. deltas' \in Seq(Delta) /\ (torn = 0 => deltas' \in Seq(Told))
    BY <2>6, RemoveAtType, SMTT(30) DEF IInv
  <2>9. QED
    BY <1>1, <2>3, <2>6, <2>7, <2>8, SMTT(30) DEF IInv
<1>11. ASSUME NEW k \in DOMAIN deltas, Lose(k)
       PROVE  IInv'
  BY <1>1, <1>11, RemoveAtType, SMTT(30) DEF IInv, Lose, issuer
<1>12. CASE Tick
  BY <1>1, <1>12, RegistryAssumption, SMTT(30) DEF IInv, Tick, issuer
<1>13. ASSUME UNCHANGED <<rev_reg, deltas, ledger, now, torn>>
       PROVE  IInv'
  BY <1>1, <1>13, SMTT(30) DEF IInv
<1>14. QED
  BY <1>4, <1>5, <1>7, <1>8, <1>9, <1>10, <1>11, <1>12, <1>13, SMTT(30)
  DEF Next, vars, issuer, Present

\* While no write was torn, every entry on the ledger holds the tails of exactly
\* its members, in every registry whose callers revoke its own indices.
THEOREM EntriesAgreeAlways == RevokeIds \subseteq Indices => (Spec => []EntriesAgree)
<1>1. SUFFICES ASSUME RevokeIds \subseteq Indices
               PROVE  Spec => []EntriesAgree
  OBVIOUS
<1>2. Init => IInv
  <2>1. SUFFICES ASSUME Init PROVE IInv
    BY SMTT(30)
  <2>2. rev_reg = Recorded /\ AtFirst \subseteq Indices
    BY <2>1, SMTT(30) DEF Init, Recorded, AtFirst, Over, One
  <2>3. RInv
    BY <2>1, <2>2, IdsType, SMTT(30) DEF Init, RInv, Bookkept
  <2>4. rev_reg \in [Ids -> Int] /\ now \in 0 .. MaxTime
    BY <2>1, IdsType, RegistryAssumption, SMTT(30) DEF Init, One
  <2>5. [time |-> 1, accum |-> One(AtFirst), members |-> AtFirst] \in Agreed
    BY <2>2, RegistryAssumption, SMTT(30) DEF Agreed, Entry, One
  <2>6. Agreed \subseteq Entry
    BY DEF Agreed
  <2>7. QED
    BY <2>1, <2>3, <2>4, <2>5, <2>6, SMTT(30) DEF Init, IInv
<1>3. IInv => EntriesAgree
  <2>1. SUFFICES ASSUME IInv, torn = 0, NEW k \in DOMAIN ledger
                 PROVE  ledger[k] \in Agreed
    BY DEF EntriesAgree, Agreed
  <2>2. QED
    BY <2>1, SMTT(30) DEF IInv
<1>4. IInv /\ [Next]_vars => IInv'
  BY <1>1, EntriesStep
<1>5. QED
  BY <1>2, <1>3, <1>4, PTL DEF Spec
=============================================================================
