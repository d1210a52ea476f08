------------------------ MODULE WalletServiceProofs ------------------------
(***************************************************************************)
(* For any number of wallets, keys, records, files, calls and crashes:     *)
(* ListedIsOpen, ContinueFindsData, OpenIsCurrent, ImportAllOrNothing and  *)
(* DeleteNeedsKey of WalletService.                                        *)
(***************************************************************************)
EXTENDS WalletService, TLAPS

\* Ids are drawn once: of commands, of the storages they make, of handles.
Named ==
  /\ \A j \in jobs : j.cmd < next_id /\ (j.op \in {"Open", "Import"} => j.handle = j.cmd)
  /\ \A j \in jobs : j.op \in {"Export", "Import"} => j.path \in Paths
  /\ \A i, j \in jobs : i.cmd = j.cmd => i = j
  /\ \A p \in pending_for_open : p.handle < next_id
  /\ \A w \in Wallets : dir[w] < next_id /\ \A j \in jobs : dir[w] # j.cmd
  /\ \A v, w \in Wallets : dir[v] = dir[w] /\ dir[v] # None => v = w

\* What an application that waits for its answers can rely on between the two
\* steps of a command: the checks of the prepare step still hold.
Quiet ==
  /\ \A i, j \in jobs : i.wallet = j.wallet => i = j
  /\ \A o \in wallets : /\ o.wallet \in wallet_ids
                        /\ dir[o.wallet] = o.storage
                        /\ \A q \in wallets : q.wallet = o.wallet => q = o
  /\ \A j \in jobs : j.op \in {"Open", "Delete"} => j.wallet \notin wallet_ids
  /\ \A j \in jobs, p \in pending_for_open : j.op = "Open" /\ p.handle = j.handle =>
        p.wallet = j.wallet /\ p.storage = dir[j.wallet]
  /\ \A j \in jobs : j.op = "Delete" =>
        dir[j.wallet] # None /\ j.other = storages[dir[j.wallet]].key

\* The inductive invariant.
IInv ==
  /\ TypeOK /\ Named
  /\ ListedIsOpen /\ ContinueFindsData
  /\ serial => Quiet
  /\ ImportAllOrNothing
-----------------------------------------------------------------------------
\* What the fields are.
LEMMA Fields ==
  ASSUME TypeOK
  PROVE  /\ MaxId \in Nat /\ None = 0 /\ None \notin Ids /\ Ids \subseteq Nat
         /\ next_id \in Nat /\ next_id >= 1
         /\ \A w \in Wallets : dir[w] \in Nat /\ (dir[w] # None => dir[w] \in Ids)
         /\ \A j \in jobs : /\ j.cmd \in Ids /\ j.wallet \in Wallets
                            /\ j.key \in Keys /\ j.other \in Keys \cup {NoKey}
         /\ \A o \in wallets : o.handle \in Ids /\ o.wallet \in Wallets /\ o.storage \in Ids
         /\ \A p \in pending_for_open : /\ p.handle \in Ids /\ p.wallet \in Wallets
                                        /\ p.storage \in Ids
<1>1. MaxId \in Nat /\ None = 0 /\ None \notin Ids /\ Ids \subseteq Nat
  BY WalletAssumption DEF None, Ids
<1>2. next_id \in Nat /\ next_id >= 1
  BY <1>1 DEF TypeOK
<1>3. \A w \in Wallets : dir[w] \in Nat /\ (dir[w] # None => dir[w] \in Ids)
  <2>1. \A w \in Wallets : dir[w] \in Ids \cup {None}
    BY DEF TypeOK
  <2>2. ASSUME NEW w \in Wallets
        PROVE  dir[w] \in Nat /\ (dir[w] # None => dir[w] \in Ids)
    BY <2>1, <2>2, WalletAssumption DEF None, Ids
  <2>3. QED
    BY <2>2
<1>4. /\ \A j \in jobs : /\ j.cmd \in Ids /\ j.wallet \in Wallets
                         /\ j.key \in Keys /\ j.other \in Keys \cup {NoKey}
  BY DEF TypeOK, Jobs
<1>5. \A o \in wallets : o.handle \in Ids /\ o.wallet \in Wallets /\ o.storage \in Ids
  BY DEF TypeOK, Handles
<1>6. \A p \in pending_for_open : p.handle \in Ids /\ p.wallet \in Wallets /\ p.storage \in Ids
  BY DEF TypeOK, Pending
<1>7. QED
  BY <1>1, <1>2, <1>3, <1>4, <1>5, <1>6

\* Drawing an id keeps its bound.
LEMMA NextIdType ==
  ASSUME TypeOK, next_id \in Ids
  PROVE  next_id + 1 \in 1 .. MaxId + 1
BY Fields DEF Ids

\* A command refused at once draws an id.
LEMMA RefuseIInv ==
  ASSUME IInv, next_id \in Ids, Refuse
  PROVE  IInv'
<1>1. TypeOK'
  BY NextIdType DEF IInv, TypeOK, Refuse
<1>2. Named'
  BY Fields DEF IInv, Named, Refuse
<1>3. QED
  BY <1>1, <1>2 DEF IInv, Refuse, ListedIsOpen, ContinueFindsData, Quiet, ImportAllOrNothing
\* A job that starts: its id is new, and it finds what it left.
LEMMA DeriveIInv ==
  ASSUME IInv, next_id \in Ids, NEW job \in Jobs, job.cmd = next_id, Derive(job),
         job.op \in {"Open", "Import"} => job.handle = job.cmd,
         job.op \in {"Export", "Import"} => job.path \in Paths,
         pending_for_open \subseteq pending_for_open',
         pending_for_import \subseteq pending_for_import',
         pending_for_open' \subseteq Pending, pending_for_import' \subseteq Ids,
         \A p \in pending_for_open' : p \in pending_for_open \/ p.handle = next_id,
         job.op = "Open" => \E p \in pending_for_open' : p.handle = job.handle,
         job.op = "Import" => job.cmd \in pending_for_import',
         serial => Quiet'
  PROVE  IInv'
<1>1. TypeOK'
  BY NextIdType DEF IInv, TypeOK, Derive
<1>2. Named'
  <2>1. /\ \A w \in Wallets : dir[w] < next_id /\ dir[w] \in Nat
        /\ \A j \in jobs : j.cmd < next_id /\ j.cmd \in Nat
        /\ \A p \in pending_for_open : p.handle < next_id /\ p.handle \in Nat
        /\ next_id \in Nat
    BY Fields DEF IInv, Named
  <2>2. jobs' = jobs \cup {job} /\ next_id' = next_id + 1 /\ dir' = dir
    BY DEF Derive
  <2>3. \A w \in Wallets : dir[w] < next_id + 1 /\ dir[w] # next_id
    BY <2>1
  <2>4. \A j \in jobs' : j.cmd < next_id + 1
    BY <2>1, <2>2
  <2>5. \A p \in pending_for_open' : p.handle < next_id + 1
    BY <2>1
  <2>6. \A i, j \in jobs' : i.cmd = j.cmd => i = j
    BY <2>1, <2>2 DEF IInv, Named
  <2>7. QED
    BY <2>2, <2>3, <2>4, <2>5, <2>6 DEF IInv, Named
<1>3. ListedIsOpen' /\ ImportAllOrNothing'
  BY DEF IInv, ListedIsOpen, ImportAllOrNothing, Derive
<1>4. ContinueFindsData'
  BY DEF IInv, ContinueFindsData, Derive
<1>5. QED
  BY <1>1, <1>2, <1>3, <1>4 DEF IInv, Derive

\* Calls that leave the pending tables alone.
LEMMA CreateIInv ==
  ASSUME IInv, NEW w \in Wallets, NEW k \in Keys, Create(w, k)
  PROVE  IInv'
<1> DEFINE job == Job("Create", w, None, k, NoKey, NoPath)
<1>1. job \in Jobs /\ job.cmd = next_id /\ job.op = "Create" /\ job.wallet = w
  BY DEF Create, MayCall, Job, Jobs
<1>2. /\ Derive(job) /\ next_id \in Ids /\ (serial => \A j \in jobs : j.wallet # w)
      /\ UNCHANGED <<pending_for_open, pending_for_import>>
  BY DEF Create, MayCall
<1> HIDE DEF job
<1>3. serial => Quiet'
  BY <1>1, <1>2 DEF IInv, Quiet, Derive
<1>4. QED
  BY <1>1, <1>2, <1>3, DeriveIInv DEF IInv, TypeOK

\* delete_wallet_prepare keeps the invariant: the metadata a delete has read is
\* that of the storage in the directory.
LEMMA DeleteIInv ==
  ASSUME IInv, NEW w \in Wallets, NEW k \in Keys, Delete(w, k)
  PROVE  IInv'
<1> DEFINE job == Job("Delete", w, None, k, storages[dir[w]].key, NoPath)
<1>1. CASE MayCall(w) /\ w \notin wallet_ids /\ HasMetadata(w) /\ Derive(job)
           /\ UNCHANGED <<pending_for_open, pending_for_import>>
  <2>1. dir[w] \in Ids /\ storages[dir[w]] \in Storages
    BY <1>1, Fields DEF IInv, TypeOK, HasMetadata
  <2>2. storages[dir[w]].key \in Keys \cup {NoKey}
    BY <2>1 DEF Storages
  <2>3. /\ job \in Jobs /\ job.cmd = next_id /\ job.op = "Delete" /\ job.wallet = w
        /\ job.other = storages[dir[w]].key
    BY <1>1, <2>2 DEF MayCall, Job, Jobs
  <2>4. /\ Derive(job) /\ next_id \in Ids /\ (serial => \A j \in jobs : j.wallet # w)
        /\ w \notin wallet_ids /\ dir[w] # None
        /\ UNCHANGED <<pending_for_open, pending_for_import>>
    BY <1>1 DEF MayCall, HasMetadata
  <2> HIDE DEF job
  <2>5. serial => Quiet'
    BY <2>3, <2>4 DEF IInv, Quiet, Derive
  <2>6. QED
    BY <2>3, <2>4, <2>5, DeriveIInv DEF IInv, TypeOK
<1>2. QED
  BY <1>1, RefuseIInv DEF Delete, MayCall

\* Starting an export keeps the invariant.
LEMMA ExportIInv ==
  ASSUME IInv, NEW o \in wallets, NEW p \in Paths, NEW k \in Keys, Export(o, p, k)
  PROVE  IInv'
<1> DEFINE job == Job("Export", o.wallet, o.handle, k, NoKey, p)
<1>1. /\ job \in Jobs /\ job.cmd = next_id /\ job.op = "Export" /\ job.wallet = o.wallet
      /\ job.path = p
  BY Fields DEF IInv, Export, MayCall, Job, Jobs
<1>2. /\ Derive(job) /\ next_id \in Ids /\ (serial => \A j \in jobs : j.wallet # o.wallet)
      /\ UNCHANGED <<pending_for_open, pending_for_import>>
  BY DEF Export, MayCall
<1> HIDE DEF job
<1>3. serial => Quiet'
  BY <1>1, <1>2 DEF IInv, Quiet, Derive
<1>4. QED
  BY <1>1, <1>2, <1>3, DeriveIInv DEF IInv, TypeOK
\* Calls that leave an entry for their continue step.
LEMMA OpenIInv ==
  ASSUME IInv, NEW w \in Wallets, NEW k \in Keys, NEW rekey \in Keys \cup {NoKey},
         Open(w, k, rekey)
  PROVE  IInv'
<1> DEFINE job == Job("Open", w, next_id, k, rekey, NoPath)
           e   == [handle |-> next_id, wallet |-> w, storage |-> dir[w],
                   key |-> storages[dir[w]].key]
<1>1. CASE MayCall(w) /\ w \notin wallet_ids /\ HasMetadata(w) /\ Derive(job)
           /\ pending_for_open' = pending_for_open \cup {e} /\ UNCHANGED pending_for_import
  <2>1. dir[w] \in Ids /\ storages[dir[w]] \in Storages /\ next_id \in Ids
    BY <1>1, Fields DEF IInv, TypeOK, HasMetadata, MayCall
  <2>2. e \in Pending
    BY <2>1 DEF Storages, Pending
  <2>3. /\ job \in Jobs /\ job.cmd = next_id /\ job.op = "Open" /\ job.wallet = w
        /\ job.handle = next_id
    BY <2>1 DEF Job, Jobs
  <2>4. e.handle = next_id /\ e.wallet = w /\ e.storage = dir[w]
    OBVIOUS
  <2>5. /\ Derive(job) /\ (serial => \A j \in jobs : j.wallet # w)
        /\ w \notin wallet_ids /\ dir[w] # None
        /\ pending_for_open' = pending_for_open \cup {e} /\ UNCHANGED pending_for_import
    BY <1>1 DEF MayCall, HasMetadata
  <2> HIDE DEF job, e
  <2>6. serial => Quiet'
    <3>1. /\ \A j \in jobs : j.op = "Open" => j.handle # next_id
          /\ \A p \in pending_for_open : p.handle # next_id
      BY Fields DEF IInv, Named
    <3>2. QED
      BY <2>3, <2>4, <2>5, <3>1 DEF IInv, Quiet, Derive
  <2>7. QED
    BY <2>1, <2>2, <2>3, <2>4, <2>5, <2>6, DeriveIInv, SMTT(30) DEF IInv, TypeOK
<1>2. QED
  BY <1>1, RefuseIInv DEF Open, MayCall

\* import_wallet_prepare keeps the invariant: the handle it reserves is new.
LEMMA ImportIInv ==
  ASSUME IInv, NEW w \in Wallets, NEW k \in Keys, NEW p \in Paths, NEW other \in Keys,
         Import(w, k, p, other)
  PROVE  IInv'
<1> DEFINE job == Job("Import", w, next_id, k, other, p)
<1>1. CASE MayCall(w) /\ Derive(job) /\ UNCHANGED pending_for_open
           /\ pending_for_import' = pending_for_import \cup {next_id}
  <2>1. /\ job.cmd = next_id /\ job.op = "Import" /\ job.wallet = w
        /\ job.handle = next_id /\ job.path = p /\ job \in Jobs
    BY <1>1 DEF MayCall, Job, Jobs
  <2>2. /\ Derive(job) /\ next_id \in Ids /\ (serial => \A j \in jobs : j.wallet # w)
        /\ UNCHANGED pending_for_open
        /\ pending_for_import' = pending_for_import \cup {next_id}
    BY <1>1, SMTT(30) DEF MayCall
  <2> HIDE DEF job
  <2>3. serial => Quiet'
    BY <2>1, <2>2, SMTT(30) DEF IInv, Quiet, Derive
  <2>4. QED
    BY <2>1, <2>2, <2>3, DeriveIInv DEF IInv, TypeOK
<1>2. QED
  BY <1>1, RefuseIInv DEF Import, MayCall
-----------------------------------------------------------------------------
\* A job that ends without touching a wallet.
LEMMA FinishIInv ==
  ASSUME IInv, NEW j \in jobs, Finish(j),
         pending_for_open' \subseteq pending_for_open,
         pending_for_import' \subseteq pending_for_import,
         \A p \in pending_for_open \ pending_for_open' : p.handle = j.handle /\ j.op = "Open",
         \A c \in pending_for_import \ pending_for_import' : c = j.cmd,
         exports' \in [Paths -> Files],
         UNCHANGED <<dir, storages, wallets, wallet_ids, next_id, crashes, serial>>
  PROVE  IInv'
<1>1. TypeOK'
  BY DEF IInv, TypeOK, Finish
<1>2. Named'
  BY DEF IInv, Named, Finish
<1>3. ListedIsOpen' /\ ImportAllOrNothing'
  BY DEF IInv, ListedIsOpen, ImportAllOrNothing
<1>4. ContinueFindsData'
  BY DEF IInv, Named, ContinueFindsData, Finish
<1>5. serial => Quiet'
  BY DEF IInv, Quiet, Finish
<1>6. QED
  BY <1>1, <1>2, <1>3, <1>4, <1>5, SMTT(30) DEF IInv

\* A job that makes a storage in the empty directory of its wallet.
LEMMA StoreIInv ==
  ASSUME IInv, NEW j \in jobs, Finish(j), j.op \in {"Create", "Import"},
         dir[j.wallet] = None, NEW key \in Keys \cup {NoKey}, NEW records \in SUBSET Records,
         NEW file \in Files, NEW failed \in BOOLEAN, Stored(j, key, records, file, failed),
         \/ /\ InDirectory(j)
            /\ serial /\ file # NoFile /\ ~failed => file.ended /\ file.records \subseteq records
         \/ CleanedUp(j),
         pending_for_import' \subseteq pending_for_import,
         \A c \in pending_for_import \ pending_for_import' : c = j.cmd,
         UNCHANGED <<wallets, wallet_ids, pending_for_open, exports, next_id, crashes, serial>>
  PROVE  IInv'
<1> DEFINE st == [key |-> key, records |-> records, made |-> file, failed |-> failed]
<1>1. /\ j.cmd \in Ids /\ j.wallet \in Wallets /\ j.cmd < next_id /\ j.cmd # None
      /\ st \in Storages /\ storages' = [storages EXCEPT ![j.cmd] = st]
  BY Fields, SMTT(30) DEF IInv, Named, Stored, Storages
<1>2. /\ st.records = records /\ st.made = file /\ st.failed = failed
  BY SMTT(30)
<1> HIDE DEF st
<1>3. \E s \in {j.cmd, None} : dir' = [dir EXCEPT ![j.wallet] = s]
  BY SMTT(30) DEF InDirectory, CleanedUp
<1>4. \A w \in Wallets : w # j.wallet => dir'[w] = dir[w] /\ dir[w] # j.cmd
  BY <1>1, <1>3, SMTT(30) DEF IInv, TypeOK, Named
<1>5. dir'[j.wallet] \in {j.cmd, None}
  BY <1>1, <1>3, SMTT(30) DEF IInv, TypeOK
<1>6. TypeOK'
  BY <1>1, <1>3, SMTT(30) DEF IInv, TypeOK, Finish
<1>7. Named'
  BY <1>1, <1>4, <1>5, Fields, SMTT(30) DEF IInv, Named, Finish
<1>8. ListedIsOpen' /\ ContinueFindsData'
  BY SMTT(30) DEF IInv, Named, ListedIsOpen, ContinueFindsData, Finish
<1>9. \A s \in Ids : s # j.cmd => storages'[s] = storages[s]
  BY <1>1, SMTT(30) DEF IInv, TypeOK
<1>10. serial => Quiet'
  <2>1. SUFFICES ASSUME serial PROVE Quiet'
    BY SMTT(30)
  <2>2. \A o \in wallets : o.wallet # j.wallet
    BY <2>1, Fields, SMTT(30) DEF IInv, Quiet
  <2>3. \A i \in jobs' : i \in jobs /\ i.wallet # j.wallet /\ i.wallet \in Wallets
    BY <2>1, Fields, SMTT(30) DEF IInv, Quiet, Finish
  <2>4. \A i \in jobs' : dir'[i.wallet] = dir[i.wallet]
           /\ (dir[i.wallet] # None => storages'[dir[i.wallet]] = storages[dir[i.wallet]])
    BY <1>4, <1>9, <2>3, Fields, SMTT(30) DEF IInv
  <2>5. \A o \in wallets : dir'[o.wallet] = dir[o.wallet]
    BY <1>4, <2>2, Fields, SMTT(30) DEF IInv
  <2>6. /\ \A i, k \in jobs' : i.wallet = k.wallet => i = k
        /\ \A i \in jobs' : i.op \in {"Open", "Delete"} => i.wallet \notin wallet_ids'
    BY <2>1, <2>3, SMTT(30) DEF IInv, Quiet
  <2>7. \A o \in wallets' : /\ o.wallet \in wallet_ids'
                            /\ dir'[o.wallet] = o.storage
                            /\ \A q \in wallets' : q.wallet = o.wallet => q = o
    BY <2>1, <2>5, SMTT(30) DEF IInv, Quiet
  <2>8. \A i \in jobs', p \in pending_for_open' : i.op = "Open" /\ p.handle = i.handle =>
           p.wallet = i.wallet /\ p.storage = dir'[i.wallet]
    BY <2>1, <2>3, <2>4, SMTT(30) DEF IInv, Quiet
  <2>9. \A i \in jobs' : i.op = "Delete" =>
           dir'[i.wallet] # None /\ i.other = storages'[dir'[i.wallet]].key
    BY <2>1, <2>3, <2>4, SMTT(30) DEF IInv, Quiet
  <2>10. QED
    BY <2>6, <2>7, <2>8, <2>9, SMTT(30) DEF Quiet
<1>11. ImportAllOrNothing'
  <2>1. SUFFICES ASSUME serial, crashes = 0, NEW w \in Wallets, dir'[w] # None,
                        storages'[dir'[w]].made # NoFile, ~storages'[dir'[w]].failed
                 PROVE  /\ storages'[dir'[w]].made.ended
                        /\ storages'[dir'[w]].made.records \subseteq storages'[dir'[w]].records
    BY SMTT(30) DEF ImportAllOrNothing
  <2>2. CASE w # j.wallet
    BY <1>4, <1>9, <2>1, <2>2, Fields, SMTT(30) DEF IInv, ImportAllOrNothing
  <2>3. CASE w = j.wallet
    <3>1. dir'[w] = j.cmd /\ storages'[j.cmd] = st
      BY <1>1, <1>5, <2>1, <2>3, SMTT(30) DEF IInv, TypeOK
    <3>2. ~CleanedUp(j)
      BY <1>1, <2>1, <2>3, SMTT(30) DEF CleanedUp, IInv, TypeOK
    <3>3. QED
      BY <1>2, <2>1, <3>1, <3>2, SMTT(30)
  <2>4. QED
    BY <2>2, <2>3, SMTT(30)
<1>12. QED
  BY <1>6, <1>7, <1>8, <1>10, <1>11, SMTT(30) DEF IInv

\* A create_storage that fails keeps the invariant: what it leaves is marked.
LEMMA CreateFailsIInv ==
  ASSUME IInv, NEW j \in jobs, Finish(j), j.op \in {"Create", "Import"},
         dir[j.wallet] = None, NEW file \in Files, CreateFails(j, file),
         pending_for_import' \subseteq pending_for_import,
         \A c \in pending_for_import \ pending_for_import' : c = j.cmd,
         UNCHANGED <<wallets, wallet_ids, pending_for_open, exports, next_id, crashes, serial>>
  PROVE  IInv'
<1>1. CASE UNCHANGED <<dir, storages>>
  BY <1>1, FinishIInv DEF IInv, TypeOK
<1>2. CASE InDirectory(j) /\ Stored(j, NoKey, {}, file, TRUE)
  <2>1. NoKey \in Keys \cup {NoKey} /\ {} \in SUBSET Records /\ TRUE \in BOOLEAN
    OBVIOUS
  <2>2. QED
    BY <1>2, <2>1, StoreIInv, Zenon
<1>3. QED
  BY <1>1, <1>2, Zenon DEF CreateFails

\* create_wallet_continue keeps the invariant, whether it creates, fails or refuses.
LEMMA CreateContinueIInv ==
  ASSUME IInv, NEW j \in jobs, CreateContinue(j)
  PROVE  IInv'
<1>1. /\ j.op = "Create" /\ Finish(j)
      /\ UNCHANGED <<wallets, wallet_ids, pending_for_open, pending_for_import, exports, next_id,
                     crashes, serial>>
  BY DEF CreateContinue
<1>2. NoFile \in Files /\ j.key \in Keys
  BY Fields, SMTT(30) DEF IInv, NoFile, Files
<1>3. CASE UNCHANGED <<dir, storages>>
  BY <1>1, <1>3, FinishIInv DEF IInv, TypeOK
<1>4. CASE dir[j.wallet] = None /\ InDirectory(j) /\ Stored(j, j.key, {}, NoFile, FALSE)
  BY <1>1, <1>2, <1>4, StoreIInv, Zenon
<1>5. CASE dir[j.wallet] = None /\ CreateFails(j, NoFile)
  BY <1>1, <1>2, <1>5, CreateFailsIInv
<1>6. QED
  BY <1>3, <1>4, <1>5, ZenonT(60) DEF CreateContinue

\* import_wallet_continue keeps the invariant, whether it creates, fills, cleans up
\* or refuses.
LEMMA ImportContinueIInv ==
  ASSUME IInv, NEW j \in jobs, ImportContinue(j)
  PROVE  IInv'
<1> DEFINE file == exports[j.path]
<1>1. /\ j.op = "Import" /\ Finish(j) /\ pending_for_import' = pending_for_import \ {j.cmd}
      /\ UNCHANGED <<wallets, wallet_ids, pending_for_open, exports, next_id, crashes, serial>>
  BY SMTT(30) DEF ImportContinue
<1>2. file \in Files /\ j.key \in Keys
  BY <1>1, Fields DEF IInv, TypeOK, Named
<1>3. file.records \in SUBSET Records
  BY <1>2, SMTT(30) DEF Files
<1> HIDE DEF file
<1>4. serial /\ dir[j.wallet] = None => j.wallet \notin wallet_ids
  BY Fields, SMTT(30) DEF IInv, ListedIsOpen, Quiet
<1>5. CASE UNCHANGED <<dir, storages>>
  BY <1>1, <1>5, FinishIInv, SMTT(30) DEF IInv, TypeOK
<1>6. CASE dir[j.wallet] = None /\ CreateFails(j, file)
  BY <1>1, <1>2, <1>6, CreateFailsIInv, SMTT(30)
<1>7. ASSUME dir[j.wallet] = None, NEW records \in SUBSET Records, NEW failed \in BOOLEAN,
             Stored(j, j.key, records, file, failed),
             \/ /\ InDirectory(j)
                /\ \/ j.wallet \in wallet_ids
                   \/ failed
                   \/ file.ended /\ records = file.records
             \/ CleanedUp(j)
      PROVE  IInv'
  <2>1. j.key \in Keys \cup {NoKey}
    BY <1>2, SMTT(30)
  <2>2. \/ InDirectory(j) /\ (serial /\ file # NoFile /\ ~failed =>
                                 file.ended /\ file.records \subseteq records)
        \/ CleanedUp(j)
    BY <1>4, <1>7, SMTT(30)
  <2>3. QED
    BY <1>1, <1>2, <1>7, <2>1, <2>2, StoreIInv
<1>8. CASE dir[j.wallet] = None /\ ImportInto(j, file)
  <2>1. {} \in SUBSET Records /\ \A some \in SUBSET file.records : some \in SUBSET Records
    BY <1>3
  <2>2. QED
    BY <1>3, <1>7, <1>8, <2>1, Zenon DEF ImportInto
<1>9. QED
  BY <1>5, <1>6, <1>8, SMTT(30) DEF ImportContinue, file

\* export_wallet keeps the invariant, however much of the file it writes.
LEMMA ExportContinueIInv ==
  ASSUME IInv, NEW j \in jobs, ExportContinue(j)
  PROVE  IInv'
<1>1. /\ j.op = "Export" /\ Finish(j)
      /\ UNCHANGED <<dir, storages, wallets, wallet_ids, pending_for_open, pending_for_import,
                     next_id, crashes, serial>>
  BY Zenon DEF ExportContinue
<1>2. exports' \in [Paths -> Files]
  <2>1. CASE UNCHANGED exports
    BY <2>1 DEF IInv, TypeOK
  <2>2. ASSUME NEW o \in wallets, NEW written \in SUBSET storages[o.storage].records,
               NEW ended \in BOOLEAN,
               exports' = [exports EXCEPT ![j.path] =
                              [key |-> j.key, records |-> written, ended |-> ended]]
        PROVE  exports' \in [Paths -> Files]
    <3>1. storages[o.storage].records \in SUBSET Records
      BY Fields, SMTT(30) DEF IInv, TypeOK, Storages
    <3>2. [key |-> j.key, records |-> written, ended |-> ended] \in Files
      BY <3>1, Fields, SMTT(30) DEF IInv, Files
    <3>3. QED
      BY <2>2, <3>2, Zenon DEF IInv, TypeOK
  <2>3. QED
    BY <2>1, <2>2, Zenon DEF ExportContinue
<1>3. QED
  BY <1>1, <1>2, FinishIInv

\* A key that cannot be derived keeps the invariant, its pending entry staying.
LEMMA DerivationFailsIInv ==
  ASSUME IInv, NEW j \in jobs, DerivationFails(j)
  PROVE  IInv'
BY FinishIInv DEF DerivationFails, IInv, TypeOK

\* delete_wallet_continue keeps the invariant: a serial application has no handle
\* on what it removes.
LEMMA DeleteContinueIInv ==
  ASSUME IInv, NEW j \in jobs, DeleteContinue(j)
  PROVE  IInv'
<1>1. /\ j.op = "Delete" /\ Finish(j) /\ j.wallet \in Wallets
      /\ UNCHANGED <<storages, wallets, wallet_ids, pending_for_open, pending_for_import, exports,
                     next_id, crashes, serial>>
  BY Fields, SMTT(30) DEF DeleteContinue, IInv
<1>2. CASE UNCHANGED dir
  BY <1>1, <1>2, FinishIInv DEF IInv, TypeOK
<1>3. CASE dir' = [dir EXCEPT ![j.wallet] = None]
  <2>1. /\ dir'[j.wallet] = None
        /\ \A w \in Wallets : w # j.wallet => dir'[w] = dir[w]
    BY <1>1, <1>3 DEF IInv, TypeOK
  <2>2. TypeOK'
    BY <1>1, <1>3, SMTT(30) DEF IInv, TypeOK, Finish
  <2>3. Named'
    BY <1>1, <2>1, Fields, SMTT(30) DEF IInv, Named, Finish
  <2>4. ListedIsOpen' /\ ContinueFindsData' /\ ImportAllOrNothing'
    BY <1>1, <2>1, SMTT(30) DEF IInv, ListedIsOpen, ContinueFindsData, ImportAllOrNothing, Finish
  <2>5. serial => Quiet'
    <3>1. SUFFICES ASSUME serial PROVE Quiet'
      BY SMTT(30)
    <3>2. \A o \in wallets : o.wallet # j.wallet /\ o.wallet \in Wallets
      BY <1>1, <3>1, Fields, SMTT(30) DEF IInv, Quiet
    <3>3. \A i \in jobs' : i \in jobs /\ i.wallet # j.wallet /\ i.wallet \in Wallets
      BY <1>1, <3>1, Fields DEF IInv, Quiet, Finish
    <3>4. QED
      BY <1>1, <2>1, <3>1, <3>2, <3>3 DEF IInv, Quiet
  <2>6. QED
    BY <1>1, <2>2, <2>3, <2>4, <2>5 DEF IInv
<1>4. QED
  BY <1>2, <1>3, SMTT(30) DEF DeleteContinue

\* open_wallet_continue keeps the invariant, the rotation of the key included.
LEMMA OpenContinueIInv ==
  ASSUME IInv, NEW j \in jobs, NEW p \in pending_for_open, OpenContinue(j, p)
  PROVE  IInv'
<1>1. /\ j.op = "Open" /\ Finish(j) /\ p.handle = j.handle
      /\ pending_for_open' = pending_for_open \ {p}
      /\ UNCHANGED <<dir, pending_for_import, exports, next_id, crashes, serial>>
  BY SMTT(30) DEF OpenContinue, Taken
<1>2. CASE UNCHANGED <<storages, wallets, wallet_ids>>
  BY <1>1, <1>2, FinishIInv, SMTT(30) DEF IInv, TypeOK
<1>3. CASE /\ storages' = [storages EXCEPT
                              ![p.storage].key = IF j.other = NoKey THEN @ ELSE j.other]
           /\ wallets' = wallets \cup {[handle |-> p.handle, wallet |-> p.wallet,
                                       storage |-> p.storage]}
           /\ wallet_ids' = wallet_ids \cup {p.wallet}
  <2> DEFINE o == [handle |-> p.handle, wallet |-> p.wallet, storage |-> p.storage]
  <2>1. /\ p.handle \in Ids /\ p.wallet \in Wallets /\ p.storage \in Ids
        /\ j.wallet \in Wallets /\ j.other \in Keys \cup {NoKey}
    BY Fields DEF IInv
  <2>2. o \in Handles /\ o.wallet = p.wallet /\ o.storage = p.storage
    BY <2>1 DEF Handles
  <2> HIDE DEF o
  <2>3. /\ storages' \in [Ids -> Storages]
        /\ \A s \in Ids : /\ storages'[s].made = storages[s].made
                           /\ storages'[s].failed = storages[s].failed
        /\ \A s \in Ids : storages'[s].records = storages[s].records
        /\ \A s \in Ids : s # p.storage => storages'[s] = storages[s]
    BY <1>3, <2>1 DEF IInv, TypeOK, Storages
  <2>4. wallets' = wallets \cup {o} /\ wallet_ids' = wallet_ids \cup {p.wallet}
    BY <1>3, SMTT(30) DEF o
  <2>5. TypeOK'
    BY <1>1, <2>1, <2>2, <2>3, <2>4 DEF IInv, TypeOK, Finish
  <2>6. Named'
    BY <1>1, SMTT(30) DEF IInv, Named, Finish
  <2>7. ListedIsOpen'
    BY <2>2, <2>4 DEF IInv, ListedIsOpen
  <2>8. ContinueFindsData'
    BY <1>1, SMTT(30) DEF IInv, Named, ContinueFindsData, Finish
  <2>9. serial => Quiet'
    <3>1. SUFFICES ASSUME serial PROVE Quiet'
      BY SMTT(30)
    <3>2. /\ p.wallet = j.wallet /\ p.storage = dir[j.wallet] /\ j.wallet \notin wallet_ids
          /\ \A q \in wallets : q.wallet # j.wallet
      BY <1>1, <3>1, SMTT(30) DEF IInv, Quiet
    <3>3. \A i \in jobs' : i \in jobs /\ i.wallet # j.wallet /\ i.wallet \in Wallets
      BY <1>1, <3>1, Fields DEF IInv, Quiet, Finish
    <3>4. ASSUME NEW i \in jobs', dir[i.wallet] # None
          PROVE  storages'[dir[i.wallet]] = storages[dir[i.wallet]]
      <4>1. dir[i.wallet] \in Ids
        BY <3>3, <3>4, Fields, SMTT(30) DEF IInv
      <4>2. dir[i.wallet] # p.storage
        BY <2>1, <3>2, <3>3, <3>4, SMTT(30) DEF IInv, Named
      <4>3. \A s \in Ids : s # p.storage => storages'[s] = storages[s]
        BY <2>3, SMTT(30)
      <4>4. QED
        BY <4>1, <4>2, <4>3, SMTT(30)
    <3>5. /\ \A i, k \in jobs' : i.wallet = k.wallet => i = k
          /\ \A i \in jobs' : i.op \in {"Open", "Delete"} => i.wallet \notin wallet_ids'
      BY <2>4, <3>1, <3>2, <3>3, SMTT(30) DEF IInv, Quiet
    <3>6. \A q \in wallets' : /\ q.wallet \in wallet_ids' /\ dir[q.wallet] = q.storage
                              /\ \A r \in wallets' : r.wallet = q.wallet => r = q
      BY <2>2, <2>4, <3>1, <3>2, SMTT(30) DEF IInv, Quiet
    <3>7. QED
      BY <1>1, <3>1, <3>3, <3>4, <3>5, <3>6 DEF IInv, Quiet
  <2>10. ImportAllOrNothing'
    <3>1. \A w \in Wallets : dir[w] # None => dir[w] \in Ids
      BY Fields, SMTT(30) DEF IInv
    <3>2. SUFFICES ASSUME serial, crashes = 0, NEW w \in Wallets, dir[w] # None,
                          storages'[dir[w]].made # NoFile, ~storages'[dir[w]].failed
                   PROVE  /\ storages'[dir[w]].made.ended
                          /\ storages'[dir[w]].made.records \subseteq storages'[dir[w]].records
      BY <1>1, SMTT(30) DEF ImportAllOrNothing
    <3>3. /\ storages'[dir[w]].made = storages[dir[w]].made
          /\ storages'[dir[w]].failed = storages[dir[w]].failed
          /\ storages'[dir[w]].records = storages[dir[w]].records
      BY <2>3, <3>1, <3>2
    <3>4. QED
      BY <3>2, <3>3, SMTT(30) DEF IInv, ImportAllOrNothing
  <2>11. QED
    BY <1>1, <2>5, <2>6, <2>7, <2>8, <2>9, <2>10, SMTT(30) DEF IInv
<1>4. QED
  BY <1>2, <1>3 DEF OpenContinue

\* Calls answered at once, and crashes.
LEMMA CloseIInv ==
  ASSUME IInv, NEW o \in wallets, Close(o)
  PROVE  IInv'
<1>1. /\ wallets' = wallets \ {o} /\ wallet_ids' = wallet_ids \ {o.wallet}
      /\ UNCHANGED <<dir, storages, pending_for_open, pending_for_import, jobs, exports,
                     next_id, crashes, serial>>
  BY SMTT(30) DEF Close, Unlisted
<1>2. TypeOK' /\ Named' /\ ContinueFindsData' /\ ImportAllOrNothing'
  BY <1>1 DEF IInv, TypeOK, Named, ContinueFindsData, ImportAllOrNothing
<1>3. ListedIsOpen'
  BY <1>1, SMTT(30) DEF IInv, ListedIsOpen
<1>4. serial => Quiet'
  BY <1>1 DEF IInv, Quiet
<1>5. QED
  BY <1>1, <1>2, <1>3, <1>4 DEF IInv

\* add_record keeps the invariant.
LEMMA AddRecordIInv ==
  ASSUME IInv, NEW o \in wallets, NEW r \in Records, AddRecord(o, r)
  PROVE  IInv'
<1>1. /\ storages' = [storages EXCEPT ![o.storage].records = @ \cup {r}]
      /\ UNCHANGED <<dir, wallets, wallet_ids, pending_for_open, pending_for_import, jobs,
                     exports, next_id, crashes, serial>>
  BY DEF AddRecord
<1>2. /\ storages' \in [Ids -> Storages]
      /\ \A s \in Ids : storages'[s].made = storages[s].made
      /\ \A s \in Ids : storages'[s].key = storages[s].key
      /\ \A s \in Ids : storages[s].records \subseteq storages'[s].records
  BY <1>1, Fields DEF IInv, TypeOK, Storages
<1>3. TypeOK' /\ Named' /\ ContinueFindsData' /\ ListedIsOpen'
  BY <1>1, <1>2 DEF IInv, TypeOK, Named, ContinueFindsData, ListedIsOpen
<1>4. serial => Quiet'
  BY <1>1, <1>2, Fields, SMTT(30) DEF IInv, Quiet
<1>5. ImportAllOrNothing'
  BY <1>1, <1>2, Fields DEF IInv, ImportAllOrNothing
<1>6. QED
  BY <1>1, <1>3, <1>4, <1>5 DEF IInv

\* The end of the process keeps what the invariant says of handles and jobs.
LEMMA RestartIInv ==
  ASSUME IInv, Restart, dir' \in [Wallets -> Ids \cup {None}], storages' \in [Ids -> Storages],
         \A w \in Wallets : dir'[w] < next_id,
         \A v, w \in Wallets : dir'[v] = dir'[w] /\ dir'[v] # None => v = w
  PROVE  IInv'
<1>1. crashes \in Nat /\ crashes' = crashes + 1 /\ crashes' \in 0 .. MaxCrashes
  BY WalletAssumption, SMTT(30) DEF IInv, TypeOK, Restart
<1>2. TypeOK'
  BY <1>1 DEF IInv, TypeOK, Restart
<1>3. wallets' = {} /\ wallet_ids' = {} /\ jobs' = {}
  BY DEF Restart
<1>4. Named' /\ ListedIsOpen' /\ ContinueFindsData'
  BY <1>3, SMTT(30) DEF Named, ListedIsOpen, ContinueFindsData, Restart
<1>5. Quiet'
  BY <1>3, SMTT(30) DEF Quiet
<1>6. ImportAllOrNothing'
  BY <1>1, SMTT(30) DEF ImportAllOrNothing
<1>7. QED
  BY <1>2, <1>4, <1>5, <1>6 DEF IInv

\* A crash between two steps keeps the invariant.
LEMMA CrashIInv ==
  ASSUME IInv, Crash
  PROVE  IInv'
BY RestartIInv, SMTT(30) DEF IInv, TypeOK, Named, Crash

\* A crash within a create or an import keeps the invariant: nothing is promised of
\* the records after a crash.
LEMMA CrashWithinIInv ==
  ASSUME IInv, NEW j \in jobs, CrashWithin(j)
  PROVE  IInv'
<1>1. /\ Restart /\ dir' = [dir EXCEPT ![j.wallet] = j.cmd]
      /\ j.cmd \in Ids /\ j.wallet \in Wallets /\ j.cmd < next_id /\ j.key \in Keys
  BY Fields, SMTT(30) DEF CrashWithin, InDirectory, IInv, Named
<1>2. /\ dir' \in [Wallets -> Ids \cup {None}] /\ dir'[j.wallet] = j.cmd
      /\ \A w \in Wallets : w # j.wallet => dir'[w] = dir[w] /\ dir[w] # j.cmd
  BY <1>1, SMTT(30) DEF IInv, TypeOK, Named
<1>3. /\ \A w \in Wallets : dir'[w] < next_id
      /\ \A v, w \in Wallets : dir'[v] = dir'[w] /\ dir'[v] # None => v = w
  BY <1>1, <1>2, SMTT(30) DEF IInv, Named
<1>4. ASSUME NEW k \in Keys \cup {NoKey}, NEW records \in SUBSET Records, NEW file \in Files,
             Stored(j, k, records, file, FALSE)
      PROVE  storages' \in [Ids -> Storages]
  BY <1>4, Zenon DEF Stored, Storages, IInv, TypeOK
<1>5. storages' \in [Ids -> Storages]
  <2>1. CASE j.op = "Create" /\ Stored(j, NoKey, {}, NoFile, FALSE)
    BY <1>4, <2>1, Zenon DEF NoFile, Files
  <2>2. ASSUME j.op = "Import"
        PROVE  exports[j.path] \in Files /\ exports[j.path].records \in SUBSET Records
    <3>1. exports[j.path] \in Files
      BY <2>2 DEF IInv, TypeOK, Named
    <3>2. QED
      BY <3>1, SMTT(30) DEF Files
  <2>3. QED
    BY <1>1, <1>4, <2>1, <2>2, Zenon DEF CrashWithin
<1>6. QED
  BY <1>1, <1>2, <1>3, <1>5, RestartIInv, SMTT(30)
-----------------------------------------------------------------------------
\* The invariant of the wallet service is inductive.
THEOREM Inductive == Spec => []IInv
<1>1. Init => IInv
  <2>1. SUFFICES ASSUME Init PROVE IInv
    BY SMTT(30)
  <2>2. NoFile \in Files /\ NoStorage \in Storages /\ OldFiles \subseteq Files
    BY WalletAssumption DEF NoFile, Files, NoStorage, Storages, Keys
  <2>3. 1 \in 1 .. MaxId + 1 /\ 0 \in 0 .. MaxCrashes
    BY WalletAssumption
  <2>4. TypeOK
    BY <2>1, <2>2, <2>3 DEF Init, TypeOK
  <2>5. Named
    BY <2>1, SMTT(30) DEF Init, Named, None
  <2>6. ListedIsOpen /\ ContinueFindsData /\ Quiet
    BY <2>1, SMTT(30) DEF Init, ListedIsOpen, ContinueFindsData, Quiet
  <2>7. ImportAllOrNothing
    BY <2>1 DEF Init, ImportAllOrNothing
  <2>8. QED
    BY <2>4, <2>5, <2>6, <2>7 DEF IInv
<1>2. ASSUME IInv, [Next]_vars
      PROVE  IInv'
  <2>1. CASE Call
    BY <1>2, <2>1, CreateIInv, DeleteIInv, OpenIInv, ExportIInv, ImportIInv DEF Call
  <2>2. ASSUME NEW j \in jobs, Continue(j)
        PROVE  IInv'
    BY <1>2, <2>2, CreateContinueIInv, DeleteContinueIInv, ExportContinueIInv,
       ImportContinueIInv, OpenContinueIInv, DerivationFailsIInv DEF Continue
  <2>3. CASE UNCHANGED vars
    <3>1. TypeOK'
      BY <1>2, <2>3, SMTT(30) DEF vars, IInv, TypeOK
    <3>2. Named' /\ ListedIsOpen' /\ ContinueFindsData'
      BY <1>2, <2>3, SMTT(30) DEF vars, IInv, Named, ListedIsOpen, ContinueFindsData
    <3>3. (serial => Quiet)' /\ ImportAllOrNothing'
      BY <1>2, <2>3 DEF vars, IInv, Quiet, ImportAllOrNothing
    <3>4. QED
      BY <3>1, <3>2, <3>3, SMTT(30) DEF IInv
  <2>4. QED
    BY <1>2, <2>1, <2>2, <2>3, CrashWithinIInv, CloseIInv, AddRecordIInv, CrashIInv, SMTT(30) DEF Next
<1>3. QED
  BY <1>1, <1>2, PTL DEF Spec

\* No interleaving of opens and closes locks a wallet up until restart.
THEOREM ListedIsOpenAlways == Spec => []ListedIsOpen
<1>1. IInv => ListedIsOpen
  BY DEF IInv
<1>2. QED
  BY Inductive, <1>1, PTL

\* Every continue step finds what its command left for it.
THEOREM ContinueFindsDataAlways == Spec => []ContinueFindsData
<1>1. IInv => ContinueFindsData
  BY SMTT(30) DEF IInv
<1>2. QED
  BY Inductive, <1>1, PTL

\* An application that waits for its answers never has a handle on a storage that
\* was replaced, nor two handles of one wallet.
THEOREM OpenIsCurrentAlways == Spec => []OpenIsCurrent
<1>1. IInv => OpenIsCurrent
  BY DEF IInv, Quiet, OpenIsCurrent
<1>2. QED
  BY Inductive, <1>1, PTL

\* For such an application a wallet made by an import holds every record of a whole
\* file, unless a storage operation of the import itself failed.
THEOREM ImportAllOrNothingAlways == Spec => []ImportAllOrNothing
<1>1. IInv => ImportAllOrNothing
  BY DEF IInv
<1>2. QED
  BY Inductive, <1>1, PTL

\* For such an application a storage is only removed with the key that opens it.
THEOREM DeleteNeedsKeyAlways == Spec => DeleteNeedsKey
<1> DEFINE Needed ==
      serial => \A w \in Wallets : dir[w] # None /\ dir'[w] = None =>
        \E j \in jobs : j.op = "Delete" /\ j.wallet = w /\ j.key = storages[dir[w]].key
<1>1. ASSUME IInv, Next
      PROVE  Needed
  <2>1. ASSUME NEW j \in jobs, NEW s, dir' = [dir EXCEPT ![j.wallet] = s],
               dir[j.wallet] = None
        PROVE  Needed
    BY <1>1, <2>1, SMTT(30) DEF IInv, TypeOK
  <2>2. ASSUME NEW j \in jobs, DeleteContinue(j)
        PROVE  Needed
    <3>1. CASE UNCHANGED dir
      BY <3>1, SMTT(30)
    <3>2. CASE Restores(j.key, j.other) /\ dir' = [dir EXCEPT ![j.wallet] = None]
      <4>1. SUFFICES ASSUME serial, NEW w \in Wallets, dir[w] # None, dir'[w] = None
                     PROVE  j.op = "Delete" /\ j.wallet = w /\ j.key = storages[dir[w]].key
        OBVIOUS
      <4>2. j.wallet = w
        BY <1>1, <3>2, <4>1, SMTT(30) DEF IInv, TypeOK
      <4>3. QED
        BY <1>1, <2>2, <3>2, <4>1, <4>2 DEF IInv, Quiet, Restores, DeleteContinue
    <3>3. QED
      BY <2>2, <3>1, <3>2, SMTT(30) DEF DeleteContinue
  <2>3. ASSUME NEW j \in jobs, Continue(j) \/ CrashWithin(j)
        PROVE  Needed
    <3>1. CASE CreateContinue(j) \/ ImportContinue(j) \/ CrashWithin(j)
      BY <2>1, <3>1, Zenon
      DEF CreateContinue, CreateFails, ImportContinue, ImportInto, CrashWithin, InDirectory,
          CleanedUp
    <3>2. CASE ExportContinue(j) \/ DerivationFails(j)
               \/ \E p \in pending_for_open : OpenContinue(j, p)
      BY <3>2, Zenon DEF ExportContinue, DerivationFails, OpenContinue
    <3>3. QED
      BY <2>2, <2>3, <3>1, <3>2, Zenon DEF Continue
  <2>4. CASE Call
    <3>1. Refuse => UNCHANGED dir
      BY DEF Refuse
    <3>2. \A job : Derive(job) => UNCHANGED dir
      BY SMTT(30) DEF Derive
    <3>3. UNCHANGED dir
      BY <2>4, <3>1, <3>2 DEF Call, Create, Delete, Open, Export, Import
    <3>4. QED
      BY <3>3
  <2>5. QED
    BY <1>1, <2>3, <2>4, Zenon DEF Next, Close, AddRecord, Crash
<1>2. ASSUME IInv, [Next]_vars
      PROVE  [Needed]_vars
  BY <1>1, <1>2
<1>3. QED
  BY <1>2, Inductive, PTL DEF Spec, DeleteNeedsKey
=============================================================================
