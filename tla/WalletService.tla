--------------------------- MODULE WalletService ---------------------------
(***************************************************************************)
(* The life of wallets: the wallet commands of the executor (commands/     *)
(* wallet.rs), WalletService with its open and pending wallets             *)
(* (indy-wallet/src/lib.rs), the default storage as far as its directory   *)
(* goes (storage/default/mod.rs), and export files (export_import.rs).     *)
(*                                                                         *)
(* Commands run one at a time on the executor thread.  Those that need a   *)
(* master key are cut in two: a prepare step, a key derivation on the      *)
(* thread pool, and a continue step; derivations end in any order.  The    *)
(* derivation of two keys for one command is one delay.                    *)
(*                                                                         *)
(* A storage is named by the command that created it and is found through  *)
(* its wallet's directory; a connection keeps a removed storage alive.  A  *)
(* master key is its passphrase: the salt is stored with what it locks.    *)
(* Creating, opening, filling and removing a storage may fail; failures    *)
(* that only answer a command with an error are left out.                  *)
(***************************************************************************)
EXTENDS Naturals, FiniteSets

CONSTANTS
    Wallets,        \* wallet ids (id and storage path)
    Passphrases,    \* keys the application uses
    Malformed,      \* a raw key that is not base58 of a key
    Records,        \* records the application stores
    Paths,          \* export files
    OldFiles,       \* files exported earlier, maybe by another process
    MaxId,          \* bound on the ids drawn from indy_utils::sequence
    MaxCrashes      \* bound on crashes of the process

ASSUME WalletAssumption ==
    /\ MaxId \in Nat /\ MaxCrashes \in Nat
    /\ Malformed \notin Passphrases
    /\ OldFiles \subseteq [key : Passphrases, records : SUBSET Records, ended : BOOLEAN]

VARIABLES
    dir,                \* wallet -> storage in its directory, None for no file
    storages,           \* storage -> metadata key, record keys and records
    wallets,            \* open wallets: handle, wallet id, storage
    wallet_ids,         \* ids of open wallets
    pending_for_open,   \* opens between prepare and continue
    pending_for_import, \* handles of imports between prepare and continue
    jobs,               \* commands whose key is being derived, with their callbacks
    exports,            \* path -> export file
    next_id,
    crashes,
    serial              \* the application waits for the answer to each call on
                        \* a wallet before it makes the next one

vars == <<dir, storages, wallets, wallet_ids, pending_for_open, pending_for_import,
          jobs, exports, next_id, crashes, serial>>

None == 0
Ids == 1 .. MaxId
Keys == Passphrases \cup {Malformed}
NoKey == "no key"
NoFile == [key |-> NoKey, records |-> {}, ended |-> FALSE]

\* made: the import file the storage was made from; failed: the command that made it
\* could not create, open or remove it.  A storage without metadata has no key.
NoStorage == [key |-> NoKey, records |-> {}, made |-> NoFile, failed |-> FALSE]

\* ended: the file has its END message.
Files == [key : Keys \cup {NoKey}, records : SUBSET Records, ended : BOOLEAN]

Job(op, wallet, handle, key, other, path) ==
    [op |-> op, cmd |-> next_id, wallet |-> wallet, handle |-> handle, key |-> key,
     other |-> other, path |-> path]

NoPath == "no path"

Storages == [key : Keys \cup {NoKey}, records : SUBSET Records, made : Files,
             failed : BOOLEAN]
Handles  == [handle : Ids, wallet : Wallets, storage : Ids]
Pending  == [handle : Ids, wallet : Wallets, storage : Ids, key : Keys \cup {NoKey}]
Jobs     == [op : {"Create", "Open", "Delete", "Export", "Import"}, cmd : Ids,
             wallet : Wallets, handle : Ids \cup {None}, key : Keys,
             other : Keys \cup {NoKey}, path : Paths \cup {NoPath}]

TypeOK ==
    /\ dir \in [Wallets -> Ids \cup {None}]
    /\ storages \in [Ids -> Storages]
    /\ wallets \subseteq Handles
    /\ wallet_ids \subseteq Wallets
    /\ pending_for_open \subseteq Pending
    /\ pending_for_import \subseteq Ids
    /\ jobs \subseteq Jobs
    /\ exports \in [Paths -> Files]
    /\ next_id \in 1 .. MaxId + 1 /\ crashes \in 0 .. MaxCrashes /\ serial \in BOOLEAN

Init ==
    /\ dir = [w \in Wallets |-> None]
    /\ storages = [s \in Ids |-> NoStorage]
    /\ wallets = {} /\ wallet_ids = {}
    /\ pending_for_open = {} /\ pending_for_import = {} /\ jobs = {}
    /\ exports \in [Paths -> OldFiles \cup {NoFile}]
    /\ next_id = 1 /\ crashes = 0 /\ serial \in BOOLEAN

-----------------------------------------------------------------------------
(* The executor.                                                           *)

\* A call on wallet w may be made.
MayCall(w) == next_id \in Ids /\ (serial => \A j \in jobs : j.wallet # w)

\* The command is answered with an error at once (try_cb!).
Refuse ==
    /\ next_id' = next_id + 1
    /\ UNCHANGED <<dir, storages, wallets, wallet_ids, pending_for_open, pending_for_import,
                   jobs, exports, crashes, serial>>

\* The callback is kept and the derivation of the key is started.
Derive(job) ==
    /\ jobs' = jobs \cup {job}
    /\ next_id' = next_id + 1
    /\ UNCHANGED <<dir, storages, wallets, wallet_ids, exports, crashes, serial>>

\* The callback of job j is taken and called with the result.
Finish(j) == jobs' = jobs \ {j}

Derived(j) == j.key # Malformed /\ j.other # Malformed

\* A derivation that failed is reported; the pending entries are not removed.
DerivationFails(j) ==
    /\ j \in jobs /\ ~Derived(j)
    /\ Finish(j)
    /\ UNCHANGED <<dir, storages, wallets, wallet_ids, pending_for_open, pending_for_import,
                   exports, next_id, crashes, serial>>

-----------------------------------------------------------------------------
(* Creating and deleting.                                                  *)

Create(w, k) ==
    /\ MayCall(w)
    /\ Derive(Job("Create", w, None, k, NoKey, NoPath))
    /\ UNCHANGED <<pending_for_open, pending_for_import>>

\* The storage that job j makes.
Stored(j, key, records, file, failed) ==
    storages' = [storages EXCEPT ![j.cmd] =
                    [key |-> key, records |-> records, made |-> file, failed |-> failed]]

InDirectory(j) == dir' = [dir EXCEPT ![j.wallet] = j.cmd]

\* create_storage fails: the file is removed again, or is left without metadata.
CreateFails(j, file) ==
    \/ UNCHANGED <<dir, storages>>
    \/ InDirectory(j) /\ Stored(j, NoKey, {}, file, TRUE)

CreateContinue(j) ==
    /\ j \in jobs /\ j.op = "Create" /\ Derived(j)
    /\ Finish(j)
    /\ \/ dir[j.wallet] # None /\ UNCHANGED <<dir, storages>>
       \/ dir[j.wallet] = None /\ CreateFails(j, NoFile)
       \/ dir[j.wallet] = None /\ InDirectory(j) /\ Stored(j, j.key, {}, NoFile, FALSE)
    /\ UNCHANGED <<wallets, wallet_ids, pending_for_open, pending_for_import, exports, next_id,
                   crashes, serial>>

\* The storage has metadata, read by _open_storage_and_fetch_metadata.
HasMetadata(w) == dir[w] # None /\ storages[dir[w]].key # NoKey

\* Mutant: delete_wallet_prepare does not look at wallet_ids.
DeleteAlways(w, k) ==
    \/ /\ MayCall(w) /\ ~HasMetadata(w)
       /\ Refuse
    \/ /\ MayCall(w) /\ HasMetadata(w)
       /\ Derive(Job("Delete", w, None, k, storages[dir[w]].key, NoPath))
       /\ UNCHANGED <<pending_for_open, pending_for_import>>

\* delete_wallet_prepare: other holds the key of the metadata that was read.
Delete(w, k) ==
    \/ /\ MayCall(w) /\ (w \in wallet_ids \/ ~HasMetadata(w))
       /\ Refuse
    \/ /\ MayCall(w) /\ w \notin wallet_ids /\ HasMetadata(w)
       /\ Derive(Job("Delete", w, None, k, storages[dir[w]].key, NoPath))
       /\ UNCHANGED <<pending_for_open, pending_for_import>>

\* Mutant: the keys are not decrypted before the storage is removed.
AnyKeyRestores(key, metadata) == TRUE

\* _restore_keys: the keys in the metadata can be decrypted.
Restores(key, metadata) == key = metadata

\* delete_wallet_continue: whatever is in the directory now is removed, if it can be.
DeleteContinue(j) ==
    /\ j \in jobs /\ j.op = "Delete" /\ Derived(j)
    /\ \/ /\ ~Restores(j.key, j.other) \/ dir[j.wallet] = None
          /\ Finish(j)
          /\ UNCHANGED dir
       \/ /\ Restores(j.key, j.other) /\ dir[j.wallet] # None
          /\ dir' = [dir EXCEPT ![j.wallet] = None] \/ UNCHANGED dir
          /\ Finish(j)
    /\ UNCHANGED <<storages, wallets, wallet_ids, pending_for_open, pending_for_import, exports,
                   next_id, crashes, serial>>

-----------------------------------------------------------------------------
(* Opening and closing.                                                    *)

\* open_wallet_prepare; other is the new key of a rekey, if there is one.
Open(w, k, rekey) ==
    \/ /\ MayCall(w) /\ (w \in wallet_ids \/ ~HasMetadata(w))
       /\ Refuse
    \/ /\ MayCall(w) /\ w \notin wallet_ids /\ HasMetadata(w)
       /\ Derive(Job("Open", w, next_id, k, rekey, NoPath))
       /\ pending_for_open' = pending_for_open \cup
             {[handle |-> next_id, wallet |-> w, storage |-> dir[w], key |-> storages[dir[w]].key]}
       /\ UNCHANGED pending_for_import

\* Mutant: the pending opens of one wallet are taken together.
TakenById(p) == {q \in pending_for_open : q.wallet # p.wallet}

\* pending_for_open.remove(&wallet_handle).
Taken(p) == pending_for_open \ {p}

\* open_wallet_continue with pending entry p.
OpenContinue(j, p) ==
    /\ j \in jobs /\ j.op = "Open" /\ Derived(j)
    /\ p \in pending_for_open /\ p.handle = j.handle
    /\ pending_for_open' = Taken(p)
    /\ \/ /\ ~Restores(j.key, p.key)
          /\ Finish(j)
          /\ UNCHANGED <<storages, wallets, wallet_ids>>
       \/ /\ Restores(j.key, p.key)
          /\ storages' = [storages EXCEPT ![p.storage].key = IF j.other = NoKey THEN @ ELSE j.other]
          /\ wallets' = wallets \cup {[handle |-> p.handle, wallet |-> p.wallet, storage |-> p.storage]}
          /\ wallet_ids' = wallet_ids \cup {p.wallet}
          /\ Finish(j)
    /\ UNCHANGED <<dir, pending_for_import, exports, next_id, crashes, serial>>

\* Mutant: close_wallet forgets the id in wallet_ids.
IdStaysListed(o) == wallet_ids

Unlisted(o) == wallet_ids \ {o.wallet}

\* close_wallet of open wallet o; answered within the call.
Close(o) ==
    /\ o \in wallets /\ (serial => \A j \in jobs : j.wallet # o.wallet)
    /\ wallets' = wallets \ {o}
    /\ wallet_ids' = Unlisted(o)
    /\ UNCHANGED <<dir, storages, pending_for_open, pending_for_import, jobs, exports,
                   next_id, crashes, serial>>

\* add_record on open wallet o; it is refused for a record that exists.
AddRecord(o, r) ==
    /\ o \in wallets /\ r \notin storages[o.storage].records
    /\ storages' = [storages EXCEPT ![o.storage].records = @ \cup {r}]
    /\ UNCHANGED <<dir, wallets, wallet_ids, pending_for_open, pending_for_import, jobs,
                   exports, next_id, crashes, serial>>

-----------------------------------------------------------------------------
(* Export and import.                                                      *)

\* The handle is looked up after the derivation only.
Export(o, p, k) ==
    /\ MayCall(o.wallet) /\ o \in wallets
    /\ Derive(Job("Export", o.wallet, o.handle, k, NoKey, p))
    /\ UNCHANGED <<pending_for_open, pending_for_import>>

\* OpenOptions::create_new.
CanCreate(p) == exports[p] = NoFile

\* export_wallet; a file that cannot be written to its end stays as it is.
ExportContinue(j) ==
    /\ j \in jobs /\ j.op = "Export" /\ Derived(j)
    /\ \/ /\ (\A o \in wallets : o.handle # j.handle) \/ ~CanCreate(j.path)
          /\ Finish(j)
          /\ UNCHANGED exports
       \/ \E o \in wallets : \E written \in SUBSET storages[o.storage].records, ended \in BOOLEAN :
             /\ o.handle = j.handle /\ CanCreate(j.path)
             /\ ended => written = storages[o.storage].records
             /\ exports' = [exports EXCEPT ![j.path] =
                               [key |-> j.key, records |-> written, ended |-> ended]]
             /\ Finish(j)
    /\ UNCHANGED <<dir, storages, wallets, wallet_ids, pending_for_open, pending_for_import,
                   next_id, crashes, serial>>

\* import_wallet_prepare: key locks the new wallet, other the file.
Import(w, k, p, other) ==
    \/ /\ MayCall(w) /\ exports[p] = NoFile
       /\ Refuse
    \/ /\ MayCall(w) /\ exports[p] # NoFile
       /\ Derive(Job("Import", w, next_id, k, other, p))
       /\ pending_for_import' = pending_for_import \cup {next_id}
       /\ UNCHANGED pending_for_open

\* Mutant: a failed finish_import is not cleaned up.
LeftBehind(j) == InDirectory(j)

\* delete_wallet_continue after a failed finish_import.
CleanedUp(j) == dir' = [dir EXCEPT ![j.wallet] = None]

\* import_wallet_continue once the storage is created: check that the id is not open,
\* open it, add the records; if that fails, delete.  Only a failure of finish_import
\* (a wrong key, a truncated file, a record that is not taken) is cleaned up.
ImportInto(j, file) ==
    \/ j.wallet \in wallet_ids /\ InDirectory(j) /\ Stored(j, j.key, {}, file, FALSE)
    \* _open_storage or get_storage_metadata fails.
    \/ j.wallet \notin wallet_ids /\ InDirectory(j) /\ Stored(j, j.key, {}, file, TRUE)
    \/ /\ j.wallet \notin wallet_ids /\ Restores(j.other, file.key) /\ file.ended
       /\ InDirectory(j) /\ Stored(j, j.key, file.records, file, FALSE)
    \/ j.wallet \notin wallet_ids /\ CleanedUp(j) /\ Stored(j, j.key, {}, file, FALSE)
    \* The clean-up fails.
    \/ /\ j.wallet \notin wallet_ids /\ InDirectory(j)
       /\ \E some \in SUBSET file.records :
             /\ Restores(j.other, file.key) \/ some = {}
             /\ Stored(j, j.key, some, file, TRUE)

ImportContinue(j) ==
    /\ j \in jobs /\ j.op = "Import" /\ Derived(j)
    /\ pending_for_import' = pending_for_import \ {j.cmd}
    /\ Finish(j)
    /\ \/ dir[j.wallet] # None /\ UNCHANGED <<dir, storages>>
       \/ dir[j.wallet] = None /\ CreateFails(j, exports[j.path])
       \/ dir[j.wallet] = None /\ ImportInto(j, exports[j.path])
    /\ UNCHANGED <<wallets, wallet_ids, pending_for_open, exports, next_id, crashes, serial>>

-----------------------------------------------------------------------------
(* Crashes of the process.                                                 *)

Restart ==
    /\ crashes < MaxCrashes /\ crashes' = crashes + 1
    /\ wallets' = {} /\ wallet_ids' = {} /\ pending_for_open' = {} /\ pending_for_import' = {}
    /\ jobs' = {}
    /\ UNCHANGED <<exports, next_id, serial>>

Crash == Restart /\ UNCHANGED <<dir, storages>>

\* A crash between the database file and its metadata, or between two records of
\* an import.
CrashWithin(j) ==
    /\ j \in jobs /\ j.op \in {"Create", "Import"} /\ Derived(j) /\ dir[j.wallet] = None
    /\ Restart
    /\ InDirectory(j)
    /\ \/ j.op = "Create" /\ Stored(j, NoKey, {}, NoFile, FALSE)
       \/ j.op = "Import" /\ Stored(j, NoKey, {}, exports[j.path], FALSE)
       \/ /\ j.op = "Import"
          /\ \E some \in SUBSET exports[j.path].records :
                Stored(j, j.key, some, exports[j.path], FALSE)

-----------------------------------------------------------------------------
Call ==
    \E w \in Wallets, k \in Keys :
        \/ Create(w, k) \/ Delete(w, k)
        \/ \E rekey \in Keys \cup {NoKey} : Open(w, k, rekey)
        \/ \E p \in Paths :
              \/ \E o \in wallets : o.wallet = w /\ Export(o, p, k)
              \/ \E other \in Keys : Import(w, k, p, other)

Continue(j) ==
    \/ CreateContinue(j) \/ DeleteContinue(j) \/ ExportContinue(j) \/ ImportContinue(j)
    \/ \E p \in pending_for_open : OpenContinue(j, p)
    \/ DerivationFails(j)

Next ==
    \/ Call
    \/ \E j \in jobs : Continue(j) \/ CrashWithin(j)
    \/ \E o \in wallets : Close(o) \/ \E r \in Records : AddRecord(o, r)
    \/ Crash

Spec == Init /\ [][Next]_vars

-----------------------------------------------------------------------------
\* An id that open and delete refuse as opened belongs to a handle that can be
\* closed: no interleaving of opens and closes locks a wallet up until restart.
ListedIsOpen == \A w \in wallet_ids : \E o \in wallets : o.wallet = w

\* For an application that waits for its answers, a wallet has at most one handle,
\* and it works on the storage that the next open will find: delete, import and
\* create cannot replace the storage below it.  (The ids are checked in the
\* prepare step only; overlapping calls can get two handles, or a removed storage.)
OpenIsCurrent ==
    serial => \A o \in wallets :
        /\ dir[o.wallet] = o.storage
        /\ \A q \in wallets : q.wallet = o.wallet => q = o

\* For such an application, and without a crash, an import leaves a wallet with
\* all records of its file or no wallet at all: a wrong key, a truncated file or a
\* record that is not taken leaves nothing behind.  Only a storage that cannot be
\* created, opened or removed does.
ImportAllOrNothing ==
    serial /\ crashes = 0 =>
        \A w \in Wallets : dir[w] # None =>
            LET s == storages[dir[w]]
            IN s.made # NoFile /\ ~s.failed => s.made.ended /\ s.made.records \subseteq s.records

\* For such an application, a storage is only removed by a delete with the key
\* that opens it at that moment, also after the key was rotated.
DeleteNeedsKey ==
    [][serial => \A w \in Wallets : dir[w] # None /\ dir'[w] = None =>
          \E j \in jobs : j.op = "Delete" /\ j.wallet = w /\ j.key = storages[dir[w]].key]_vars

\* What a command left for its continue step is there when the step runs: neither
\* unwrap of pending_for_import nor "Open data not found" is ever reached, however
\* opens, imports and failed derivations interleave.
ContinueFindsData ==
    \A j \in jobs :
        /\ j.op = "Open" => \E p \in pending_for_open : p.handle = j.handle
        /\ j.op = "Import" => j.cmd \in pending_for_import
=============================================================================
