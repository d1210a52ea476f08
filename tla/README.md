# Specifications of the Indy SDK

Indy SDK (`src/`) is a client of Indy ledgers. Its heart is libindy
(`src/libindy/`): a C API, one command executor thread, and services for pools
of ledger nodes, wallets, DIDs and anonymous credentials. Above it is LibVCX
(`src/vcx/libvcx/`): state machines for connections, credentials and proofs,
whose messages travel through an agency. Around them are a command line client,
payment and storage plugins, a test agency and language wrappers.

This directory specifies and checks the parts in which several actors, failures
and time meet:

- libindy's **pool client**: an executor thread, one worker thread per open pool,
  connections to validator nodes of which some may be faulty, timeouts
  everywhere, a cache on disk, and the Merkle trees and state proofs that let the
  client trust one node's answer;
- libindy's **wallet service**: commands in two steps, with key derivations of
  several commands under way in between, files that can be truncated and crashes;
- **revocation registries**, from the issuer's two wallet records over deltas
  and the ledger to the cached revocation state of a prover and the verifier;
- LibVCX's **connections and exchanges** (issuance and presentation), each side
  of them an object in its own process, over an agency whose answers get lost.

## Inventory

| Part | State | Operations | Talks to |
|---|---|---|---|
| Command executor, pool and ledger commands | callback maps for open, refresh, close, submit | execute of each command and ack | PoolService; workers, through one channel of acks |
| PoolService | `open_pools`, `pending_pools`, the id sequence, `ProtocolVersion` | create, delete, open, add_open_pool, send_action, close | workers, through a command socket per pool |
| PoolSM in PoolThread | state (Initialization, GettingCatchupTarget, SyncCatchup, Active, Terminated, Closed), `request_handlers` | one transition per PoolEvent | request handlers, networker, executor |
| RequestSM | state (Start, Consensus, Single, Full, CatchupConsensus, CatchupSingle, Finish), replies, timed-out nodes | one transition per RequestEvent | networker, executor |
| ZMQNetworker, PoolConnection | connections, deadlines, resend positions, request to connection map | NetworkerEvents, `get_timeout` | nodes, PoolThread |
| catchup.rs, merkle_tree_factory | `stored.btxn`, the genesis file, a Merkle tree | create, drop_cache, dump_new_txns, counting of status votes | RequestSM, the disk |
| State proofs, Merkle tree algorithms | none | lookup in a Patricia trie, audit paths, append, consistency_proof | RequestSM, catch-up |
| Wallet commands and service (`commands/wallet.rs`, `indy-wallet`) | open wallets, ids in use, pending opens and imports, storages, export files | create, open with or without rekey, close, delete, export, import, add_record | storages, a thread pool for key derivation |
| Anonymous credentials, revocation | accumulator and bookkeeping of a registry, deltas, cached revocation states | issue, revoke, merge, publish, create and update states, prove, verify | wallet, ledger |
| LibVCX connections, issuance, presentation | one object per protocol and side, its serialised form, mailboxes | connect, update_state, send, handle a message, serialise, restore, release | libindy, an agency |
| DID, crypto, pairwise, non-secrets, ledger cache, payments, blob storage | records in wallets | one call each | wallets, ledger commands |
| CLI, libnullpay, PostgreSQL storage, wrappers | | user interface, plugins, bindings | libindy |

`PROJECT.json` lists what is hard to get right in them, each hazard at its line
with the properties that guard it.

## Modules

| Module | Models | State and actions |
|---|---|---|
| `PoolQuorum`, `RequestConfig` | `_get_f`, the nodes of a pool, its configuration | constants; at most `f` nodes are faulty |
| `RequestHandlerSpec` | what a request handler promises to PoolSM | abstract: accepted or refused, then answered exactly once, and certainly when the nodes are silent |
| `RequestConsensus` | write requests | one action per event of the Consensus state |
| `RequestSingle` | read requests | events of the Single state; `Commit` writes the entry that is read |
| `RequestFull` | action requests | events of the Full state |
| `RequestSM` | RequestSM: the three kinds of request in one handler | one action per event, each kind handling it by the action of its module; `FallSilent` |
| `StateProof` | `state_proof/mod.rs`, `state_proof/node.rs` | operators only: audit paths, trie lookup, range lookup, and reference definitions |
| `MerkleTree` | `services/ledger/merkletree` | operators only: from_vec, append, consistency_proof, and RFC 6962 as a reference |
| `Networker` | connections and deadlines, from the opening of a pool on | starting, replies, REQACKs and expiries of requests, of status rounds and of fetches; the idle poll, a clock, `FallSilent` |
| `PoolLifecycle` | executor, PoolService, PoolSM | API calls, creates and deletes that fail half-way, `ExecuteAck`, `DropExit` and `Joined` (the two halves of Drop); per worker `OnCommand` and what its handlers report |
| `Catchup` | PoolSM and RequestSM in catch-up, vote count, cache | open, refresh, close, answers of nodes, timeouts, idle polls, crashes, I/O errors |
| `WalletService` | wallet commands, wallet service, storages and export files | one action for each command's first step and one for its continue step, each with the failures of its storage calls; crashes |
| `Revocation` | issuer, ledger, prover and verifier of one registry | issuing, revoking, a stop between two writes, merging, publishing or losing a delta, presenting |
| `VcxConnection` | an inviter, its invitees and their mailboxes | create, connect, `UpdateCurrent` and `UpdatePrevious` (the two halves of update_state), a message by hand, pings and queries, save, restart, delete |
| `VcxExchange` | issuer and holder, or verifier and prover | calls of the application, `Update`, a message by hand, save, restart |
| `...Proofs` | | theorems about the module named before `Proofs` |
| `MC...` | | small instances for TLC, where a cfg file alone cannot give the constants |

How the modules rely on each other:

- `PoolLifecycle` uses request handlers as `RequestHandlerSpec` describes them,
  and `RequestSM`, hence each of the three kinds of request, is shown to implement
  it by a refinement mapping (`ImplementsHandler`: `status` is the state with the
  waiting states called Pending, `sent` is the number of SubmitAcks, `silent` is
  itself). It lets a catch-up end with any of the outcomes that `Catchup` produces.
- The armed deadlines of a request are what `Networker` keeps per connection.
  `LiveHasDeadline` is the fact the request modules rely on: a deadline set for
  a request stays armed until the handler cleans it or it expires.
- `RequestSingle` takes a verified state proof at its word, and `Catchup`
  abstracts a Merkle tree to its size and its history. What they assume of the
  algorithms is checked of their translations: `StateProofsDecide` instantiates
  `StateProof`, `ProofsDecide` instantiates `MerkleTree`. They are
  statements about all small inputs, evaluated in the states where the code uses
  the algorithm.
- `VcxExchange` runs over a connection that `VcxConnection` establishes and uses
  the same mailboxes. Its registry is only a counter; what an index is worth is
  the subject of `Revocation`.

Every module with state has a type invariant, `TypeOK`. The inductive invariants
of the proofs contain it or the part they need; the runs check what says more.

### Abstractions

- A result, a reply and a request are model values. REQNACK and REJECT carry no
  result and are one more result.
- `denied_nodes` of RequestSM stays empty: it is filled when a message cannot be
  parsed that has been parsed already.
- `RequestSingle`: the entry that is read is a growing version number, and time
  is counted in versions. A verified state proof shows that a result is the
  version of its timestamp; faulty nodes replay proofs but do not make them.
- `MerkleTree`, `StateProof`: a hash is the term that is hashed, so that different
  inputs have different hashes. RLP is left out: a node is a record. A
  nibble is a digit below 4 instead of 16. BLS multi-signatures are not modelled.
  Left out of `LookupsDecide` is a key that is not stored and is the beginning of
  a stored one: the Leaf case of `_get_node`, which also serves the lookup of
  ranges by prefix, takes it for the stored key (node.rs:220). The size of the
  ledger is a number in the reply that no signature covers; `PathsDecide` tries all
  from 1 on, since for 0 the loop of `_calculate_turns` does not end (mod.rs:613).
- `Networker`: `number_read_nodes` is the default, 2. Handlers are reduced to
  what they send to the networker and when. A deadline is the time left until it.
- `PoolLifecycle`: an API call is modelled when the executor takes it. The
  variable `use`, chosen at the start from the constant `Uses`, says which calls
  the application makes, whether its reqIds are unique, and ZeroMQ's high-water
  mark. `dirs` and `configs` are what the disk has of each pool: a create or a
  delete that fails half-way leaves a directory without its files.
- `Catchup`: a Merkle tree is its size and whether it is a prefix of the pool's
  ledger; a consistency proof holds only between such trees of one history. The
  genesis transactions are one unit. The eight bytes of a record's length are
  written at once, so a torn record always has its length. An honest node
  answers a LEDGER_STATUS with a consistency proof if its ledger is longer, else
  with its own status (code of the nodes is not part of this repository). A
  faulty node sends what the constant `FaultyVotes` holds in answer to
  LEDGER_STATUS, as often as it likes, and a CATCHUP_REP that holds any part of the
  range that was asked for, or more.
- `WalletService`: a key is the passphrase it is derived from, and a derivation
  fails for malformed input. A record is a model value; the chunks of an export
  file are its records and whether its end marker was written. `failed` marks a
  storage whose import had a failing storage call. `serial`, chosen at
  the start, says whether the application waits for the answer to a call before it
  makes another on the same wallet.
- `Revocation`: an accumulator is the exponent of each tail in the product; a
  witness is one too. The ledger takes a delta only if its `prevAccum` is the
  accumulator of the last entry (code of the nodes).
- `VcxConnection`, `VcxExchange`: a pairwise agent is a number, a message is
  what the receiver tells apart. Each call of the agency succeeds, is refused, or
  has its effect although its answer is lost. `kind`, chosen at the start, says
  whether calls fail, processes restart, or neither. What one call does under the
  lock of the object cache is one step. Left out of `VcxExchange` are branches that
  depend on what the peer's state machine never sets: `please_ack` on a credential
  and the `~service` decorator of a proof request. The wallet accepts a credential
  that was signed for the request it made (`Fits`).

## Runs

Passing runs (`pass` in `PROJECT.json`):

| Run | Instance | Distinct states | Shows |
|---|---|---|---|
| `request` | 4 nodes, 1 faulty; a write with 3 results, a read of any period with a write before or during it, an action on lists of up to 2 distinct nodes, unknown or malformed ones | 446,000 | every request gets one answer, the right one, and gets it when the nodes are silent; state proofs are decided rightly |
| `lifecycle` | 1 name, 4 ids, 2 reqIds; all calls, colliding reqIds and a socket of 2 messages, or a calm use | 372,000 | acks meet their callbacks, open handles have workers; in a calm use only what the nodes owe stays unanswered, and close returns |
| `networker` | an open with 2 requests, or an open and a refresh or restart with 1; 2 node lists of 2 nodes, 2 requests per connection, times of 1 unit | 244,000 | connections and deadlines are kept while needed; what waits ends and connections are released once the nodes are silent |
| `catchup` | 4 nodes, 1 faulty; 1 lagging, silent nodes, every kind of cache, two opens with a crash; or an open and a refresh; or timely nodes that agree and a failing write | 162,000 | no invented ledger, memory and disk agree; an open succeeds and ends |
| `catchup_refresh` | 2 nodes, open and refresh, a growing ledger; trees of up to 6 transactions | 27,600 | late answers of the first catch-up are harmless to tree and cache; the Merkle tree decides histories |
| `wallet` | 1 wallet, 2 passphrases and a malformed one, 1 record, 1 export file of any content, 4 calls that derive keys, failing storage calls, 1 crash | 3,234,000 | no interleaving locks a wallet up or loses what a continue step needs; what a serial application is promised |
| `revocation` | 2 credentials, 2 deltas at once, 4 seconds, 1 torn write | 160,000 | records, ledger entries and proofs agree |
| `vcx_connection` | 2 invitees of one invitation, 4 agents, 2 failures or restarts of the inviter | 502,000 | two sides that are Completed use each other's keys; the handshake ends |
| `vcx_exchange` | 2 threads, 3 credential requests, a registry of 2, 3 failures or restarts | 199,000 | the two sides end with the same outcome; both end |

Why the bounds are enough to meet the interesting cases. 4 nodes is the least
pool with `f = 1`, so that quorums, faulty nodes and lagging nodes all occur; 2
nodes is the least in which Resend moves on. Three sends with a limit of two
per connection fill a connection, use it with another request and make a second
one; times of one unit let connections expire before, with and after the
deadlines on them. Four ids are an open, two requests and a close, or an open, a
request, a refresh and a close. Ledgers of up to three units, the genesis being
one, make a cache shorter than, equal to and longer than what nodes have; Merkle
trees of up to six leaves have complete and incomplete right subtrees. Four
wallet calls are a create, two overlapping opens and a delete or import, the rekey
of one of the opens included. A registry of two has one credential of the holder
and one of somebody else; two deltas can be published in the wrong order or
merged; four seconds put two intervals before and after a cached state. Four
agents are one more than an inviter and two invitees need, so that a connect can
be repeated; two faults lose an answer and the retry's. Two threads and three
requests let each side retry while the other still works on the first attempt; a
registry of two fills up.

Nodes with one role and passphrases are symmetric where no liveness is checked.
Deadlock checking is off in all runs, since requests, pools and exchanges end and
the budgets of the environment run out; that things do not stop too early is what
the liveness properties say.

### Fairness

The pool thread polls for ever, and `zmq::poll` returns at the latest when the
earliest deadline expires. But a poll that has a message does not report an expiry,
and a REQACK or a resend puts a deadline off: as long as messages keep coming,
nothing forces a deadline. So no node is assumed to answer, and nothing is promised
while nodes keep sending. The nodes may fall `silent` at any time and stay so; what
must end is promised from then on:

- `RequestSM`: weak fairness of starting a request (PoolSM does both in one event),
  and of an expiry of an armed deadline while the nodes are silent.
- `Networker`: weak fairness of time passing or, while the nodes are silent, of
  reporting what is due.
- `PoolLifecycle`: weak fairness of the two threads only: the executor takes an ack,
  sends the exit command and returns from a join; a worker takes a queued command.
  A callback that still waits for nodes is one `AllAnswered` names (`NodesOwe`).
- `Catchup`: weak fairness of reporting expiries while the faulty nodes are quiet,
  and of the answers of the nodes that are `timely`, which come before the deadlines
  expire. Only `RoundSucceeds` and `CatchupEnds`
  speak of them (`Calm`: all honest nodes are timely and agree), and `CatchupEnds`
  also waits for the faulty nodes to be `quiet`.

The LibVCX state machines
move only when the application calls them: `HandshakeEnds` and `ExchangeEnds`
assume an application that keeps calling `update_state` and answers what its
object has received, and hold where no call fails. `WalletService` and
`Revocation` have no liveness properties: nothing in them waits for another actor
except for a key derivation, which always ends.

### Where the code and its documentation disagree

Three runs check a property that a doc or an assertion states and that the code
does not have; `findings` in `PROJECT.json` quotes the lines.

- `lifecycle_same_name` (`SameNameOnce`): two opens of one name that overlap both
  succeed, because `PoolService::open` does not look at `pending_pools`. The
  documentation of `indy_open_pool_ledger` calls this impossible.
- `catchup_stale_reply` (`NoPanic`): a CATCHUP_REP that an honest node sent to an
  earlier request is appended to the tree of a later catch-up, and
  `consistency_proof` runs into its assertion that the tree is not bigger than
  the target.
- `revocation_back` (`DeltaCoversGap`): when a proof is asked for an interval
  before the cached revocation state, LibVCX updates that state with the delta of
  the registry's whole life. The documentation of `indy_update_revocation_state`
  asks for the delta since the state was created.

The other properties state the conditions under which they hold. Where a condition
is one the code does not enforce, dropping it makes TLC show a counterexample:

- `AllAnswered` is about a `Calm` use. A refresh in Active drops the handlers of
  the requests in flight without an ack (pool.rs:376), and commands that arrive
  during a catch-up are ignored. A request replaces a pending one of its reqId
  (pool.rs:389, "FIXME check already exists"). If the protocol version changes
  during an open, the worker goes to Terminated without an ack (pool.rs:318, 328,
  337).
- `CloseReturns` is too: with a full socket neither exit command is sent, and the
  executor joins a worker that nobody told to stop (pool.rs:756-763).
- `ImplementsHandler` needs lists of distinct nodes: the handler of an action
  waits for as many answers as the list is long (request_handler.rs:542).
- `RequestsEnd` and `ConnectionsReleased` leave out two states. `Hiding`: a poll
  reports only what is earliest, and two things stay earliest because nobody removes
  them: the deadline of a request whose handler is gone, dropped by a refresh or left
  by a round that was decided by an answer with another id (pool.rs:376), and in a
  status round the end of an idle connection (pool.rs:580-588). `Unsent`, which
  `LiveHasDeadline` leaves out too: the id of a round is the root of the tree, and if
  a connection was closed with the id still mapped to it, a later round of that id
  is sent nowhere. In a fetch, an idle connection has the fetch sent again at every
  poll, so `ConnectionsReleased` waits for the fetch to end.
- `NoUnderflow` of `Catchup` is about trees that name nodes. A cache without any
  transaction names none, and the first idle poll, counted as a vote, makes
  `node_cnt - reps_cnt` underflow.
- `RoundSucceeds` is about the first status round of an open with a cache of
  `GoodCaches`, and allows for failures in which one node was counted for two
  different answers: with these, or with an idle poll counted, a consensus of all
  honest nodes is taken for unreachable (catchup.rs:67). With a cache of another
  history the proof made for the size of the cache is checked against the genesis
  tree, and the open fails once (catchup.rs:68-71). With a cache torn by a crash
  `create` fails before `drop_cache` is reached, and every open fails (pool.rs:620).
- `CatchupEnds` counts a worker that panicked as ended: a CATCHUP_REP with more
  transactions than the target has runs into the assertion of `consistency_proof`.
- `CacheIsTree` holds until a write fails, because transactions are written
  again after that (merkle_tree_factory.rs:131), and with `BlankLine = FALSE`,
  because an empty line of the genesis file becomes a transaction of the cache but
  not of the tree (merkle_tree_factory.rs:99, 172).
- `OpenIsCurrent`, `ImportAllOrNothing` and `DeleteNeedsKey` are promised to a
  `serial` application. The ids in use are checked when a command starts and not
  when its key is derived, so overlapping calls can give a wallet two handles,
  remove the storage of an open wallet, or leave an empty wallet of a failed
  import (indy-wallet lib.rs:169, 209, 505). A crash within an import leaves a
  wallet with some of the records, and so does a storage call of the import that
  fails: opening the new storage or reading its metadata (505, 506) is not cleaned up
  after, and the clean-up after a bad file can fail itself (518). The model has
  these failures and marks what they leave as `failed`.
- `RecordsAgree`, `EntriesAgree` and `MemberProves` hold until a process stops
  between the two writes of a registry (commands/anoncreds/issuer.rs:788, 850).
- `MemberProves` is about a holder of one credential of a registry
  (`MaxHeld = 1`), since the cached state is kept by registry (disclosed_proof.rs:186),
  and about intervals that do not end before the cached state (`AskBack = FALSE`).
- `Revocable` and `OutcomesAgree` allow for messages that were delivered though
  their sending failed (`misled`), and speak of processes that do not go back to
  an older object. `CopiesAreCaused` names the cause of each further copy of a
  credential.

Also seen: `delete` removes the directory of a pool that is being opened
(mod.rs:134 looks at `open_pools` only); a pool whose open fails stays in
`pending_pools` (mod.rs:164); two workers of one pool name append to one cache
file (merkle_tree_factory.rs:126); silent nodes make the client drop a good
cache with the warning that it is invalid (catchup.rs:106); in a pool of one node a
catch-up can be left without a deadline (networker.rs:285); the comment on
`number_read_nodes` in `api/pool.rs` says a retry goes to twice as many nodes, but
`try_to_continue` always asks two more; `revoke_credential` lets the ids 0 and
`max_cred_num + 1` pass (commands/anoncreds/issuer.rs:821).

## Theorems

Six modules hold theorems that TLAPS checks. They are about every value of the
constants; their assumptions are the named `ASSUME`s of the modules they extend
(a finite pool that is not empty, at most `f` faulty nodes, bounds that are
natural numbers), and no others unless stated here.

**`RequestConsensusProofs`** (writes): `OkIsHonest`, `ImpossibleIsTrue`,
`NoUnderflow`, `PendingHasTimer`, `AnsweredOnce`, and that a write implements the
safety part of `RequestHandlerSpec`. They are not inductive. `IInv` adds what the
handler maintains while it waits (`Waiting`): no ack was sent, no result has a
quorum, one can still get it, and every node has an armed deadline, has timed out
or has been heard. From the last two follows `PendingHasTimer`: if no deadline were
armed every node would be counted, so the replies and the timed-out nodes would be
at least `N` together, and the result with the most votes, which has at most `f`,
could not exceed `f` any more. `IInv` further says that replies of honest nodes
are their results (for `OkIsHonest`, with `QuorumHasHonest`: more than `f` nodes
include an honest one) and that after a refusal no result is reachable.
`NoUnderflow` is inductive with reachability: a step adds at most one to the numbers
that are subtracted, and before it there was more than `f` left.

**`RequestSingleProofs`** (reads, for every period a request can name): `ReadIsReal`,
`ReadIsFresh`, `PendingHasTimer`, refinement. The invariant: an honest node's reply is a version the ledger has had,
and a waiting read has a deadline. The latter rests on `ResendArms` and `ModDiffers`:
of the two nodes that `try_to_continue` asks, one is not the node whose deadline the
same step cleans; in a pool of one node a read has nothing to go on with.

**`RequestFullProofs`** (actions): `ReplyIsComplete`, `AnswerIsKept`, refinement. No
node has both an answer and an armed deadline; `EnoughIsAll`: as many
answers as were required are answers of all nodes that were asked, unless a faulty
node that nobody asked is among them.

The properties of these three are checked by the run `request` through `RequestSM`,
which puts the three modules together.

**`PoolLifecycleProofs`**: `OpenIsServed`. The invariant follows an open through the
two threads: a socket holds an exit only once the pool was dropped (`Fitting`), a
successful open ack in the channel is of a worker that has left Initialization
(`Right`), the callback of an open is kept only while its pool is pending, and a
worker is Closed only if its pool was dropped.

**`WalletServiceProofs`**: all five properties of the run `wallet`. `Named` says that
ids of commands, storages and handles are drawn once; `Quiet` is what a serial
application can rely on between the two steps of a command: the checks of the
first step still hold in the second. `ImportAllOrNothing` is proved with its
condition: no storage call of the import itself has failed.

**`RevocationProofs`**: `RecordsAgree` for every registry, also for the ids past its
ends that `revoke_credential` lets through, and `EntriesAgree` when callers pass ids
of the registry. A delta `Tells` what happened to the accumulator, and merging two
deltas that follow each other gives one that does; the ledger takes a delta only on
top of the accumulator it starts from, so each entry holds its members' tails.

Only model-checked: all liveness, the liveness part of `ImplementsHandler` included
(fairness and ENABLED are out of the prover's reach); `AckHasCallback`; `Networker`,
`Catchup`, `VcxConnection`, `VcxExchange`; `ValidInInterval` and `MemberProves`;
and the algorithms of `MerkleTree` and `StateProof`, since what a recursive
definition computes for every input cannot be proved here. Modules with theorems,
and those they use, have no recursive operators.

## Not modelled

The map covers about 6,900 lines, a twentieth of the repository, and most of the
code that has a protocol in it. The rest has no state that a model
would add to, and its size comes from a few kinds of code: language wrappers and
samples, the C APIs and the command line (conversion of arguments), request
builders, parsers and message types (formatting), tests, cryptography (signatures,
anonymous credentials, BLS, encryption of records), SQL and file I/O behind the
storage interface, plugins.

Within the modelled parts these are left out: ZeroMQ socket errors (the code
panics, networker.rs:81), `list` of pools, registered state proof parsers, inclusion
proofs of `MerkleTree` that only tests call, wallet searches and the query
language, the creation of a revocation registry (several writes,
commands/anoncreds/issuer.rs:622), LibVCX's older proprietary protocol, and the
routing of the agency. DID key rotation and the ledger object cache are commands of
one or two wallet calls. `components` in `PROJECT.json` gives the reason for each
part.
