# TLA+ models of bgmchain

This directory holds the formal models of the parts of this repository's
snapshot (`src/`) that hold state or run concurrently:

- TLA+ modules, each modelling one component from its Go source;
- MC modules and TLC configurations that check them on small instances;
- TLAPS proofs of the main invariants, for every value of the constants.

`PROJECT.json` records the details:

- which definition models which source lines (`map`);
- every run and the mutants that show each property can fail;
- the findings and the hazards;
- the proved theorems.

## The system and how its parts interact

The snapshot contains parts of four subsystems:

| Part | Source | What it does |
|------|--------|--------------|
| PoW sealer | `consensus/bgmash/sealer.go` | `Seal` starts one miner goroutine per thread. It waits for a found block, a close of the caller's `stop` channel, or a thread-count change (`update`). Then it joins the miners with `pend.Wait` and returns or restarts. |
| Light protocol manager | `les/handler.go` | `Run` hands each new peer to `handle` through `newPeerCh` and counts it in `wg`. `handle` does the handshake, registers the peer and loops in `handleMsg`. `Stop` sends on `noMorePeers` (taken by the syncer, or on a server by a goroutine of the server's `Stop`), closes `quitSync`, closes the peer set and waits on `wg`. On a serving node, `handleMsg` admits each request against the peer's flow-control buffer (`reject`), serves it, charges `RequestProcessed` and replies. On a light client, `handleMsg` rejects every request, credits each response to the server's flow control (`GotReply`) and hands the ODR responses to the retriever, counting refusals in `p.responseErrors`. `GetBlockHeadersMsg` walks the chain in `uint64` arithmetic. |
| Genesis setup | `core/genesis.go` | At every node start, `SetupGenesisBlock` either commits the genesis (`Genesis.Commit`, ten ordered database writes) or checks the stored genesis and chain config against the one supplied, and may rewrite the config. |
| EVM context | `core/evm.go` | `GetHashFn` answers BLOCKHASH by walking parent hashes from the current header. `CanTransfer` and `Transfer` move balances. |
| Trie sync | `trie/sync_test.go` (and `spec.md`) | The state-sync scheduler hands out missing node hashes (`Missing`), takes results (`Process`) and flushes completed nodes bottom-up (`Commit`). The tests drive it in loops, with restarts. |

The LES manager is the only part where several actors interact. It has the
`Run` goroutine of each peer, `Start`'s reader loop, `handle` goroutines, the
syncer and the caller of `Stop`.

The sealer interacts with its caller, through `stop`, and with
`SetThreads`, through `update`.

Genesis setup interacts with the database across crashes and restarts.

The `bgm/config.go` and `bgm/gen_config.go` files hold default values and
generated TOML marshalling, with no state changes.

## Modules

Each module keeps the source's names. Its header comment says what is
abstracted.

- **`Sealer`** models `Seal` as a program counter (`sealPc`):
  - the fake-mode shortcut, the `lock` section, the spawn of miners, the
    three-way `select`, and the join and recursive restart;
  - the miners as `minerPc[i]`, with their search, found and discard steps
    (`MinerAbort`, `MinerFind`, `MinerDiscard`);
  - `SetThreads`, which does a non-blocking send on the unbuffered `update`
    channel;
  - the caller's `Call` and `CloseStop`.

  The nonce search is abstracted to a nondeterministic success.

- **`TrieSync`** models the scheduler as its request table, its queue, the
  `missing`/`depth`/`parents` maps, the membatch and the store. This code is
  not under `src/`, so it is modelled from `spec.md`.
  - `Missing(max)`, `Process(h)` and `Commit` are the three operations.
  - `Restart` drops the in-memory scheduler, as the tests' restarts do.
  - The trie is a finite DAG (`Child`) in which a child may be shared.

- **`LesPeers`** models the peer lifecycle of `handler.go`:
  - per peer: `Accept` (the send on `newPeerCh`), `WgAdd`, the handshake
    (`HandshakeFail` or `Register`), `Quit` and `HandlerExit`;
  - `Stop` as four steps: `StopNoMorePeers`, `StopQuit`, `StopClosePeers`
    and `StopWait`;
  - `LightSync` chooses the mode: light client, where the syncer receives
    `noMorePeers` and returns, or server. On a server, `LesServer.Stop`
    (`les/server.go`, not in this snapshot) starts a goroutine that drains
    `noMorePeers` before it calls `pm.Stop`, and Start's loop goes on
    draining `newPeerCh`. The model takes that caller as given.
  - `pm.removePeer`, which the downloader calls to drop a peer, is not
    modelled: only a handler's own exit unregisters its peer.

- **`LesHeaders`** models `GetBlockHeadersMsg`:
  - `Receive` and `FlowReject` are the `reject` checks;
  - one `Walk` step per loop iteration, in the four branches (hash or
    number, forward or reverse), in `W`-bit words (`AddW`, `SubW`, `IntOf`);
  - `Send` sends the headers collected.

  The chain has canonical blocks `0..Tip` and one side block.

- **`LesServe`** models `handleMsg` on one connection, for every message
  code except the `GetBlockHeaders` request. `Init` chooses the node's `role`
  (server or light client) and the `announceType` the handshake agreed.
  - the size check, and the error return of a status or unknown code;
  - the decode, `reject`, serve, `RequestProcessed` and reply pattern
    (`Serve`, `ServeData`, `ServeTx`; `SendTx` sends no reply);
  - the error return that drops the peer (`Drop`);
  - the buffer's recharge (`Recharge`), on a server only;
  - on a light client, every request is rejected (`reject` has no
    `fcClient`);
  - `ReceiveOdr`: the seven ODR response cases (unexpected without
    `pm.odr`, then decode and `GotReply`), then `Deliver`, the end of
    `handleMsg`. The retriever's verdict is an input. Each refusal increments
    `responseErrors`, and the one that takes it past `maxResponseErrors` is
    returned;
  - `ReceiveResponse`: `BlockHeaders` and `TxStatus`, whose delivery errors
    are only logged;
  - `Announce`: the announce-type and signature checks of `AnnounceMsg`.

  The buffer (`buf`) belongs to `les/flowcontrol`, which is not in the
  snapshot. It is abstracted to subtract-on-charge and recharge-up-to-`BufLimit`.
  The retriever, the fetcher and the downloader are not in the snapshot
  either; the model keeps only whether they accept a message.

- **`Genesis`** models the start and setup cycle across restarts:
  - `Start(a)` for each genesis argument;
  - `SetupGenesis`, the decision tree of lines 152-207, including
    `CheckCompatible`;
  - `CommitStep`, one of `Commit`'s ten writes, any of which may fail;
  - `Import`, `Shutdown` and `Crash`.

  Genesis blocks, hashes and configs are model values.

- **`GenesisStore`** is the abstract specification of genesis setup. The
  database holds at most one genesis, written once: the requested one, or
  the default. A node runs only on a stored genesis that matches its
  argument. It has four actions: `Request`, `WriteGenesis`, `Run` and `Halt`.
  `Genesis` implements it under the mapping `stored <- canon`,
  `running <- (pc = "running")` and `wanted <- arg` (`GS` and
  `ImplementsGenesisStore` in `Genesis.tla`). The refinement is proved
  (`Genesis_proofs`) but no run checks it: it says no more than
  `GenesisStable` and `RunsOnRequestedGenesis` together.

- **`Evm`** models `GetHashFn`'s ancestor walk, including its wrapping
  `Number-1`, as a recursive function over at most `2^W` steps, and
  `Transfer` guarded by `CanTransfer`. The total supply `Total(b)` is a
  recursive function defined with LET over subsets of `Account`, not a
  RECURSIVE operator, so `Evm_proofs` can extend the module.

- **`TrieStore`** is the abstract specification of what the trie sync
  promises the database. The store is a prefix-closed set of nodes: every
  stored node has all its children stored. Its one action `Write(S)` adds a
  set of nodes reachable from the root (`Reach`) and leaves the store
  prefix-closed. `TrieSync` implements it with `store` mapped to itself
  (`TS` and `ImplementsTrieStore` in `TrieSync.tla`). The refinement is
  proved (`TrieSync_proofs`) but no run checks it: on the run's DAG every
  node is reachable, so it adds nothing to `PrefixClosed`.

- **`PeerSet`** is the abstract specification of the LES manager's peer
  set. Peers `Join` only while the set is open and `Leave` at any time.
  `Close` closes the set, and `Stopped` may happen only once the set is
  closed and empty. `LesPeers` implements it under `peers <- registered`,
  `closed <- setClosed` and `stopped <- (stopPc = "stopped")` (`PS` and
  `ImplementsPeerSet` in `LesPeers.tla`). The refinement is proved
  (`LesPeers_proofs`) but no run checks it: it restates `NoPeerAfterStop`
  and the closed-set check of `Register`.

## Runs

Each run is listed in `PROJECT.json` with its properties. A passing run
finishes in well under a minute. Between them, the passing runs fire every
action and every disjunct.

| Run | Checks | Shows |
|-----|--------|-------|
| `sealer` | `JoinedWhenOutside`, `ReturnsAfterStop` | No miner goroutine runs while Seal is idle or restarting. A closed `stop` makes Seal return (under fairness). |
| `sealer_update` (violation) | `ThreadChangeTakesEffect` | A `SetThreads` made between Seal's copy of `threads` and its `select` is lost. The comment on the `update` case promises a restart. |
| `trie_sync` | `PrefixClosed`, `NoDuplicateRequest`, `MissingCounts`, `Completes` | Checked on a DAG with a shared child, in any result order, with batch sizes 0-2 and a crash. The store stays prefix-closed, no hash is requested twice, the `missing` counters are exact, and the sync completes. |
| `les_peers` | `NoPeerAfterStop`, `StopCompletes` | In light-client mode, Stop returns and leaves no registered peer. |
| `les_peers_server` | `NoPeerAfterStop`, `StopCompletes` | In server mode, where Start's loop keeps accepting peers while Stop runs, Stop returns and leaves no registered peer. |
| `les_wg_race` (violation) | `NoHandlerAfterStop` | `wg.Add` comes after the `newPeerCh` send, so `wg.Wait` can return before a handler starts. |
| `les_headers` | `HeadersAnswerQuery` | Every query whose positions fit in a word gets exactly the headers the protocol names. |
| `les_headers_panic` (violation) | `NoPanic` | A forward hash query whose `Origin+Skip+1` wraps indexes out of range, and the server panics. |
| `les_serve` | `FlowControlBound`, `ResponseErrorLimit` | On a server, a client is never charged more than what recharged plus `BufLimit`, or plus one request at its count limit when that costs more: `reject`'s cap lets an oversized request through only on a full buffer, and the overdraft refuses everything until it recharges. On a light client, the server is kept while at most `maxResponseErrors` responses were refused over the whole connection, accepted ones in between, and dropped at exactly the next refusal. |
| `genesis` | `RunsOnRequestedGenesis`, `ConfigPresentWhenRunning`, `GenesisStable` | The canonical genesis never changes, and a running node runs on the requested genesis with a stored config. This holds across restarts, failed writes and a crash inside Commit. |
| `genesis_panic` (violation) | `NoPanic` | A failed Commit returns a nil block, and `SetupGenesisBlock` calls `Hash()` on it. |
| `evm` | `GetHashIsAncestor`, `SupplyConserved` | BLOCKHASH returns the ancestor on the block's own branch. Transfers, self-transfers included, conserve the supply. |

The violations are the findings listed in `PROJECT.json`. Each one says
where the code disagrees with its comment, its contract, or the protocol.

Each module has a type invariant `TypeOK`. It is not checked by the runs;
for `Sealer`, `TrieSync`, `Genesis`, `LesPeers`, `LesServe` and `LesHeaders` it is proved instead, and `Evm_proofs` proves the balance part of it
(as part of each proof's inductive invariant).

Every property of a passing run has a mutant in `PROJECT.json`: a plausible
bug in the mapped definition that TLC then catches. Examples are a dropped
guard, a strict `>` for `>=`, and a missing config write.

### Bounds

Each instance is the smallest in which the interesting case happens:

- **Sealer:** two CPUs, thread settings -1 (mining off), 0 (all CPUs)
  and 1, and two calls. That is enough for a restart with a changed miner
  count.
- **Trie sync:** a six-node DAG with a shared child, so a child can have two
  parents and be requested through both. Batch sizes include 0 (unlimited),
  and there is one crash.
- **LES peers:** two peers, in each mode. One is mid-handshake when Stop
  runs, which is enough for every Stop and peer interleaving.
- **LES headers:** 3-bit words (`W = 3`) with `Tip = 4`. Every wrap of
  `Skip+1`, `int(Skip)` and `Origin+Skip+1` then occurs within eight values,
  which 64-bit words never allow a model checker to reach.
- **LES serve:**
  - `BufLimit = 3` and item counts 0-3;
  - a per-message limit of 2 items; a data request costs 1 + 2 per item,
    so one at its limit costs 5, more than `BufLimit`, and meets `reject`'s
    cap, while a transaction request (1 + 1 per item) costs at most
    `BufLimit`, the boundary case;
  - four messages and `maxResponseErrors = 1`, so two refusals with an
    accepted response between them reach the drop;
  - both roles and all three announce types.
- **Genesis:**
  - the mainnet default, two custom geneses and one numbered above zero;
  - two configs with a fork at block 2, and heads up to 2 (below and at the
    fork);
  - three starts and one crash, enough to crash inside Commit and then
    restart with another argument.

### Fairness

Fairness appears only where the code justifies it:

- **Sealer:** the steps of Seal, and the miners' abort on `abort`. Each is a
  goroutine blocked only on channels that the model makes ready, and Go
  schedules runnable goroutines.
- **Trie sync:** the sync loops of the tests call `Missing`, `Process` and
  `Commit` until nothing is missing.
- **LES peers:** each peer's goroutine steps and Stop's steps. On a server
  the send on `noMorePeers` completes because the server's `Stop` drains it
  in a goroutine of its own.

Nothing is assumed about the caller closing `stop` or about `SetThreads`. No
fairness is assumed of a peer sending messages.

## Proofs

TLAPS checks every proof (`tlapm`). Each proof module extends its component
module:

| Module | Theorem | Property |
|--------|---------|----------|
| `Sealer_proofs` | `TypeCorrect` | `Spec => []TypeOK` |
| `Sealer_proofs` | `JoinedWhenOutsideHolds` | `Spec => []JoinedWhenOutside` |
| `TrieSync_proofs` | `TypeCorrect` | `Spec => []TypeOK` |
| `TrieSync_proofs` | `NoDuplicateRequestHolds` | `Spec => []NoDuplicateRequest` |
| `Genesis_proofs` | `GenesisStableHolds` | `Spec => GenesisStable` (an action property) |
| `Genesis_proofs` | `RunsOnRequestedGenesisHolds` | `Spec => []RunsOnRequestedGenesis` |
| `Genesis_proofs` | `ConfigPresentHolds` | `Spec => []ConfigPresentWhenRunning` |
| `LesServe_proofs` | `TypeCorrect` | `Spec => []TypeOK` |
| `LesServe_proofs` | `FlowControlBoundHolds` | `Spec => []FlowControlBound` |
| `LesServe_proofs` | `ResponseErrorLimitHolds` | `Spec => []ResponseErrorLimit` |
| `LesPeers_proofs` | `TypeCorrect` | `Spec => []TypeOK` |
| `LesPeers_proofs` | `NoPeerAfterStopHolds` | `Spec => []NoPeerAfterStop` |
| `Genesis_proofs` | `ImplementsGenesisStoreHolds` | `Spec => ImplementsGenesisStore` (refinement) |
| `TrieSync_proofs` | `PrefixClosedHolds` | `Spec => []PrefixClosed` |
| `TrieSync_proofs` | `MissingCountsHolds` | `Spec => []MissingCounts` |
| `TrieSync_proofs` | `ImplementsTrieStoreHolds` | `Spec => ImplementsTrieStore` (refinement) |
| `Evm_proofs` | `NoNegativeBalanceHolds` | `Spec => []NoNegativeBalance` |
| `LesPeers_proofs` | `ImplementsPeerSetHolds` | `Spec => ImplementsPeerSet` (refinement) |
| `LesHeaders_proofs` | `TypeCorrect` | `Spec => []TypeOK` |
| `LesHeaders_proofs` | `HeadersAnswerQueryHolds` | `Spec => []HeadersAnswerQuery` |

Each safety theorem follows the same pattern. There is an inductive
invariant `IInv` with lemmas `IInvInit` (Init implies IInv) and `IInvStep`
(IInv and a Next step imply IInv'), then `IInv => P` and PTL. `TypeStep` is
the non-temporal type lemma that the `IInvStep` lemmas cite. TLC checked each
`IInv` as an invariant before it was proved.

- **`Sealer`:** `JoinedWhenOutside` is inductive together with `TypeOK`. A
  miner moves only from "search" or "found". While Seal is idle or about to
  lock, no miner is in either state, and Seal leaves its join states only
  after every miner has exited (lemma `MinersStayExited`).
- **`TrieSync`:** `NoDuplicateRequest` is not inductive on its own. The
  strengthening adds three facts:
  - the queue only holds pending hashes;
  - nothing emitted is queued;
  - every emitted hash stays in the request table or the store.

  `Process` queues only the fresh children of a node, which are in neither
  the table nor the store, so they were never emitted. The proof rests on
  the assumptions that `Node` is finite and that children are nodes
  (`NodeAssumption`, `ChildAssumption`). Lemma `CardNat` lets it use
  `missing` counts.
- **`Genesis`:** the invariant follows Commit's progress:
  - while committing, the canonical hash is unset until write 7 and is the
    committed genesis's hash from write 8 on;
  - from write 3 on, the genesis being committed has number 0;
  - a running node has a canonical hash.

  These facts make `GenesisStable` provable. A setup that sees a canonical
  hash never enters Commit, and Commit writes `canon` only while it is
  unset. `RunsOnRequestedGenesis` and `ConfigPresentWhenRunning` are
  conjuncts of the same invariant. The first holds because `Mismatch`
  returns an error. The second holds because `RepairConfig` writes the
  missing config before a successful return (lemma `SetupStored`).
- **`LesServe`: `FlowControlBound`.** The invariant `IInv` is
  `buf = BufLimit + recharged - charged`, `buf <= BufLimit` and `Overdraft`:
  the buffer is non-negative, or overdrawn by at most the excess over
  `BufLimit` of one request at its count limit.
  - `reject` (handler.go:341) caps the cost at `BufLimit` before comparing
    it with the buffer, and `RequestProcessed` is charged the uncapped cost.
    A request costing more than `BufLimit` is admitted only when the buffer
    is full, so it leaves `buf >= BufLimit - Cost(c, MaxCnt[c])` (lemma
    `AdmitKeeps`, with `CostMono`: a request costs no more than the same
    request at its limit).
  - An overdrawn buffer admits nothing, because a capped cost is never
    negative. A recharge only raises the buffer (`RechargeKeeps`).
  - The theorem holds for every cost table, limit and recharge pattern. The
    cost tables are set in `les/flowcontrol` and `server.go`, outside the
    snapshot; the earlier, stronger bound `charged <= BufLimit + recharged`
    holds only for tables whose admissible requests fit in `BufLimit`, and
    TLC finds it broken on the run's table.
- **`LesServe`: `ResponseErrorLimit`.** The model keeps a history variable
  `refused`, the responses the retriever refused on the connection. The
  invariant `EInv` adds `refused = responseErrors` (the count is never
  reset) and `open = (exitErr = "none")`. `responseErrors` moves only on an
  open connection, by one, and the step that takes it past the limit is the
  one that closes the connection (`DeliverKeepsLimit`).
- **`LesPeers`:** the invariant says three things:
  - `wg` equals the number of peers in "handshake" or "serving" (`Active`);
  - the peer set is exactly the serving peers;
  - the set is closed from the moment Stop waits.

  `wg.Wait` returns only when `wg = 0`, so then no peer is serving. A peer
  that finishes its handshake afterwards finds the set closed and is not
  registered. The counting uses the finite-set lemmas of
  `FiniteSetTheorems` and `PeerAssumption` (the set of peers is finite).
- **`Genesis` refines `GenesisStore`:** `Init` maps to `GS!Init`. Under
  the invariant of the safety proofs, each step maps to an abstract step or
  a stutter:
  - `Start` maps to `Request`;
  - Commit's write 7 (the canonical hash, into an unset slot) maps to
    `WriteGenesis`;
  - the step that sets `pc` to "running" maps to `Run`;
  - `Shutdown`, and a `Crash` of a running node, map to `Halt`;
  - every other step stutters.
- **`LesHeaders`: `HeadersAnswerQuery`.** The property compares each reply
  with `Answer`, which is defined by a `CHOOSE` over the reply length, so
  no recursion is involved. The strengthening `IInv` describes the loop in
  the middle of a walk whose positions fit in a word (`NoWrap(asked)`):
  - the loop's copy `q` of the query keeps its skip, amount and direction,
    and `hashMode` records whether the origin was a hash;
  - the headers collected so far are `Walked(asked, k)`, the first `k`
    targets of the query, all wanted;
  - `Position`: while the loop runs, `q` names the next target (its hash,
    or its number in number mode), or in hash mode a hash outside the chain
    when that target is not wanted;
  - at `Send` the walk has stopped at the first unwanted target or at
    `amount`.

  The four branch lemmas (`HashReverseStep`, `HashForwardStep`,
  `NumberStep`) show one iteration moves `q` to target `k+1`. The word
  arithmetic does not wrap by lemma `WalkRoom`, so `AddW`, `SubW` and
  `IntOf` are plain `+`, `-` and the identity there, and `HashForwardStep`
  also shows that the forward hash branch does not panic below a word's
  end. `AncStep` composes ancestor steps, and `AnswerIs` shows the reply
  length that `Answer` chooses is unique. The proof rests on
  `WordAssumption`, `ChainAssumption`, `HashAssumption`, `FetchAssumption`
  and `QueriesAssumption`. TLC checked `IInv` on the `les_headers` instance
  before it was proved.

  The proof is lemma `RefineStep`; the last step combines it with
  `IInvInit` and `IInvStep` by PTL.
- **`TrieSync`: `PrefixClosed` and `MissingCounts`.** Both hold under one
  inductive invariant `PInv`. It strengthens `IInv` with these facts:
  - nothing in the store is in the request table;
  - the pending, received and membatch sets are disjoint;
  - every membatch node has all its children stored;
  - a received node is a parent of each child of it that is not stored;
  - `parents` only records real parent edges.

  `MissingCounts` says each received node's `missing` counter equals the
  number of its children that are not in the store; a child waiting in the
  membatch still counts until `Commit` flushes it. `Commit` flushes
  `batch \cup Cascade`, where `Cascade` is a CHOOSEn set of received nodes
  closed under "all children flushed". The proof never computes it. Lemma
  `CascadeExists` shows that such a set exists: the intersection of all
  closed subsets of `received` is a fixed point, because `PreCascade` is
  monotone (Knaster-Tarski, without induction). `CascadeChildren` then shows
  that each node of the cascade has all its children stored or flushed with
  it, so the store stays prefix-closed. `CommitCounts` shows that the
  counters left behind stay exact. The proof rests on `NodeAssumption`,
  `ChildAssumption` and `RootAssumption`. TLC checked `PInv` on the run's
  DAG and on a four-node graph with cycles.
- **`TrieSync` refines `TrieStore`:** `RInv` is `PInv` plus "every node in
  the request table is reachable from the root". `Reach` is the least
  prefix-closed set holding the root: it is written as an intersection, so
  no induction is needed (lemma `ReachClosed`). A `Commit` maps to
  `TS!Write(batch \cup Cascade)`, and every other step leaves the store
  alone.
- **`Evm`: `NoNegativeBalance`** (proved, not checked by a run: it is
  `CanTransfer`'s comparison carried through one subtraction). The
  invariant `BInv` is "balances are integers and none is negative". `Transfer` runs only when `CanTransfer`
  holds, so the sender's balance covers the amount. Lemma
  `TransferKeepsBalances` covers a self-transfer, where the debit and the
  credit hit the same account. The proof rests on `SupplyAssumption`.
- **`LesPeers` refines `PeerSet`:** `RInv` is the `IInv` of the safety
  proof plus "once the set is closed, Stop is waiting or stopped". The
  steps map as follows:
  - `Register` on an open set maps to `Join`;
  - `HandlerExit` of a registered peer maps to `Leave`;
  - `StopClosePeers` maps to `Close`;
  - `StopWait` maps to `Stopped`, because `wg = 0` means no peer is
    registered (lemma `EmptyAtWait`);
  - every other step stutters.

The assumptions the proofs rest on are the named `ASSUME`s of the
component modules (`BoundsAssumption`, `ThreadsAssumption`,
`RootAssumption`, `CrashAssumption`, `NodeAssumption`, `ChildAssumption`,
`GenesisAssumption`, `BoundAssumption`, `CostAssumption`,
`PeerAssumption`, `SupplyAssumption`, and `LesHeaders`'s
`WordAssumption`, `ChainAssumption`, `HashAssumption`, `FetchAssumption`
and `QueriesAssumption`). They give the
constants their types, plus the facts the code fixes, such as the default
genesis having number 0 and a config. TLC evaluates them on every run.

Some results are only model-checked:

- **Liveness:** `ReturnsAfterStop`, `Completes` and `StopCompletes` need
  fairness and ENABLED, which TLAPS cannot reason about here.
- **Data-dependent results:** `GetHashIsAncestor` compares `GetHashFn`'s
  walk, a recursive function over the word's range, with `Ancestor`, another
  recursive function; proving it needs the defining equations of both for
  every input. `SupplyConserved` compares sums over all accounts: `Transfer`
  changes two entries, and relating `Total` before and after needs
  induction over the set being summed. Both kinds of proof need the
  library's induction theorems with an operator parameter, which the
  installed provers cannot instantiate.

## What is not modelled

- **The request functions of `peerConnection` (handler.go 1144-1193).**
  They only queue a request on the request distributor, which is not in the
  snapshot. The same goes for what the retriever, fetcher and downloader do
  with a delivered response. `LesServe` keeps only whether they accept it.
- **The crash between Commit's writes 7 and 9 (genesis.go:199).** TLC
  reaches a running node with no head header. What should follow is decided
  by `BlockChain.loadLastState`, outside the snapshot.
- **A `RewindTo` of 0 (genesis.go:204).** `CheckCompatible` is outside the
  snapshot. The model abstracts it to one fork height, which cannot produce
  this value.
- **`bgm/config.go`, `bgm/gen_config.go`:** configuration data and generated
  marshalling.
- **`les/odr_test.go`:** a test harness for code that is not in the
  snapshot.
- **The data side of `ToBlock`, the DPoS context initialisation and
  `NewEVMContext`'s field copies.** These are data construction. Genesis is
  marked "partly" for this reason.
- **The shared-engine delegation of `Seal` (sealer.go 43-45).** It runs the
  same code on another instance.

## Plan for later sittings

1. Prove the `TypeOK` of `Evm` in full.
2. Prove `GetHashIsAncestor` for a fixed small word width, by unfolding the
   walk step by step.
3. State and prove that the forward hash branch panics only on a query
   whose positions wrap (the lemma `HashForwardStep` already shows it does
   not panic below a word's end).
4. Compose `LesPeers` with `LesServe`, so that a `Drop` ends the peer's
   handler (`HandlerExit`).
