# A TLA+ specification of w3rpc

w3rpc is an RPC server that simulates Ethereum transactions ("bundles") on a
chain state it does not have: it keeps a cache of account state in memory,
updates it from the state diffs of new blocks, and fetches from an Ethereum node
what the cache lacks. This directory holds TLA+ modules of its concurrent core,
configurations for TLC, and proofs for TLAPS.

## The system

| Component | Code | State it keeps | Operations |
|---|---|---|---|
| block feed | `fetcher/rpc.go` (`StateStream`, `getLatestState`), `main.go` (`updateState`) | `blockHead`, the ticker, the unbuffered `stateChan`, `sync.Once`; the consumer's locals | poll the node for the latest block and its trace; hand both to `updateState`; commit the diff; publish the head |
| key-value store | `w3backend/kv.go` (`BadgerKV`) | an in-memory badger database: address to gob-encoded `fetcher.Account` | `ProcessState`, `UpdateAccount`, `UpdateStorage`, `UpdateContractCode`, `GetAccount`, `GetStorage`, `ContractCode` |
| state database | `w3backend/db.go` (`db`) | none of its own; a fetcher and a store | `GetAccount`, `GetStorage`, `ContractCode`, `UpdateStorage`; the rest panics |
| account fetcher | `fetcher/rpc.go` (`rpcFetcher`), w3's `w3vm.NewRPCFetcher` | a singleflight group, `headerHashes` | `Nonce`, `Balance`, `Code`, `StorageAt`, `HeaderHash` |
| backend | `w3backend/backend.go` (`W3Backend`) | `head` | `SetHead`, `BlockByNumber`, `BlockByHash`, `StateAtBlock`, `StateAndHeaderByNumberOrHash`, `HeaderByHash`, `GetHeader` |
| bundle API | `bundleapi/api.go` | none between calls | `CallBundle`, `EstimateGasBundle` |
| transaction arguments | `bundleapi/transaction_args.go` | none | `ToMessage`, `toTransaction` |
| engine stub, JSON types, wiring | `backend.go`, `fetcher/util.go`, `fetcher/streaming.go`, `main.go` | none | - |

How they interact:

- One goroutine polls every six seconds and sends each new block with its diff
  over a channel; another (`updateState`) receives it, calls
  `BadgerKV.ProcessState` and then `W3Backend.SetHead`.
- Each RPC call runs in its own goroutine. It asks the backend for a block and a
  `state.StateDB`. For a block below the head (or while there is no head) the
  StateDB gets a store and a fetcher of its own, pinned to that block; for the
  head and anything above it gets the store that `updateState` writes to, with a
  fetcher that asks for the latest state.
- A read that misses the store is fetched from the node and written back, with
  errors of the write ignored.

What is hard here, and what makes each part correct:

| Part | Hard behaviour | Correct means |
|---|---|---|
| feed | calls that fail between two steps, `blockHead` advanced before delivery, blocks skipped, reorganisations between the two calls of a poll, commits that fail after which the head is published all the same | no counted block is lost, the head never goes back, store and head stay in step, the feed catches up |
| store | concurrent read-modify-write of whole entries, conflicts, ignored errors, zeros lost in encoding | the operations are atomic; only a fill forgets |
| state database, backend | fetch-then-write races, three fetches for one account, the head moving between tests of it, the store moving under a request | an old block is answered exactly; no value is made up; a committed block heals what it touched |
| account fetcher | callers joined to somebody else's call, errors shared, a hash cache that is never invalidated | answers for a key never go back in time, one hash per number, nobody is left waiting |
| backend's lookups | a state chosen by number for a block found by hash, fetched while the node reorganises; BLOCKHASH for a block whose number is not its parent's plus one, walked through headers that are looked up by hash | state and header are of one block as long as it is on the chain, BLOCKHASH names blocks of the header's own branch only, its walk ends |
| transaction arguments | two readings of one set of optional fields, dynamic and legacy fees, blocks with and without a base fee, a gas cap | both readings ask for the same execution, no message pays more than its cap |
| bundle API | deadline looked at between transactions, accounting from balances read at several moments, panics on the way, a store shared with other simulations | figures add up and mean what they say, at most one transaction after the deadline, simulations do not see each other |

`PROJECT.json` lists the hazards one by one with their lines.

## Modules

| Module | Models | State and actions |
|---|---|---|
| `Feed` | what the backend may expect of the feed: a pipeline of two places | abstract: `Count`, `Hand`, `Commit`, `Publish` |
| `StateStream` | the feed, one action per call to the node and per step of `updateState`; implements `Feed` | `poller` and `consumer` are the two goroutines' program counters and locals; `tick`, `started`, `blockHead` are the fetcher's fields; `kvAt` is the block last committed, `head` the published one; `crashed` is set by the panic on a failed trace; `height`, `chain` are the node's chain, `kept` whether the block polled last never left it (a history variable) |
| `Account` | entries of the store, `mergeAccount`, the gob round trip, and the node's `prestateTracer` | operators only |
| `KVOperations` | what each writing operation of `BadgerKV` reads, writes and makes of an entry | operators only |
| `AtomicKV` | what callers may expect of the store | abstract: `Start`, `Apply`, `Drop` |
| `BadgerKV` | the store as badger transactions; implements `AtomicKV` | `store`; `txn[c]` is goroutine c's transaction: operation, snapshot, keys committed by others since. `Begin`, `Discard` (the closure returned an error), `Refuse` (ErrConflict), `Commit` |
| `LiveDb` | the composition: chain contents, `Feed`'s actions with what they commit, backend, db, stores | `kv[Live]` is the shared store, `kv[r]` that of a request on an older block; `req[r]` is a request's control state, block, database, the write it is about to make (`op`) and what its StateDB has read (`seen`) |
| `Headers` | the backend's lookups by hash, by number and of the latest block, the state served for the block found, and core's walk for BLOCKHASH | `known`, `tip` are the node's blocks; `req[r]` has the block found, the number simulated, the hash cache of core's `GetHashFn`, the last answer and the last state read. `Lookup`, `Read`, `BlockHash`, `Walk`, `WalkPanics`, `NextTransaction`, `Finish` |
| `Fetcher` | the fetcher and its singleflight group | `flight[k]` is the group's call for a key (account, slot, block number), with the answers it has so far; `caller[c]` what goroutine c asked and was answered. `Start`/`Join` enter the group, `FetchState`, `FetchHeader`, `CacheHit`, `CacheMiss`, `CacheHeader`, `FetchFails` are the steps of the function it runs, `Land` ends it, `Return` gives a caller its answer |
| `Bundle` | the bundle API | `store` are the contract's slots in the shared store; `call[c]` holds a call's arguments, header, StateDB, accumulators and results. `Arrive`, `StateFails`, `GetState`, `CopyState`, then per transaction `CheckContext`, `Apply` (or `ApplyFails`, `HeaderFails`), `IntermediateRoot` before Byzantium, `Account` (or `TipFails`), and `Finish`; `Expire` is the deadline |
| `TransactionArgs` | `ToMessage` and `toTransaction` over which fields are given | `args` in hand, and what each of the two made of them |
| `MCStateStream`, `MCBadgerKV`, `MCLiveDb`, `MCHeaders`, `MCFetcher`, `MCBundle`, `MCTransactionArgs` | instances for TLC | - |
| `StateStreamProofs`, `BadgerKVProofs`, `AccountProofs`, `LiveDbProofs`, `HeadersProofs`, `FetcherProofs`, `BundleProofs`, `TransactionArgsProofs` | proofs for TLAPS | - |

How they compose: `StateStream` implements `Feed`, and `LiveDb` takes its feed
from `Feed`; `BadgerKV` implements `AtomicKV`, and `LiveDb` uses the operations of
`KVOperations` as single steps. A fetch in `LiveDb` is answered with the state of
its moment; `Fetcher` shows what joining other callers' fetches adds: an answer
may be as old as the start of the call that was joined, but not older than one
already returned, and the three fetches for an account stay in order. `LiveDb`
has a chain without reorganisations and lookups step by step, `Headers` a chain
that reorganises and lookups as single steps. `Bundle` uses the shared store with
the chain at rest. Definitions named "Mutant" in their comment are altered
versions of the code; no specification uses them, and replacing the original by
them makes the property they are listed with fail.

### Correspondence, where it is not one to one

- *The node in `StateStream`.* A hash is the path to its block from the genesis, so
  that equal hashes mean equal histories, and the node's chain is one of the paths in
  `Chains`. `MoveTip` takes it from any of them to any other: it extends its chain,
  changes branch, returns to a branch it left, or answers, as one node of several
  may, with an older block than before. The two calls of a poll are answered
  independently. `getLatestState` does not compare them, so after a reorganisation in
  between the diff may be that of another block of the number, older or newer, and
  nothing notices it; what the code does guarantee is `DiffOfItsBlock`.
- *Chain values.* In `LiveDb` block n writes the value n+1 (its own number plus
  one) and the initial accounts hold 1, so that a value tells which block wrote
  it, and 0 is zero. A block touches an account in at most one transaction;
  several are what the patches of `BadgerKV`'s blocks are.
- *The feed in `LiveDb`.* `Poll` counts any block from 1 to the chain's height that
  is above `blockHead`: the poll may have found it some time ago, or the node may
  lag. Blocks in between are skipped, as in the code.
- *Entries.* A nil pointer of `fetcher.Account` and an absent key of its map are
  `Nil`, a key the store does not have is `Missing`.
- *Encoding.* `Encoded` is encode then decode: gob omits a zero behind `*uint64`
  and an empty `[]byte`, and these come back as nil; `*big.Int` (which encodes
  itself) and map elements keep zero.
- *Maps.* `ProcessState` ranges over Go maps in no fixed order. Its loop body
  looks at one account only, so an operation carries a sequence of patches for
  each account and the order between accounts is left out.
- *ErrTxnTooBig.* `Surviving` leaves any subset of a block's patches out and keeps
  the others in their order. `BigBlocks` are the blocks this may happen to; with
  none, every block fits in a transaction.
- *What transactions do* is a choice of `Effects` for each account touched: balance,
  nonce and balance, creation, a slot set or cleared, destruction, and a contract
  that creates and pays another (`spawn`), whose nonce moves while its code stays.
- *StateDB.* go-ethereum's StateDB reads each account and slot at most once;
  `seen` is that cache. Storage and code are read of accounts that have code. An
  error is not cached: after a failed fetch the StateDB goes on with an empty account
  or slot if it makes an object of the account or writes the slot, and otherwise asks
  again; `FetchFails` has both.
- *ContractCode* fetches on a miss, but it is called only for an account whose
  code hash has been read, whose entry is then in the store (part of `TypeOK` in
  `LiveDb`); so the fetch has no action.
- *The tracer and badger* are external and modelled from how the code uses them:
  go-ethereum's diff mode (Pre has the whole account and the non-empty slots that
  change, Post what changed to something non-zero, a created account has no Pre,
  a destroyed one no Post), and badger's conflict rule (a read key committed by
  another transaction since the snapshot).
- *The group.* A flight exists from `Do` of its first caller to the end of its
  function; all who joined are answered in that step, and each returns later on
  its own. States are named by how often the chain has changed, hashes by when
  their block was made.
- *core.ApplyMessage* is external: `Applicable` and `BalancesAfter` have what the
  accounting depends on (who pays what, which fork rules decide). What else core
  refuses, a wrong nonce, too little intrinsic gas or a bad signature, ends the call
  as `ApplyFails` does and is not told apart. A transaction
  that calls the contract adds one to a slot, so that its result depends on what
  was read.
- *Hashes.* In `Headers` a hash is the sequence of blocks from the genesis to its
  block, so that equal hashes mean equal histories; the parent of the genesis is
  the empty sequence, the zero hash. BLOCKHASH in a simulated block with a negative
  number ("latest", "pending") is left out: the opcode compares unsigned numbers.
- *Messages.* In `TransactionArgs` a message has all its fields but the `From`, which
  both readings take over. `ToMessage` sets `SkipAccountChecks` and leaves the nonce
  zero; core's message of a transaction has its nonce and no such flag. `SameMessage`
  therefore compares what is executed (`Execution`), up to the gas cap, and states the
  other two differences as they are meant: a message that simulates is not tied to the
  account's nonce. Neither reading is reached by a call at this commit.
- *The header cache.* `rpcFetcher.HeaderHash` is part of the fetcher's interface, but
  nothing in the repository calls it yet; `HashAgreed` says what a caller would get.
- *Optional fields.* A field of `TransactionArgs` that is not given is `Nil`;
  payloads and lists are numbers. `args`, `message` and `tx` are sets of at most
  one element, empty for none.
- *The deadline.* `Expire` is the end of the call's context: its timeout passes, or
  the caller goes away.
- *A panic* inside a call is recovered by the RPC server and ends the call with an
  error (`Crash`). StateDB.IntermediateRoot always ends so: it calls `db.Hash`,
  `db.DeleteStorage` or `db.UpdateAccount`, none of which is implemented, after
  `db.UpdateStorage`, which is.
- *b.head* is written and read without a lock. Pointer reads and writes are taken
  as atomic; `BlockByNumber`'s test and its return are separate steps. The two
  reads in `StateAtBlock` are one step: the head only goes from nil to ever
  higher blocks, so a second, later read gives an outcome that some later single
  read would give too.

## Runs

| Run | Configuration | Question |
|---|---|---|
| `stream` | `StateStream.cfg`: `FairSpec`, heights to 3, seven blocks on three branches among which the node moves freely, failing traces | `TypeOK`, `NothingLost`, `HeadMatchesState`, `HeadOnlyAdvances` whatever the node does; `DiffOfItsBlock`: block and trace of an update have one number, and are of one block if it stayed on the chain; `IsPipeline`: refinement of `Feed`; `HeadCatchesUp` |
| `kv` | `BadgerKV.cfg`: two goroutines, two accounts, one slot, five operations, among them a block any part of which may be refused | `TypeOK`, `Atomicity` (refinement of `AtomicKV`), `LostOnlyToFill` |
| `live_db` | `LiveDb.cfg`: three blocks, one request, all kinds of change but `spawn`, failures, blocks stored in part | `TypeOK`, `PinnedExact`, `BlockNotOlder`, `StoreHonest`, `BlockWritesFresh` |
| `live_db_two` | `LiveDbTwo.cfg`: two blocks, stored whole, two requests (symmetric), no failing fetches | `NothingInvented` |
| `live_db_part` | `LiveDbPart.cfg`: two blocks, `spawn` only, stored in part | violates `NothingInvented` |
| `live_db_torn` | `LiveDbTorn.cfg` | violates `ReadsOneBlock` |
| `headers` | `Headers.cfg`: five blocks on two branches, a window of three, numbers to five | `TypeOK`, `HashExact`, `HashOfLineage`, `WalkEnds`, `StateOfHeader` |
| `args` | `TransactionArgs.cfg`: every combination of fields, with and without base fee and gas cap | `TypeOK`, `SameMessage`, `PricePaid` |
| `fetcher` | `Fetcher.cfg`: `FairSpec`, two callers, an account, a slot, a number | `TypeOK`, `NeverBack`, `HashAgreed`, `EveryCallReturns` |
| `bundle` | `Bundle.cfg`: bundles of up to three of six transactions, blocks on both sides of both forks, base fees given or not, two coinbases | `TypeOK`, `TotalsAddUp`, `EthSentExact`, `DeadlineHonoured` |
| `bundle_two` | `BundleTwo.cfg`: two calls, blocks from Byzantium on | `ReadsBlockState` |
| `bundle_old` | `BundleOld.cfg`: the same with older and negative block numbers | violates `ReadsBlockState` |

*Bounds.* In `StateStream`, three heights and three branches, two of which share their
first block, let a block be skipped between polls, a block at or below `blockHead` be
replaced, one be replaced between the two calls of a poll, by an older or a newer one,
and return while its update is on the way; two candidate pollers suffice to see what
`sync.Once` prevents. In `BadgerKV` a conflict needs two transactions over one
account; the second account shows that only read keys conflict and that a block
is committed as a whole. In `LiveDb` three blocks are the least in which a fill
can be older or newer than the block being committed while one is skipped; one
account with one slot already holds two cells that can be of different blocks,
and a second request matters only for fills of the shared store; the blocks that
may be stored in part are those whose Post map sets a balance of the account;
`spawn` doubles the states of `live_db`, whose properties are proved for it, and is
left to `live_db_two`. In `Headers` five
blocks make two branches of different lengths with ancestors in and out of the
window; requests do not touch each other, so one is enough, and labels of blocks
are interchangeable. In `TransactionArgs` three amounts and base fees between them
give every order of tip, cap and base fee. In `Fetcher` two
callers can share a flight, or one can start the next flight for a key while the
answer of the last one is still on its way to the other; what three could do to
the safety properties is settled by the proofs. Two changes of the chain give the
three parts of an account different states. In `Bundle` three transactions have a first, a
middle and a last one; `MaxStored` bounds the slot values that simulations leave
behind (a commit that fails looks the same), and of the block numbers only the
side of each fork matters.
`stream` does not check for deadlock: the process dies of the panic in
`ProcessState`.

*Fairness* (`stream`). Weak fairness on the ticker, on delivery and on the
steps of `updateState`: both goroutines are never blocked elsewhere and Go
schedules them; which way `ProcessState` ends (commit, error, panic) is left open.
Weak fairness on "the trace call answers or fails", as an RPC call
returns. Strong fairness on a successful poll and a successful trace: a node that
is asked again and again answers at some time. Nothing is assumed of commits:
`HeadCatchesUp` holds through commits that fail, because the head is published
all the same. A failed trace of a single transaction ends the process; the
property is that unless this happens the head reaches any height at which the node
stays for good, on whichever branch. No fairness is assumed of the node's moves.

*Fairness* (`fetcher`). Weak fairness on the steps of each flight and on the
return of each caller: these goroutines run, and a call to the node comes back
with an answer or an error. The HTTP client has no timeout of its own; a node
that never answers blocks all callers of the key, and the property assumes it
away.

*What `headers` shows.* Nothing makes the number that `CallBundle` simulates follow
the number of the block it stands on. If it does, BLOCKHASH is exact and its walk
stops at the block asked for (`HashExact`, `WalkEnds`). If it does not, core takes
the parent's hash for the hash of "number minus one", so the answer may be a wrong
block, but always the block found or an ancestor of it (`HashOfLineage`). A pinned state is
fetched by number although the header may have been found by hash: the two agree
until the block leaves the chain (`StateOfHeader`).

*The violations.* (1) The comment of `CallBundle` (`bundleapi/api.go:126-127`) says a
bundle is simulated "with the state of another (or the same) block". For requests
at or above the head there is no such block: the shared store holds entries of
different blocks. In TLC's trace a request is answered with an account and a slot
that no block has together; blocks skipped by the poll are enough for it, and so
are commits and fills between the request's reads. What does hold is stated by
the passing properties: such answers are old but not made up (`NothingInvented`),
and each block that is committed whole brings the accounts it touches up to date
(`BlockWritesFresh`): nonce and code unless they are zero after it, the slots it set,
the balance if the account was there before and is there after it. (2) `bundle_old`: for a block number before Byzantium, and
for "latest" and "pending", which are negative and compare as older than every
fork, each transaction's receipt needs the intermediate root, whose computation
writes the simulated slots into the shared store; a later call is then not
simulated on the state of any block. (3) `live_db_part`: `ProcessState`
ignores the errors of `txUpdateAccount`, so a block too big for one badger transaction
is stored in part. Then even a made-up value is possible: if the store did not have
a contract, its Pre entry is refused and its Post entry, which leaves the unchanged
code out, is not, `GetAccount` answers the contract as an account without code. A
nonce in Post without its code is needed for it, and so a contract that creates
another. Nothing untrue is written even so (`StoreHonest`); what is missing is read as
empty.

One disagreement needs no run: "Copy the original db so we don't modify it"
(`bundleapi/api.go:359`) is not possible with this db, whose `CopyTrie` panics, so
`EstimateGasBundle` never returns an estimate (`CopyState` in `Bundle`); the code
after the copy, and `ToMessage` with it, is never reached.

## Proofs

*The feed* (`StateStreamProofs`), for any set of pollers, any heights, any
branches among which the node moves, with and without failed traces, from the assumptions on the constants
in `StateStream`: `TypeCorrect`, `NoUpdateLost`, `StoreFollowsHead`, `HeadAdvances`,
`DiffFitsBlock` and `StreamIsPipeline`. The properties are not inductive: that the
head only advances depends on the update being processed being above it, that on
the update waiting to be sent being above both, and that on the test against
`blockHead`, which is sound only because one goroutine polls and because the block
numbers of a diff and its block agree. `IInv` collects these: `OnePoller`,
`PollAhead`, `SameNumber`, `CommittedBelow`, with `TypeOK`, `NothingLost` and
`HeadMatchesState`. One lemma per action, then the temporal step. `DiffFitsBlock`
rests on a second invariant, `KeptIsOwn`: as long as `kept` holds, a block that
awaits its trace is on the node's chain, and the update being sent has its own diff;
for a hash is a path, and so the chain's block at that number is the block itself.
`StreamIsPipeline` is the refinement of `Feed`, step by step under `IInv`: a
delivery is `Hand`, a successful trace `Count`, and ticks, failed calls and the
panic are stutters.

*Entries* (`AccountProofs`), for all values: `PatchForgetsNothing`, and
`TransactionHeals`, the reason why `ProcessState` merges the Pre map before the
Post map: however stale an entry is, the trace of one transaction on the account
makes balance, nonce and code current, and the slots it set. `ProcessState` folds
any number of patches into an entry, and so its proofs are by induction on that
number: `NaturalInduction`, for a set of numbers, follows from the library's
theorem that `<` is well-founded (its own induction theorems take an operator, which
the provers cannot instantiate). `PatchesPreserve` then says that what each patch
preserves, all of them do; that entries stay entries (`NewEntryType`) and known
values stay known (`NewEntryKeeps`) are instances. `SurvivingType`: a block of
which a part is refused is still a block.

*The store* (`BadgerKVProofs`), for any accounts, slots, goroutines and operations,
with or without refused writes. `StoreIsAtomic`: `BadgerKV` implements `AtomicKV`.
Invariant `SnapshotValid`: a key outside a transaction's `stale` set still has the
snapshot's entry. A commit that passes the conflict check therefore computes from
current entries (`CommitIsCurrent`), and `UpdateAccount`, which has no check to pass,
computes from none. `StoreTyped` is the type invariant, inductive once it covers the
snapshots and what part of an operation a transaction carries; `OnlyFillsForget` is
the action property, from both.

*The state database* (`LiveDbProofs`), for any requests, accounts, slots, chain and
changes, with failing calls and commits. `PinnedStateExact` and `NoEarlierBlock` rest
on a first invariant with a part for each hazard: the head only goes up to blocks that
exist (`FeedOK`), which keeps the block chosen above the one asked for while the
head moves (`BlockOK`); a request has read nothing, and has an empty store, until
it is given one (`FreshOK`); and for a pinned request the write in flight, the
store and what has been read are all of its block's state (`OpOK`, `StoreOK`,
`SeenOK`). The last includes that an account with code is in the store, which is why
`ContractCode` needs no fetch. The chain up to `height` never changes, and the feed
and all other requests write elsewhere (`OthersKept`). The gob encoding is in the
argument: a stored zero nonce comes back as nil, is fetched again, and is the
same.

*The shared store* (the second part of `LiveDbProofs`). For requests on the live
store `BackendTyped`, `SharedStoreHonest` and `ReadsHonest` rest on `HInv`: every field
of every entry, of what a request has read and of the write it is about to make was
the account's at some block (`HonestStore`, `HonestRequest`). What has to be said
beyond the properties: the fetches of an account answer one by one, so a write in
flight is honest only in the fields fetched so far (`HonestOp`); and a code that is
missing is answered as no code, so an entry with a nonce must have its code, unless
the account had none at some block (`Honest`, `HasCode`). Single patches do not
keep that: Post has the nonce of a contract and not its code. All patches of a
transaction together do, because Pre comes first and has the whole account, and an
account that is not in Pre was just made (`TraceHonest`, `WholeHonest`,
`PatchedKeepsCode`); one destroyed is in Pre only (`DestroyHonest`). This is what
breaks when a block is stored in part, so `ReadsHonest` has the assumption that every
block fits, `BigBlocks = {}`, which `live_db_part` shows to be needed; the other
theorems have no such assumption, and for them `Codes` counts "no code" among the
answers when blocks may be stored in part (`PastPatchesHonest`, `SurvivingHonest`).
Honesty survives later blocks (`HonestGrows`), merging, encoding and any number of
patches (`NewEntryHonest`). The invariant was model-checked on the instance of
`live_db_two`, and with blocks stored in part on a smaller one of `live_db`, with
`spawn`. `CommitsFresh` is the
action property `BlockWritesFresh`: the patches of a block, applied in order to
any entry, write the block's values (`TracePatchesWrite`).

*The lookups* (`HeadersProofs`), for any branching, any window and any number of
requests: `TypeCorrect`, `NextBlockHashes`, `HashesOfOneBranch`, `WalksEnd` and
`StateFitsHeader`. `IInv` says that the node has the ancestors of what it has
(`Closed`), that core's hash cache is the lineage of the request's block, hash by
hash (`CacheIsLineage`), that a walk has not passed the block it asks for
(`WalkAhead`), and that a pinned read is of the block unless that has left the chain
(`PinnedRead`).

*The fetcher* (`FetcherProofs`), for any callers, keys and chains: `TypeCorrect`
(no lost wake-up among other things), `AnswersAdvance` and `OneHashPerNumber`. The
invariant `FlightsAhead` says that what a flight has been answered is at least as
new as anything returned for its key, on its way to a caller, or returned when
one of those who wait asked; it holds because two flights for one key never
overlap. `HashesCached` says that a hash is fetched only while none is cached:
the cache is looked at inside the group.

*The bundle API* (`BundleProofs`), for any calls, fees and forks and bundles of any
length: `DeadlineKept`; `SimulationsApart`, under the assumption that all blocks asked
for are from Byzantium on, which `bundle_old` shows to be needed; and `SentIsExact`.
The last rests on `PaymentExact`: the balance a transaction adds to the coinbase is
the value it moves there plus the fees that `CallBundle` counts; before London only
if no base fee was given. `FiguresOK` carries this from the application of a
transaction, through a deadline that may pass in between, to its result.
`BundleTyped` and `TotalsAreSums` are from `TotalInv`, on top of it. No balance falls
below zero because a transaction is applied only if its sender has its value and its
gas at the fee cap, and the price is never above the cap (`PriceBounds`,
`NobodyOwes`; from London on this needs the base fee to be there, `FundsOK`). The
totals come from balances at the two ends, the sums from balances in between, so
`SumsOK` says where the sum has got to at each stage: at the current balance between
transactions, at `beforeTx` while one has no result yet. That sums grow by what is
appended (`SumOfOneMore`) is an induction over the indices that `FoldLeft` recurses on.

*Transaction arguments* (`TransactionArgsProofs`), for all amounts, base fees and
caps: `ReadingsAgree`, `PriceBounded` and `TypeCorrect`.

With these, every invariant, action property and refinement that a passing run
checks is also proved. Model-checked only are the liveness properties,
`HeadCatchesUp` and `EveryCallReturns`: fairness and ENABLED are out of the provers'
reach. The theorems for `ReadsBlockState` and `NothingInvented` have the assumptions
named above, and the runs `bundle_two` and `live_db_two` are instances of them.

## Not modelled, and the plan

What a later extension could take up:

1. Joined fetches inside `LiveDb`. `Fetcher` has what they add; the product of the
   two would be large for TLC and say little more.
2. What a bundle answers after a failed fetch. The StateDB notes the error in a
   field that `CallBundle` does not look at, so the bundle runs on with an empty
   account or slot. Nothing in the repository says what should happen; that such a
   failure does not outlive the request is `StoreHonest`.
3. The store that each request on an older block opens and nothing closes. It has
   no bound in the code that a property could state.
4. `time.Millisecond` times a large timeout overflows into a wrong or missing
   deadline; `Expire` may come at any moment, so the model covers every deadline
   this can give, but not the caller's surprise.

Left out for good: the engine stub (every method but one panics), JSON layout and
request factories (no state), `fetcher/streaming.go` (a subscription nothing
uses), the HTTP wiring, `mergeState` and `rpcFetcher.BlockNumber` (called by
nothing), and `HeaderByNumber`, which only go-ethereum's tracer API, registered in
`main.go`, may call.
