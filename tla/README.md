# BlindMarkets: specifications, model checking and proofs

BlindMarkets trades encrypted orders ("intents") in batches on Starknet. Users commit
intents during a window of 30 seconds; when the window is over, bonded solvers bid with
execution plans for the whole batch; the best one wins and settles it in one transaction.
This directory holds TLA+ specifications of the contracts, the gateway's ledger and solver
feed, the coordinator, the observer, the reference solver and the client SDK, TLC
configurations that check them on small instances, and TLAPS proofs of results that hold
for every instance. Paths below are relative to `src/`.

## 1. The system

### Components, state and operations

| Component | State | Operations that change it |
| --- | --- | --- |
| SolverBond (`contracts/src/solver_bond.cairo`) | one `SolverInfo` per solver, slash histories, the minimum bond and its proposal, the addresses of its two callers, a balance of the bond token | `deposit_bond`, `request_withdrawal`, `withdraw`, `slash`, `record_settlement_success/failure`, `set_locked`, `propose_/apply_minimum_bond`, two address setters |
| AssetRegistry (`asset_registry.cairo`) | whitelist | `whitelist_asset`, `remove_asset` |
| IntentRegistry (`intent_registry.cairo`) | intents with their status, nonces in use, list of intents of each batch, pause flag | `commit_intent`, `cancel_intent`, `mark_settled`, `mark_expired`, `pause`, `unpause`, address setter |
| BatchAuction (`batch_auction.cairo`) | a `Batch` and a list of solutions per batch, last reputation per solver | `create_batch`, `submit_solution`, `finalize_auction`, `slash_solver`, setters |
| BatchSettlement (`batch_settlement.cairo`) | settled batches | `settle_batch`, setters |
| GatewayRegistry (`gateway_registry.cairo`) | gateways and their keys | register, update, deactivate |
| Gateway (`backend/gateway`) | SQL tables `intents`, `user_nonces`, `pending_balances`, `batches`; a broadcast channel to solvers | HTTP handlers `submit_intent`, `cancel_intent`, `reconcile_onchain_intent`, `close_batch`, `fail_batch`, `settle_batch`; websocket feed with replay |
| Coordinator (`backend/coordinator`) | the batch it is working on, in memory only | a loop: close the window, open an auction, tell the gateway, wait, finalize; failures are reported |
| Observer (`backend/observer`) | the next block to read, and a checkpoint file | a poll every 10 s that turns contract events into calls of the gateway |
| Reference solver (`solver-reference`) | a cache of intents, two queues filled by its websocket, an inventory | listen, look up the batch, price, submit, settle |
| Rust client SDK (`client-sdk`) | the next nonce of each user, in memory and in a file | hand out nonces, build orders, submit them with repetitions |
| TypeScript SDK, frontend, deployment scripts | none | build and send requests; wire the contracts together |

### How they interact

A user sends an intent to the gateway (which commits it on chain for the user) or commits
it and has the gateway told. The coordinator tells the gateway that a batch is closed and
opens its auction on BatchAuction, which asks SolverBond whether a bidder is fit, reads its
reputation, and locks the winner. BatchSettlement reads the winner from BatchAuction and the
intents from IntentRegistry, moves tokens, marks the intents settled and grades, unlocks or
slashes the winner in SolverBond. The observer and the coordinator report the outcome to
the gateway over HTTP. Contract calls are synchronous and a transaction is atomic; every
other arrow may be late, repeated, reordered or lost.

### What is hard, and what correctness means

- *SolverBond*: deposits, withdrawals behind a delay, slashes and locks in any order. Every
  bond must be covered by its owner's own tokens; a slash takes precedence over a
  withdrawal; the shares of a slash add up in spite of rounding; blacklisting is for good.
- *IntentRegistry*: time boundaries. A nonce admits one intent; a committed intent is in
  one batch; a batch whose window is over never changes; each pending intent always has a
  way out; an end is final.
- *BatchAuction*: `auction_deadline` belongs to both the bidding and the deciding phase. The
  decision is final, the winner did bid in time, the loop picks the best solution.
- *BatchSettlement*: one call works on four contracts while users cancel and intents expire.
  All or nothing; minimum outputs and deadlines are honored; a solver that can fill the
  orders it saw is not slashed; nobody stays locked without a batch to settle, but whom the
  admin locked.
- *Gateway*: every handler reads, awaits, and writes, while others run and any await may
  fail. No balance stays held without a live order; solvers hear only of committed orders;
  orders are auctioned in closed batches; a settlement releases what its orders held.
- *Coordinator*: transactions are sent, not awaited; answers get lost; blocks are dated
  behind the coordinator's clock; the process restarts and remembers nothing. Every window
  ends in time, on chain or as reported failure, unless a fault or its own solutions prevent
  it, and no auction is opened early or twice.
- *Observer*: a poll reads several contracts, page by page, while blocks come, and fails half
  way. What the checkpoint leaves behind has been brought to the gateway.
- *Solver feed and solver*: a lossy broadcast channel, a replay beside it, bounded queues, a
  list that shifts and grows while it is paged, requests without a timeout, products that
  wrap. No order is forgotten, and a bid covers the whole batch and pays every order, or the
  solver is slashed.
- *Client SDK*: threads share a nonce file; a POST is repeated while the first may still be
  served. A nonce is handed out once, an order is committed once, every call returns.

`PROJECT.json` lists the hazards, each at its line, with the properties that guard it.

## 2. The modules

| Module | Models | Notes |
| --- | --- | --- |
| `Clock` | the block timestamp | never decreases, may stand still |
| `SolverBond` | `solver_bond.cairo` | one action per external function; what a call does to one record is an operator (`Slashed`, `LockedAs`, ...), so that a settlement composes several |
| `AssetRegistry` | `asset_registry.cairo` | |
| `IntentLifecycle` | abstract: what happens to intents, without time or batches | implemented by the registry and by the composition of the contracts |
| `BatchLifecycle` | abstract: what happens to batches, without solvers, plans or bonds | implemented by the composition of the contracts, and by what `BatchPipeline` keeps of them |
| `IntentRegistry` | `intent_registry.cairo` | one action per external function |
| `WinnerSelection` | the ranking of `_calculate_score` and `_select_winner` | states the outcome: the first of the best solutions |
| `WinnerScan` | the loop of `_select_winner` | one step per iteration, implements `WinnerSelection` |
| `BatchAuction` | `batch_auction.cairo` over `SolverBond` | |
| `BatchSettlement` | `batch_settlement.cairo` over the other four contracts | `settle_batch` is one action with its three outcomes |
| `GatewayLedger` | the handlers of `backend/gateway/src/api.rs` that write the tables | handlers cut at their awaits |
| `SolverFeed` | `backend/gateway/src/websocket.rs` and `solver-reference/src/intent_monitor.rs` | one solver's connection from the channel to the solver's queues; the handlers that announce are one step each |
| `ReferenceSolver` | `solver-reference/src/main.rs` and the files it calls | extends `SolverFeed` by the loop that uses it |
| `Coordinator` | `backend/coordinator/src/batch_scheduler.rs` | one step per await; faults and restarts |
| `BatchPipeline` | the coordinator, the chain it sends to, and the solver's transactions | extends `Coordinator`; of the contracts it keeps the status of a batch, and that this is enough `BatchLifecycle` shows |
| `Observer` | `backend/observer/src/indexer.rs` | chain, polls, pages, posts, checkpoint file, crashes |
| `ClientSdk` | `client-sdk/src` (nonces, building, repetitions) with the gateway's `submit_intent` as repeated requests meet it | requests of one order overlap |
| `ContractProofs`, `WinnerScanProofs`, `GatewayLedgerProofs`, `BatchPipelineProofs`, `ObserverProofs`, `ReferenceSolverProofs`, `ClientSdkProofs` | theorems and proofs | `ContractProofs` is about the bonds, the registry, the auction and the settlement, in this order: the later parts build on the invariants of the earlier ones |
| `SumTheorems` | sums over finite sets | lemmas that the ledger's balances, the slashes and the solver's list of orders need |
| `MC...` | instances for TLC | values of the constants, symmetry |

Variables and actions carry the names of the code. Conventions:

- A transaction that reverts is no step. Access control is the choice of who takes an
  action: `CallerStep` is what the auction and the settlement contract may do to a bond,
  `SolverStep` what its owner may do. In `SolverBond` alone the callers do as they like; in
  `BatchSettlement` they do what their code does.
- Of tokens only the ones the bond contract handles are counted: `wallet` is what each
  solver owns, `held` what the contract got from it and has not paid out. ERC-20 itself is
  not part of the code; `transfer` and `transfer_from` move what is there or revert.
- Hashes do not collide, so an intent is its id and a commitment is its plan. Two intents
  may share a nonce, and two plans may be committed by one solver.
- Of a plan the model keeps what each user is given. That payers have the tokens is up to
  them; a settlement that cannot transfer reverts.
- `u256` and `u64` counters do not wrap in Cairo, they panic; the one overflow a caller can
  bring about, in the score, is modelled (`ScoresFit`, and `spoiled` in `BatchPipeline`). The
  others are far beyond the bounds.
- What the gateway writes in one SQL transaction is one step; what the handler read before
  it (in `settle_batch` inside the transaction, which locks no row it reads) stays in `calls`
  and may be stale. That the writes of a transaction appear at once is an idealisation of the
  database's default isolation level. `Abandon` ends a handler at any
  await: a database error, an error of the chain, or a restart of the process.
- A fault (a failed request, a lost answer or connection, a crash) is an action of its own that
  counts against a bound. Variables whose comment says "history" are not the program's: they
  remember what a property has to speak of.
- Some properties have excuses, and variables say when one applies. `disturbed` (`Coordinator`)
  holds the batches whose process was down, whose transactions or reports were lost, or whose
  finalization got a block dated before it was sent; `spoiled` (`BatchPipeline`) those whose
  solutions make `finalize_auction` revert. `late` (`Observer`) holds the events in blocks that
  the observer moved past before it could have read them. `admin_locked` (`BatchSettlement`)
  holds the solvers that only the admin locked. Of the list the reference solver reads page by
  page, `moved` says that an order left it meanwhile, which shifts the offsets of the others,
  and `joined` has the orders that came to it after it was read.
- The clients of the coordinator, the observer and the reference solver set no timeout. In
  `Observer` and `ReferenceSolver` a request may stay unanswered, which leaves the loop in the
  place "hung"; only a crash ends that. In `Coordinator` such a process is as good as "down":
  `Crash` stands for both. `MaxDelay` is an assumption about answers that come.
- A handler of the gateway computes the open batch and writes it into a row some awaits later.
  `SolverFeed` gives the row any batch, open, closed or not begun, in `StoreIntent`, `Reconcile`
  and `RequeueBatch`. `announced` has the orders broadcast since they were last stored or
  reconciled.
- Time in `BatchPipeline` passes only when nothing is overdue: calls for one batch take at most
  `MaxDelay`, a transaction gets into a block within `InclusionTime`. That the deployed values
  leave room for both is `PipelineAssumption`.
- Each mutant operator (`Mutant...`) is a plausible bug. TLC finds the property listed with
  it in `PROJECT.json` violated when the mutant takes the place of the definition below it.

## 3. What the runs check

| Run | Question | Result |
| --- | --- | --- |
| `MCSolverBond` | Can a bond be paid, slashed and withdrawn in an order that breaks the contract's books, or brings a blacklisted solver back? | holds |
| `MCIntentRegistry` | Do nonces, batches and ends of intents keep their promises at every boundary of time? Does the registry implement `IntentLifecycle`? | holds |
| `MCWinnerScan` | Does the loop find the winner of the ranking for every list of up to three solutions? | holds |
| `MCBatchAuction` | Is a decision final, and did the winner compete in time? | holds |
| `MCBatchSettlement` | Do the contracts together settle all or nothing, honor minima and deadlines, and leave the faithful alone? Do they implement `IntentLifecycle` and `BatchLifecycle`? | holds |
| `MCGatewayLedger` | Do handlers that overtake each other and fail keep balances, announcements and batches in order? | holds |
| `MCBatchPipeline` | Does every window that is not excused end in time, and is each auction asked for once, despite lost answers, late blocks and restarts? Do batches live as `BatchLifecycle` says? | holds |
| `MCBatchPipeline_settled` | Is an auction that was won settled at last? | violated, D7 |
| `MCObserver` | Is what the checkpoint leaves behind brought to the gateway, and does the observer get to or past every event while its requests are answered? | holds |
| `MCObserver_idle` | Is every event brought to the gateway? | violated, D6 |
| `MCReferenceSolver` | Does a solver learn of every announced order, and does its bid pay all of the batch it read? | holds |
| `MCClientSdk` | Are nonces handed out once and orders committed once, and does every call return? | holds |

Six further configurations, `MCSolverBond_window`, `MCBatchSettlement_twowins`,
`MCBatchSettlement_winningplan`, `MCBatchSettlement_doublecount`, `MCGatewayLedger_release` and
`MCBatchPipeline_undecided`, reproduce the divergences D1 to D5 and D8 below: TLC finds their
one property violated. They are run by hand (`tlc -config MCSolverBond_window.cfg MCSolverBond`).

The properties are stated and explained where they are defined, at the end of each module.
In brief:

- *SolverBond*: `BondBacked` and `NothingStrandedBeforeBlacklist` (bond against tokens),
  `SlashesAccounted` (what recipients got is what the histories say), `SlashBeforeWithdraw`
  (no payment within a delay after a slash), `TokensConserved` (wallets, contract and
  recipients together hold the supply), `BlacklistIsPermanent` (no call brings a blacklisted
  solver back or makes its bond grow). `RequestAfterSlash` is proved and not run.
- *IntentRegistry*: `NonceAdmitsOneIntent`, `CommittedIntentsAreListedOnce`,
  `ClosedBatchIsFrozen`, `PendingCanAlwaysEnd`,
  `LifecycleSpec` (refinement).
- *WinnerScan*: `ScanInv` (loop invariant), `ScanFindsWinner`.
- *BatchAuction*: `WinnerCompeted`, `DecisionIsFinal`.
- *BatchSettlement*: `SettledTogether`, `MinOutputMet`, `SettledInTime`,
  `BidsSeeTheWholeBatch`, `LockHasReason`, `FaithfulNotSlashed`, `LifecycleSpec` and
  `BatchLifecycleSpec` (refinements).
- *GatewayLedger*: `NoHoldWithoutOrder`, `OnlyCommittedReachSolvers`,
  `AuctionedInClosedBatch`.
- *BatchPipeline*: `EndsInTime` (a window that is over and neither disturbed nor spoiled is
  decided on chain, or the gateway knows that it failed, by the latest time the settings allow),
  `OpenedOnce`,
  `BatchLifecycleSpec` (refinement).
- *Observer*: `PassedIsTried` (memory and checkpoint file against what was sent on),
  `EveryEventIsReached` (liveness).
- *ReferenceSolver*: `NoOrderForgotten`, `BidPaysEveryOrder`, `AnnouncedReachesSolver`
  (liveness).
- *ClientSdk*: `NonceReturnedOnce`, `CommittedOnce`, `EveryCallReturns` (liveness).

The type invariants of the bond contract, of the composed contracts and of the ledger are run:
there a type says that no subtraction underflows. Those of the auction and the registry are
parts of the one of the composition; the others are proved only.

### Bounds

Time is the dominating bound; the deployed values (a window of 30 s, 20 s to bid, 10 s to
decide, an hour to withdraw) are scaled to one or two ticks, which keeps each boundary
(`<` against `<=`) and the order of all of them.

- `MCSolverBond`: two solvers with two tokens each, three timestamps, a withdrawal delay of
  1, up to two slashes per solver where the second one blacklists. Two tokens are the
  smallest bond that can be slashed in part and whose shares are rounded; two solvers are
  what it takes for one to pay with the tokens of the other. Solvers are symmetric.
  Grading is left to the runs of the auction and the settlement (`MaxAttempts = 0`).
- `MCIntentRegistry`: three intents, two with the same nonce, three batch windows; one
  intent expires as a window opens, another one inside a window. Assets go on and off the
  whitelist and the contract is paused at any time.
- `MCWinnerScan`: all lists of up to three solutions over two solvers, surpluses, fees and
  submission times, with ties, worthless solutions and scores that do not fit
  (`MaxU256 = 2`). The loop ends, so there is no deadlock check. The proof covers the rest.
- `MCBatchAuction`: one batch, two symmetric solvers, at most two solutions, and time
  before, in and after both windows. A batch never reads another one's record, so a second
  batch would bring nothing but `solver_reputation`, about which no property speaks.
- `MCBatchSettlement`: two orders of one user, plan `full` that honors both and plan `half`
  that starves the second, one solver that may commit to both, one batch that holds none,
  one or both orders; the first order expires in the middle of the auction. Slashes by the
  admin and by the settlement, locks by the admin and by the auction; a slash takes half of the
  bond. Every solution claims the same surplus: which one wins is left to `MCBatchAuction`. So is
  winning against another solver.
- `MCGatewayLedger`: two orders of one account, two requests at a time (symmetric) and one
  closed batch. Handlers remember what they read in their own record only, so what two of
  them can do to each other shows with two; three at once are not checked.

- `MCBatchPipeline`: a unit is five seconds, so a window is 6, the wait and the solution
  window 4, the resolution 2, and calls, inclusion and a block's lag take up to 1 each, which
  is all the slack the deployed values leave: every boundary is met. Two windows, for the
  second to begin late or be missed because of the first; two faults, so that one can hit the
  handling of another. Solutions of other solvers count with the faults. After the last window there is nothing to do, so deadlock is not
  checked, here and in `MCBatchPipeline_settled` (one window and no fault).
- `MCObserver`: two contracts, three events in up to three blocks, one event to a page and one
  of them of a kind the observer cannot read, two attempts to post, two faults. Two events of
  one contract make a second page; the second contract is what one checkpoint is shared with.
  A request that is never answered is one of the faults; after it nothing may be left to do, so
  deadlock is not checked.
  `MCObserver_idle` needs one event and no fault.
- `MCReferenceSolver`: two orders, one batch that closes, two broadcasts in the channel, one
  message on the connection (`WireSize`), queues and pages of one entry, one break: each buffer
  is full and each list has a second page. The break is a lost connection, a failed or
  unanswered request, a crash, a failed batch or a commitment found late, so TLC never combines
  two of these; the proofs do. An order stored with a late batch id costs no break. One order is filled from the inventory, at a price whose product
  wraps (`MaxU128 = 45`), the other by quotes of which one is too low and one overflows. Two
  closing batches, or three orders, are too many states for a run. It ends, so deadlock is not
  checked.
- `MCClientSdk`: two threads, two nonces, one repetition, one crash. When nonces are used up, or
  the file is torn and cannot be read, nothing may be left to do, so deadlock is not checked.
  The proofs cover any number of them.

Numbers of slashes, recorded settlements, solutions, windows and the last timestamp are
bounds of the instances (constants with the comment "bound"); the actions that count
against them stop there, the others go on.

### Fairness

For the contracts and the ledger none is assumed: their properties are safety properties,
refinements of a specification without fairness, or (`PendingCanAlwaysEnd`) a statement of
what is enabled. Nothing on chain obliges anybody to act. The processes off chain are loops
that run while they are up, and there weak fairness is stated, never strong:

- `PipelineFairness`: the scheduler's own steps, the inclusion of transactions, the clock, and
  the solver's second transaction once it sent the first. Nobody has to bid, and a scheduler
  that crashed need not be restarted. `EndsInTime` is a safety property: time itself stops for
  overdue work. Fairness is there so that the counterexample to `WonIsSettled` is not a system
  that merely stands still.
- `ObserverFairness`: the steps of the loop, of which writing the checkpoint may fail, and the
  end of a request of the gateway (the node's ends with `Work`), unless it stays `Unanswered`:
  the client of `indexer.rs:78` has no timeout, the gateway gets a last attempt, and the loop
  waits for either for ever. A restart is part of the fairness, because `docker-compose.yml:103`
  says `restart: unless-stopped`; a process that is hung is not restarted. No block has to come.
  `EveryEventIsReached` therefore excuses an observer that is hung.
- `SolverFairness`: the tasks at both ends of the websocket and the loop, whose requests are
  answered or fail unless one stays `Unanswered` (`main.rs:268,337`,
  `liquidity_aggregator.rs:11`, `proof_provider.rs:16`). The loop then takes nothing from its
  queues and the feed stalls behind them: `AnnouncedReachesSolver` says that again and again no
  announced open order is waiting, or the connection lagged or broke, or the loop is hung.
  Between its two queues the loop's `select!` chooses at random, so neither is starved. A
  connection without a peer is lost, because both ends write to it every 30 s or less. No order
  has to be placed, announced or ended, no batch has to close.
- `ClientFairness`: each thread's next step; a request that is not answered is given up by
  reqwest's timeout. The gateway has to do nothing.

### Divergences the runs show

- **D1** (`solver_bond.cairo:346`): `slash` works on the record it read before
  `_clean_old_slashes` reset the counter in storage and writes the old count back. Slashes of
  any age add up to a blacklisting (`docs/requirements/prd.md:1258`).
- **D2** (`batch_settlement.cairo:391`): `locked` is one flag. A winner of two batches is
  unlocked by the settlement of the first and may withdraw (`prd.md:1779`, `1824`).
- **D3** (`batch_settlement.cairo:581`): the winner is held to the first solution it
  submitted; if a later one won, settling the winning plan is punished as a mismatch
  (`docs/how-it-works.mdx:53`).
- **D4** (`batch_settlement.cairo:633`): one transfer to a user counts for every order of the
  user in that asset (`docs/solvers/submitting-solutions.mdx:60`).
- **D5** (`api.rs:1772`): `settle_batch` releases pending balances per order and again as a
  sum, at the expense of other orders of the account (`prd.md:1293`).

- **D6** (`indexer.rs:122`): the end of a poll is compared with a maximum that starts as
  `current_block`, so every poll moves on by one block, a poll without events and past the
  latest block too. The observer runs ahead of the chain, and never reads the blocks it
  passed (`docs/developers/self-hosting.mdx:12`). Violated without any fault; `late` is this
  excuse in `PassedIsTried`.
- **D7** (`solver-reference/src/main.rs:240`): the solver sends `settle_batch` before the
  auction can be decided, where it reverts, and not again; the coordinator sends no settlement
  (`batch_scheduler.rs:241`). The comment at `main.rs:238` says that the coordinator triggers
  it.
- **D8** (`batch_auction.cairo:519`): any bonded solver can claim a surplus whose score does not
  fit `u256`; `finalize_auction` then reverts until its window is over. It also reverts when the
  solutions are more than the fixed `l2_gas` of `coordinator/src/starknet_client.rs:111` pays
  for. The coordinator sends with fixed gas, so nothing is simulated, and reads no receipt: the
  batch stays in AUCTION and no failure is reported, where `docs/how-it-works.mdx:59` says that
  a batch without a winner is marked as failed and its orders requeued. `SpoiledEndsToo` states
  that, and `spoiled` is this excuse in `EndsInTime`.

Met while modelling and not given a run of their own:

- `slash` takes the whole bond of a solver that failed too often but distributes only the
  slash; the rest stays in the contract for ever (`solver_bond.cairo:378,402`). This is why
  `NothingStrandedBeforeBlacklist` speaks of solvers that are not blacklisted.
- A batch whose solutions are all worth the initial values of the search becomes SETTLED
  without a winner (`batch_auction.cairo:459`); `HasWinner` says when.
- A solver that asked for a withdrawal in advance can withdraw between its bid and the
  decision, and win with no bond (`batch_auction.cairo:331`, `prd.md:1823`).
- Past the resolution window `finalize_auction` reverts for ever and the batch stays in
  AUCTION (`batch_auction.cairo:318`, `how-it-works.mdx:59`).
- An order that is canceled or expires after the auction leaves the winner locked, because
  the batch can neither be executed nor failed (`batch_settlement.cairo:615`,
  `docs/solvers/bonding.mdx:69`). `LockHasReason` is the weaker promise that holds.
- One failed settlement counts as two failures: `slash` and `record_settlement_failure` both
  add one (`batch_settlement.cairo:325`, `prd.md:1826`).
- The gateway's report of a late commitment moves ONCHAIN_FAILED back to PENDING without
  taking nonce and balance again; a cancellation may overwrite SETTLED; an intent is announced
  with the batch it had before reconciliation (`api.rs:1250-1302`). `NoHoldWithoutOrder`
  therefore bounds holds from above only.
- A row that gets the id of a batch after the gateway closed it (`api.rs:199`, `1251`, `1605`)
  stays PENDING there: `close_batch` comes once for a batch and `fail_batch` requeues rows in
  AUCTION only. A solver that asks for the list of the batch then sees it.
- An order that leaves a batch while the reference solver pages through its list shifts the
  others, and one of them can be missed: the solver bids for less than the batch
  (`main.rs:265`). This is the excuse `moved` in `BidPaysEveryOrder`. Orders that join can only
  be read, or make the solver read one twice and leave the batch.
- No client of the coordinator, the observer or the reference solver sets a timeout: a peer that
  takes a request and never answers stops the process's loop until somebody restarts it.

- The observer reads each contract up to a head of its own but has one checkpoint for all:
  an event of the first contract in a block that came while the others were read is passed by
  (`indexer.rs:95`). This is the other excuse in `late`.
- The replay sends PENDING orders whose commitment the chain has not taken yet
  (`websocket.rs:257`); only broadcasts wait for it. `OnlyCommittedReachSolvers` speaks of
  broadcasts.
- A repeated POST of an order that was taken is answered with a conflict, which the SDK returns
  as an error: `CommittedOnce` says what Ok means, an error means nothing
  (`gateway_client.rs:321`).

## 4. What is proved

| Theorem | Module | Statement |
| --- | --- | --- |
| `BondInvariant`, `BondTypeCorrect`, `Solvency`, `NothingStranded`, `RequestsAfterSlashes`, `SlashesAreAccounted`, `TokensAreConserved` | `ContractProofs` | `BondSpec => []` of `BondInv`, `BondTypeOK`, `BondBacked`, `NothingStrandedBeforeBlacklist`, `RequestAfterSlash`, `SlashesAccounted`, `TokensConserved` |
| `SlashPrecedesWithdrawal`, `BlacklistPermanence` | `ContractProofs` | `BondSpec => SlashBeforeWithdraw`, `BondSpec => BlacklistIsPermanent` |
| `RegistryTypeCorrect`, `NonceUniqueness`, `ListedOnce`, `ClosedBatches` | `ContractProofs` | `RegistrySpec => []` of the invariants, and `ClosedBatchIsFrozen` |
| `RegistryImplementsLifecycle` | `ContractProofs` | `RegistrySpec => LifecycleSpec` |
| `ScanKeepsTheBest`, `LoopFindsWinner` | `WinnerScanProofs` | `ScanSpec => []ScanInv`, `ScanSpec => []ScanFindsWinner` |
| `AuctionTypeCorrect`, `OnlyCompetitorsWin`, `DecisionsAreFinal` | `ContractProofs` | `AuctionSpec => []` of `AuctionTypeOK`, `WinnerCompeted`; `AuctionSpec => DecisionIsFinal` |
| `AuctionKeepsBondsBacked` | `ContractProofs` | `AuctionSpec => []BondBacked` |
| `SettlementTypeCorrect`, `AllOrNothing`, `MinimaAreMet`, `LocksHaveReasons`, `FaithfulAreSafe` | `ContractProofs` | `SettlementSpec => []` of `SettlementTypeOK`, `SettledTogether`, `MinOutputMet`, `LockHasReason`, `FaithfulNotSlashed` |
| `SettlementsAreInTime`, `BiddersSeeTheBatch` | `ContractProofs` | `SettlementSpec => SettledInTime`, `SettlementSpec => BidsSeeTheWholeBatch` |
| `ContractsKeepTheirInvariants`, `SettlementSlashesAreAccounted`, `SettlementConservesTokens` | `ContractProofs` | `SettlementSpec => []` of `BondBacked`, `NothingStrandedBeforeBlacklist`, `RequestAfterSlash`, `WinnerCompeted`, `NonceAdmitsOneIntent`, `CommittedIntentsAreListedOnce`; of `SlashesAccounted`; of `TokensConserved` |
| `SettlementSlashPrecedesWithdrawal`, `SettlementKeepsBlacklist`, `SettlementKeepsDecisions`, `SettlementFreezesBatches` | `ContractProofs` | `SettlementSpec =>` `SlashBeforeWithdraw`, `BlacklistIsPermanent`, `DecisionIsFinal`, `ClosedBatchIsFrozen` |
| `SettlementImplementsLifecycle`, `SettlementImplementsBatchLifecycle` | `ContractProofs` | `SettlementSpec => LifecycleSpec`, `SettlementSpec => BatchLifecycleSpec` |
| `LedgerTypeCorrect`, `NoBalanceIsStranded` | `GatewayLedgerProofs` | `LedgerSpec => []` of `LedgerTypeOK`, `NoHoldWithoutOrder` |
| `OnlyCommittedAreBroadcast`, `AuctionedOrdersInClosedBatches` | `GatewayLedgerProofs` | `LedgerSpec => []` of `OnlyCommittedReachSolvers`, `AuctionedInClosedBatch` |
| `PipelineTypeCorrect`, `EveryWindowEndsInTime` | `BatchPipelineProofs` | `PipelineSpec => []` of `PipelineTypeOK`, `EndsInTime` |
| `AuctionsOpenedOnce`, `PipelineImplementsBatchLifecycle` | `BatchPipelineProofs` | `PipelineSpec => OpenedOnce`, `PipelineSpec => BatchLifecycleSpec` |
| `ObserverTypeCorrect`, `PassedEventsAreTried` | `ObserverProofs` | `ObserverSpec => []` of `ObserverTypeOK`, `PassedIsTried` |
| `SolverTypeCorrect`, `NoAnnouncedOrderForgotten` | `ReferenceSolverProofs` | `SolverSpec => []` of `SolverTypeOK`, `NoOrderForgotten` |
| `EveryBidPaysItsBatch` | `ReferenceSolverProofs` | `SolverSpec => BidPaysEveryOrder` |
| `ClientTypeCorrect`, `NoncesAreUnique`, `OrdersAreCommittedOnce` | `ClientSdkProofs` | `ClientSpec => []` of `ClientTypeOK`, `NonceReturnedOnce`, `CommittedOnce` |

They hold for every value of the constants that satisfies the assumptions named
`...Assumption` in the modules: delays, windows and percentages are natural numbers, the
percentages of a slash are at most 100, no intent is committed outside `BatchIds`, a block's
delay and the coordinator's wait fit into the windows of an auction, and there are finitely
many solvers and orders where sums or lists are made of them. Bounds are constants too, so no
bound of a run limits a theorem.

*Sums.* `FiniteSetsExt` defines a sum by recursion over the set. Instead of an induction,
`SumTheorems` uses that strict inclusion is well-founded on the subsets of a finite set
(`LeastSubset`): were a statement about sums false for some subset, it would be false for a
least one, where the equation of the definition (`SumEquation`) contradicts it. So a sum
exists and is a natural number, any element may be split off, disjoint parts add up, more
elements make it no smaller, and equal functions have equal sums.

*SolverBond.* `BondBacked` is not inductive: that a withdrawal is covered needs the request
to be within the bond, and this needs slashes to cancel requests. `AccountInv` collects what
must be known of one solver's record, its tokens and the time: bond at most the tokens held
and equal to them before a blacklisting, request within the bond and younger than the last
slash, last slash not in the future. Each operator on records preserves it (one lemma each),
so each action does, and a transaction of another contract composes the lemmas. `SlashSplit`
is the arithmetic: two shares rounded down fit, and the third takes the rest.

What follows from `BondInv` is proved once for all callers. `BondEffect` lists what one
transaction may do to the bonds, whichever contract it enters by: a call of the solver; a slash
of one record, together with whatever else happens to that record; a grade or a lock, which
leaves bond and blacklist as they are; or nothing. Four lemmas say what any such effect does:
it pays only after a quiet delay (`EffectPaysAfterDelay`), brings nobody back
(`EffectKeepsBlacklist`), increases by the same amount what the recipients have (three shares)
and what the histories add up to (one new entry) (`EffectIsAccounted`), and moves tokens
without making or losing any (`EffectConserves`). That each step has such an effect is shown
for `BondSpec` (`BondStepEffect`) and for the composition (`SettlementStepEffect`), so each of
the four properties is a theorem of both.

*IntentRegistry.* `RegistryInv` adds to the types that the nonces in use are exactly those of
the committed intents, and that lists and statuses agree with every intent listed once.
`commit_intent` appends to the current batch, which is not over: `ClosedBatches`. For the
refinement each action maps to a commit, an end or a stutter; that a nonce not in use admits
the abstract commit is the first conjunct of `NoncesInv`.

*WinnerScan.* `ScanInv` says that `best_*` describe the first of the best solutions read so
far. The proof needs that `Beats` is a strict weak order on ranks; the loop is a state
machine, so no induction over lists is needed. At the end the solution found is the only one
that satisfies `IsWinner`.

*BatchAuction.* That a winner competed in time is not inductive: `InWindow` adds that an
open auction has the times `create_batch` gave it, that every solution was submitted in the
window, and that only a SETTLED batch has a winner. What an auction does to the bonds is a
`set_locked` or a `slash`, so `AuctionInv` contains `BondInv` and its preservation is cited.

*BatchSettlement.* `SettlementInv` is the conjunction of `AuctionInv`, `RegistryInv`, the
properties, and `WonBefore`: only a batch that was won is executed or has its winner
slashed. `WonBefore` is what makes the rest inductive. A won batch is decided, so the auction
leaves it alone (`DecidedStep`); it has a solution, and a solution comes after the batch's
window (`SolutionsInClosedBatch`, which is where `CloseTime[b] = WindowEnd(b)` is needed), so
the registry leaves its list alone (`ClosedStep`). Hence `OtherStepsKeepInv`: steps that
settle nothing keep all of it. There remain the outcomes of `settle_batch`: an execution is
the end of a set of pending intents (`EndsKeepInv`) and a graded record
(`RecordChangeKeepsInv`); a punishment is three operators on one record, each with its lemma
about `AccountInv`. A faithful solver committed to one plan, which is the one it is held
to (`CommitmentSubmitted`: the first of its solutions exists because `<` is well-founded), and
that plan gives no intent of the batch too little, so no constraint is found violated. A lock is
either the auction's, which then has a won batch not yet executed to show for it, or is kept in
`admin_locked` until some call unlocks.

*Batches.* `BatchLifecycle` is implemented twice. In the composed contracts `create_batch` starts
a batch, `submit_solution` bids (`SubmitBids`), `finalize_auction` decides (`FinalizeDecides`)
and `ExecutePlan` executes (`SettleExecutes`); time is the block's, the bids are the batches
with a solution, and the executed batches those with an entry in `settlements`. The life cycle
has one deadline per batch, computed from its close; the code stores one at `create_batch` and
reads it back, so `InWindow` is needed for the two to agree; its other part, that only a SETTLED
batch has a winner, gives the guard of an execution. In `BatchPipeline` the same events are executions of transactions in blocks
(`ExecutedInLifecycle`), in whatever order they arrive, late or lost: that chain, without plans,
solvers and bonds, keeps the promises of this life cycle as the contracts do.

*GatewayLedger.* What a handler read may be stale when it writes, so `LedgerInv` says what of it
cannot become stale (`KnowsRows`): the one row it works on exists from then on, the hash it
holds is one, a batch it closed has a row. With it, and with rows that are not stored having no
hash, each write is an instance of one of three lemmas: a handler that only remembers, that
writes one row, that writes the open rows of a batch.

`NoHoldWithoutOrder` compares each balance with the sum over the account's live orders, and
`HoldInv` needs nothing of what handlers remember. What they release late, or twice as in D5,
is cut off at zero; so a step that ends orders must release at least what these held
(`ReleaseKeepsHold`), and a step that makes an order live may hold no more than its amount. A
step that does neither is `NoRelease`.

*BatchPipeline.* `EndsInTime` speaks of one instant, so `NoneForgotten` says what is true until
then: each window that is over and not excused (`disturbed`, `spoiled`) has ended, or has a transaction under way that
will decide it (`Decides`), or the task is with it (`InWork`). Why such a transaction will: its
block comes at most `InclusionTime` after it was sent (`SentInTime`), it was sent at most
`MaxDelay` after the wait (`Timely`), the auction was created by a transaction ahead of it or
before (`CreatedBy`), and `PipelineAssumption` makes these fit into the resolution window.
`Timely` also says that the coordinator, when it sleeps, waits for the next window to close and
not for a later one: this is where `AuctionWait + MaxDelay < BatchWindow` is needed, without
which a window is missed. `OpenedBefore` adds that what was opened closed before the window now
waited for; `OpenedOnce` follows, restarts included, because a restarted coordinator waits for a
window that closes after its start.

*Observer.* `PassedIsTried` needs to know what a poll owes at each of its steps (`Progress`): of
the contracts it is through with, an event that was not tried came after they were read; of
the one it is reading, such an event is on the page or after the continuation token. With
`Forward` (the file is never ahead of memory, memory never goes back but to the file) this is
inductive. That a page is not empty and what it leaves out comes after its last event
(`PageComesFirst`) follows from events being finitely many and their order strict.

*ReferenceSolver.* Of the feed, `NoneDropped`: as long as the connection is live and did not lag,
an open order that was announced is with the solver, on the wire, in the channel, or in the
replay. The hello makes this true when the link becomes live, because the replay then has
every open order; from then on each queue hands over its first entry and drops none.

Of the bid: a list may grow anywhere while it is read, because rows join a closed batch late,
so the pages read so far need not be its beginning. But unless an order left it (`moved`), each
one read is still on it (`ReadSoFar`). The page that comes back empty shows that the list is no
longer than what was read; if no order was read twice, which the solver checks before it
prices, there are as many orders read as there are on the list, so they are all of it
(`AllRead`, a counting argument), and later only what joins (`joined`) is missing. That a finite
set of sequence numbers has an increasing list (`SequenceOf`), as long as the set is large, is
another least counterexample. What is paid (`PaidEnough`)
comes from `FillBatch`, for any price that wrapped or was quoted: `OutputAmount` raises each
output to the minimum, and a product that overflows there ends the attempt.

*ClientSdk.* Nonces: the values returned are below the tracker's counter, a thread between
counting and returning holds a nonce of its own, and with `auto_flush` a nonce is returned only
after the file has it, so a restart begins above it. Commitments: only one request of an order
can have passed the insertion of its row at a time, and after it the row stays, so that a
request that comes later is a conflict.

### Only model-checked

`PendingCanAlwaysEnd` (`ENABLED`), all liveness (`EveryEventIsReached`,
`AnnouncedReachesSolver`, `EveryCallReturns`), which tlapm cannot handle, and the two properties
that are violated. Every other property of a run is the statement of a theorem.

## 5. What is not modelled

- GatewayRegistry: a table no other contract reads; the mocks.
- Signatures and encryption: functions of one request. The rate limiter, which counts requests
  in Redis and only turns requests away. The ciphertext pool and the pending-ledger files, which
  no handler uses.
- The TypeScript SDK and the frontend: one request per operation.
- The admin's re-pointing of a contract to another address, and the optional proof verifier (a
  rejected or missing proof changes nothing).
- Of the solver, bonding (single calls its loop does not make). Several solvers: a connection
  shares nothing with another one but the gateway's tables, and their bids meet in
  `BatchAuction`.
- Of the observer's four kinds of event, what they ask of the gateway: `GatewayLedger` takes
  these reports in any order.

## 6. Plan

Done, in this order: bonds (the money), the registry and its life cycle, winner selection, the
auction, the settlement that composes the contracts, the gateway's ledger; then the coordinator
over the chain, the observer, the solver's feed and the solver, the client SDK; proofs about
all of them, and last the life cycle of batches that ties the contracts to the pipeline.

Left: `GatewaySystem`, that is `GatewayLedger` beside `IntentRegistry`, for what "SETTLED",
"CANCELED" and the batch of an order in the gateway say about the chain.
