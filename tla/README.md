# Stellars Finance: a TLA+ model of the perpetuals protocol

Stellars Finance is a perpetual-futures exchange on Soroban. LPs deposit USDC
into a vault; traders open leveraged positions against it; keepers, oracle
publishers, an indexer, an API and a web frontend run around the contracts. This
directory models the contracts and the services around them, checks the models with
TLC on small instances, and proves with TLAPS, for every value of the constants,
what matters most about the vault, the position manager, its off-chain readers, the
indexer, the router, the governance, the keeper, the tab with its windows and the
publishers.

## 1. The system

| Part | Source | State | Operations | Talks to |
|---|---|---|---|---|
| Vault | `contracts/vault` | USDC balance, reserved USDC, unclaimed fees, last pushed trader PnL, pause flag; shares, lockup expiries | ERC-4626 deposit / mint / withdraw / redeem, share transfers, `claim_fees`, pause; for the position manager: pay, reserve, release, accrue, claim, push PnL | USDC token, ConfigManager |
| PositionManager | `contracts/position-manager` | positions, markets, unrealized and realized PnL, own USDC (collateral and escrows), pause times, leverage caps, disabled markets | increase, decrease, liquidate, deleverage, execute order, set TP/SL, update indices, pause, market administration | Vault, OracleRouter, ConfigManager |
| ConfigManager | `contracts/config-manager` | roles, fee splits, limits, fee and rate configuration, pending admin, upgrade timelock | validated setters, grant / revoke, two-step admin transfer | read by everyone |
| OracleRouter, Oracle | `contracts/oracle-router`, `contracts/oracle` | sources, thresholds, price cache; pushed prices | `get_price` (median, quorum, deviation, cache), source administration | sources |
| Upgrades | `contracts/interfaces/src/upgrade.rs` | pending hash and eta | propose, execute, cancel, migrate | ConfigManager |
| Keeper | `packages/keeper` | claims with a time to live, a submission chain, a fee tally | hot loop (liquidations), cold loop (indices, orders, ADL) | database, RPC |
| Indexer | `packages/indexer` | event cursor, tables | page transactions, oracle poller | RPC, database |
| API | `packages/api` | listeners, stream queues | REST reads, SSE streams fed by NOTIFY | database |
| Oracle publishers | `packages/oracle-*` | last push per ticker | fetch, outlier gate, push | exchanges, Oracle |
| Off-chain math | `packages/protocol-math` | none | a mirror of `tick.rs` and `math.rs` | keeper, frontend |
| Frontend | `packages/frontend` | query cache, wallet account, pending transaction, windows in URL and history | queries with their streams, log on and off, sign and submit, open / close / raise / minimize windows | API, wallet, RPC |
| Simulation, bindings, clients, mocks, tests | `packages/*`, `mocks`, `test-suites` | none of the protocol's | | |

**Interaction.** A trade is one Soroban transaction: the position manager reads
the vault (`VaultView`), ticks the market, gets a price, moves USDC between
trader, itself and the vault, calls the vault several times and at the end
pushes its unrealized PnL to it. A panic anywhere undoes everything. LPs meanwhile
withdraw whatever the vault's stored numbers call free. Off chain, the indexer
copies events into tables, on which the keeper decides and from which the API
streams to the tabs of the frontend; keepers, publishers and tabs submit
transactions whose fate they may learn late or never.

**What is hard.** Nothing runs in parallel on chain, yet every order of calls
by independent actors happens. The contracts keep the same quantity in several
places (reservation, open interest, sizes; PnL totals by deltas; escrow fields
and custody), round at every step, act on numbers stored by earlier calls, and
make up to nine calls in one close, any of which can panic and leave a
position that nobody can close. Off chain it is timeouts, retries, lost
notifications, crashes between steps and stale reads. `PROJECT.json` lists the
hazards, each at its line, with the properties that cover it.

**What makes each part correct.**

- *Vault*: shares add up; fees are always backed by USDC; LPs cannot take what
  is reserved; a cooldown cannot be dodged through transfers, nor a lockup be
  cut by others; rounding favours the remaining LPs; quotes are executable.
- *PositionManager*: custody is exact; reservations are the open interest and
  the sizes; escrows follow orders; solvency survives trading; losing
  positions can always be closed; every second is billed at most once; the PnL
  ledgers agree.
- *OracleRouter*: a served price comes from a quorum of fresh, agreeing
  sources that are configured now. *ConfigManager*: exactly one admin. *Upgrades*: no
  upgrade before its timelock nor after a veto.
- *Keeper*: what is due gets done; no fee is paid for a call that could not work when
  it was simulated, none is logged that was not charged. *Off-chain math*: what the keeper
  and the order form compute is what the contract will do.
- *Indexer*: the tables are what the events tell of the contracts up to some point of
  the stream, every event is applied once, the cursor always progresses; what no event
  tells is all that is missing. *API and frontend*: a tab that heard of a change ends up
  showing it; a toast that states a fate states the right one (all but one do, section
  3); Back undoes one window.
- *Publishers*: a market at rest is published; nothing lands in the oracle that the outlier
  gate would have kept from following the last push the publisher has recorded.

## 2. Modules

| Module | Models |
|---|---|
| `PerpMath` | the pure arithmetic of `math.rs`, with Rust's truncating division |
| `Vault` | the vault: its ledger as operators on a record, and the vault as a state machine with LPs, admin, donors and *any* position manager; properties; the inductive invariant |
| `PositionManager` | the position manager composed with the vault it calls; properties; the inductive invariant |
| `OracleRouter` | the router's cache and fetch pipeline for one symbol, its administration, the Oracle contract and foreign feeds |
| `Governance` | roles, the two-step handover of the admin, the timelocked upgrades of four contracts and the immediate one of the fifth |
| `ProtocolMath` | the TypeScript port of the arithmetic (`packages/protocol-math`), translated from the TypeScript |
| `Mirror` | the position manager beside its off-chain readers: the mirrored rows, the keeper's scan, the order form, the TP/SL editor |
| `Keeper` | both loops, claims, the submission chain, simulation, inclusion, timeout, restart, the fee tally |
| `ChainMirror` | what the database promises its readers (abstract) |
| `Indexer` | the event log, the page transaction, every handler's writes, the price poller; implements `ChainMirror` |
| `Streams` | a change on its way into a tab: trigger, broadcaster, stream with filter and queue, query cache |
| `Tab` | a tab over `Streams`: wallet account, a transaction and its toast |
| `Desktop` | windows, their URL and the browser's history, geometry |
| `Browser` | `Tab` and `Desktop` together |
| `OraclePublisher` | a publisher: exchange answers, outlier gate, throttle, submission |
| `Induction` | lemmas about finite sets, folds and counting that the proofs share |
| `PositionManagerProofs` (the vault too), `MirrorProofs`, `OracleProofs` (router and publishers), `IndexerProofs`, `GovernanceProofs`, `KeeperProofs`, `TabProofs` | the theorems and their proofs |
| `MC...` | the instances for TLC |

**How they fit together.** `PositionManager` EXTENDS `Vault` EXTENDS `PerpMath`: the
same ledger operators (`pay_profit`, `reserve_liquidity`, ...) are actions of the
vault's own machine and steps of the position manager's transactions. `Mirror`
EXTENDS `PositionManager` and `ProtocolMath`, so that the two translations of one
formula, from Rust and from TypeScript, meet in every state the contracts reach.
`Indexer` INSTANCEs `ChainMirror`. `Browser` EXTENDS `Tab` EXTENDS `Streams`, and
`Desktop`.

The other boundaries are cut by nondeterminism, each in the direction that leaves
more behaviours. The position manager is answered any price of `Prices`, and roles
are constant sets for it, so whatever router and governance do is among what it is
checked against. `Vault` alone faces any position manager. The keeper faces a
market that makes any set of calls acceptable for a position (`Situations`) and tables
that lag behind it. `Streams` follows any one query whose value changes at any time.
In `Browser` the windows move only in behaviours that follow no query: they share
nothing with the queries but the fetch a window mounts, which `Streams` lets
happen at any time.

**Correspondence.** An entrypoint is one action: transactions are atomic. Its
checks are the guard, a rejected call is a step not taken, and its storage
writes are the primed variables; what a call reads first (`VaultView`) is read
from the unprimed state, exactly where the code takes its snapshot. Names follow the
source. `vault` is the record of the vault's instance storage, with `balance`
for its USDC; `shares`, `supply` are OpenZeppelin's token; `expiry` is
`LockupExpiresAt`. `positions`, `markets`, `market_pnl`, `total_pnl`,
`realized_pnl` are the position manager's storage and `pm_balance` its USDC; a
market nobody traded is absent, as in storage. `settle` gives the outcome of
`execute_close`: the vault's ledger after its calls, what leaves custody, and
whether some call on the way panics. The mark price of a call is any price of
`Prices`. Roles are constant sets of accounts: with `Pausers = {}` nobody pauses.
`claim_fees_to` and every other position manager entrypoint of the vault appear in
`PMCall`, in which the position manager may do whatever the vault accepts;
what is shown about `Vault` alone therefore depends on nothing the position
manager does.

`feed` is what the sources would answer: the own Oracle contract stamps its
reports with the ledger time, foreign feeds say what they like. `cache` and
`sources` are the router's storage per symbol; the steps of
`fetch_and_validate_price` are operators with its helpers' names. `admin` is
OpenZeppelin's admin pointer and `members` its roles; `pending`, `wasm` and
`migrating` are each contract's own storage, keyed here by contract because
`upgrade.rs` and its hooks are the same in all. Options are sets (`pending`,
`pending_admin`) or `None`.

`Keeper`: `due[p]` is the set of calls the contract accepts for `p` now, `db` the
tables as last mirrored, `todo[l]` the rest of a loop's pass; `claims` holds for each
key what is left of its time to live, so time needs no bound; `line` is the serializer's
chain, whose head is simulated, sent and confirmed or timed out (`exec`), while a sent
transaction stays in `network` until it is included or lost, whatever the executor
thinks of it. A
transaction that fails on chain makes `signAndSend` throw: so says `executor.ts:192-198` of
the contract clients, and the keeper's properties rest on it.

`Indexer`: `log` is the chain's events, a transaction of the contracts appending
several; `balance` is the USDC the vault owns, which is its `total_assets`; `db` is what is
committed, `loop` holds the cursor in memory, the page and its open transaction. A
payment (an open fee, a forfeited escrow) is a transfer without an event, then the
accrual of its slice for developers and stakers, which tells the total and is skipped when
the slice is nothing (`recv_revenue`, `accrue_fees`). A statement that the database rejects
leaves the transaction aborted until its rollback. `Streams` follows a query's value as a number that grows
with each change: in the database (`db`), on its way (`queue`, `wire`, `fetch`), in
the `cache`. `Tab`
adds the account the wallet is on, the one in view, and one
transaction with its true fate and its toast. `Desktop` keeps what the components
rendered (`ids`) apart from the browser's location and history, since a navigation is seen only
after a render. `OraclePublisher` walks the tickers as `tickOnce` does, one
submission at a time, with ages in units of the poll interval.

**History variables** influence no step (except that the counters bound the
instance): `startedAt`, `paused_at`, `billed` (when the youngest cooldown touching an
account's shares began, which seconds passed in a pause, how often each second
was billed for a market); `basis`, `dropped`, `served` (what a cached price was made
from, when a feed was removed, under which thresholds a price was last served); `offered`, `filed` (what was offered
and proposed, by whom and when); `announced` (the last `indices` event of a market);
in `Keeper` the counters of `fees` that count what happened on chain; `balance.silent` (what
came into the vault with no event since one told the total); `news` (what the
tab could know of the last change); `asked` and `overtaken` (which window the last event
asked to see, and whether it acted on an outdated view).

**Faulty variants.** Operators such as `Stale_Moved` or `Greedy_CanAccrue` stand
before the definition they are a wrong version of. Nothing uses them: exchanging
the definition for its variant shows that the property listed with it in
`PROJECT.json` does notice the mistake.

## 3. Runs

| Run (module, distinct states) | What it checks | Instance |
|---|---|---|
| `vault` (`MCVault`, 1.3 M) | `SharesAddUp`, `FeesFunded`, `QuotesExecutable`, `CooldownHonoured`, `LockupCutOnlyByOwnDeposit`, `OnlyReservingEndsSolvency`, `NoDilution` | 3 LPs (chains of transfers), a donor, any position manager; cooldown 1 or 2, 3 seconds, up to 4 USDC and 5 shares |
| `settlement` (`MCPositionManager`, 209 k) | `ReservationsMatchOpenInterest`, `LosingClosesNeverBlocked`, `PnlLedgersAgree`, `SolvencyPreserved` | 2 traders, 2 markets, both sides, 3 increases, prices 80 and 125, fee windows |
| `orders` (`MCPositionManager`, 151 k) | `CustodyExact`, `EscrowMatchesOrders`, `PartialCloseKeepsLeverage` | 1 trader, sizes 30 and 70 over collateral 40 (so slices round), prices 100 and 160, orders at 130, two execution fees |
| `mirror` (`MCMirror`, 157 k) | `LiveSecondsBilledAtMostOnce`, `ProjectionIsRefresh`, `CandidatesAreLiquidatable`, `LiquidationPriceHolds`, `QuotesAreHonoured` | 1 trader with 2 increases of size 200 on collateral 100, 4 seconds with pauses, fees unclaimed and claimed, compared at marks 82, 100, 120, slippage 5 % |
| `router` (`MCOracleRouter`, 1.05 M) | `QuorumOfDistinctFeeds`, `AnswersAreRecent`, `RemovedFeedForgotten`, `MajorityBracketsPrice`, `OnePriceASecond` | an own and two foreign feeds at 0, 100 or 104, lists with repetitions, three sets of thresholds, 3 seconds |
| `governance` (`MCGovernance`) | `OneAdmin`, `HandoverByConsent`, `TimelockHonoured` | 3 accounts, 2 hashes, a timelocked contract and the Oracle, timelocks 0, 1, 2 against a floor of 1, 4 seconds |
| `keeper` (`MCKeeper`, 41 k) | `PaysInVainOnlyAfterMove`, `DueGetsDone` | 1 position, 1 market; nothing, liquidation and order, or deleveraging due; claims of 2 and 1 ticks, a timeout of 1 tick (30 s), 2 moves of the market, 1 fault |
| `indexer` (`MCIndexer`, 492 k) | `OnlyArrivalsMissing`, `ImplementsMirror`, `CursorCatchesUp`, `LatestPriceCatchesUp` | 2 traders, 2 transactions, pages of 3 events (so a page ends inside a transaction), slices of half a payment rounded down (so one of 1 has none), 1 fault or 1 donation, 1 price move |
| `tab` (`MCTab`, 976 k) | `ToastsAreFinal`, `AskedWindowShows`, `BackUndoesOneWindow`, `HeardChangesShown`, `AccountCatchesUp` | any of 7 queries or none, a queue of 2, 3 changes and 2 that are filtered out, 1 lost connection, stream or request, 2 accounts, 1 switch, 2 windows, history of 3 |
| `publisher` (`MCOraclePublisher`, 438 k) | `RestingMarketIsPublished`, `LandsWithinReach` | 2 tickers; markets 2, 197 and 294 basis points apart around a gate of 200, a stale and a crossed book; 1 move, 2 faults |

Two runs check statements from the repository that the code does not keep:

| Run | Statement | What happens |
|---|---|---|
| `winner_exit` (`MCPositionManager`) | traders can always reduce risk (`docs/risk-parameters.md:254`) | `pay_profit` counts the closing position's own PnL against the liquidity that is to pay it |
| `bad_event` (`MCIndexer`) | a single bad event does not abort the page (`packages/indexer/src/index.ts:131-133`) | the rejected statement aborts the Postgres transaction; the cursor statement fails with it and the page is fetched for ever |

`LosingClosesNeverBlocked` has a condition, `GainWithinReservation`, which every close
of the `settlement` instance that pays nothing out fulfils; section 4 says what it is for.
`winner_exit` is stated narrowly: the vault is solvent, the position past its
lifetime and the profit no more than what is reserved for this very position.

Two properties of `mirror` are about a projection that counts unclaimed fees among the
vault's assets (`tick.ts:57`), and state what that leaves. `CandidatesAreLiquidatable` asks for
assets beside the fees: then the keeper errs late. When the LPs have left with all but
the fees, the contract's utilization is 0 and the keeper's is not, so the keeper errs early,
and the contract refuses what it sends. `LiquidationPriceHolds` bounds the error of the price
shown, which comes too late by those borrow fees that are not shown (`Unbilled`): before it, a
position lacks no more than them, and nothing when no fees are unclaimed. On the instance
positions do become liquidatable before the price shown.

`CooldownHonoured` asks that some cooldown an admin allowed has run, so a lockup recorded under
another one (a hazard of `vault/src/logic.rs:68`) is for `LockupCutOnlyByOwnDeposit`.
`HeardChangesShown` leaves out the changes notified while the broadcaster was away, and
`CursorCatchesUp` rejected statements; the hazards' notes and `bad_event` say what happens then.
`LandsWithinReach` compares with the last push the loop has recorded. The oracle may hold another
one: a push that landed while its answer was lost is not recorded, and after a
restart nothing is, so that the first price passes.

Two of the instances' ASSUMEs are checks of their own: `MCMirror` evaluates that the
keeper's trigger test and the contract's agree on every order and price
(`TriggersAgree`) and that an order the forms stage does not trigger at the price it
was checked against (`StagedOrdersWait`), `MCTab` that windows spawn on the desktop
(`SpawnsOnScreen`).

**Bounds, and why they suffice.** `MaxTime`, `MaxAssets`, `MaxShares`,
`MaxIncreases` bound the state spaces of the contracts; they appear in guards of the clock, of
what comes into the vault and of opens, never of closes, withdrawals or
releases. Scales are constants: `BPS = 100`, `INDEX_PRECISION = 100` and a
year of one second make every fee, bounty and slice a few units, so each
truncation, cap and sign occurs; the configurations satisfy `ValidConfig`, the
validators' rules scaled to `BPS`. The lockup hazards need a depositor, a carrier and a
receiver (3 LPs). The settlement hazards need two positions on the same or opposite
sides, or on two markets, and an increase of one of them (3 increases). The order
hazards need one position, since escrows of different traders share only
`pm_balance`, and two sizes whose slices do not divide. Billing needs several windows
rather than several traders, and two pauses fit into four seconds. A cached price outlives
thresholds that differ by one second in three. Three feeds are the least with a
majority that is not unanimous. A handover back to a former admin needs two
accounts, one through a third the third; a replaced, vetoed and repeated proposal
needs two hashes and four seconds.

Off chain, environment moves and faults are counted (`MaxMoves`, `MaxFaults`,
`MaxTxs`, `MaxChanges`, `MaxNoise`, `MaxMounts`, `MaxSwitches`, `MaxHides`): liveness is asked for once
the environment rests, and a second fault meets the system in a state the first
already left it in. A donation counts as a fault of the `indexer` run: when it comes does not
depend on the indexer's own. Everything the programs do themselves is unbounded, time
included. One position and one market suffice for the keeper, whose loops compete for claims
on one key and for the one chain. Two tickers suffice for the publisher: one is
submitting while the other waits. A queue of two overflows with three changes.

Symmetry is used over LPs, markets, accounts and hashes, in runs without liveness.
Deadlock is checked in every run but `tab`: a tab with nothing left to show rests.

**Fairness.** On chain nothing is fair: nobody is obliged to call. Off chain, weak
fairness is assumed of what an event loop, a timer or a retry does by
itself. `KeeperFairness`: both loops load and go through their items
(each repeats itself after a sleep, `loop.ts`), the executor's promise settles, the clock ticks,
a transaction in the network is included unless it was lost, the indexer commits; of
the market, the RPC's faults and restarts nothing. `IndexerFairness`: the process is started
again (its process manager), a page is fetched, handled and committed or rolled back,
the poller polls. `TabFairness`: `EventSource` and broadcaster reconnect, pending
requests are answered or fail, notifications and queued events are delivered, the
wallet and the transaction are polled and polling gives up in time. `PublisherFairness`:
the loop polls, a submission is confirmed or fails, a sent transaction is
included. Weak fairness is enough everywhere.

**Divergences met while modelling**, without a run of their own.

*Contracts.* Withdrawals pay the raw rate and are only capped by free liquidity, where
`vault/src/contract.rs:72` calls the payout always LP-fair. `calc_utilization_bps`
answers 0 on an empty basis (`math.rs:203`), so once the LPs have left with everything but the
fees an open may reserve those, where `test-suites`' `invariants.rs:83-84` says
reservations and fees are covered. When a liquidation leaves the trader a payout, `close.rs:396`
slices all fees although the bounty was paid first, where `CONTEXT.md:78` says a
bounty is never paid from LP capital. `unpause` does not clear `last_pause_time`, where
`position-manager/src/storage.rs:34` says it does. A market nobody touches during a
pause is not billed for the live seconds between its last update and the pause
either, where `Readme.md:107` and `position-manager/src/contract.rs:169` exempt
paused time only. A report may be as old as `staleness_threshold` when it is
fetched and is then cached for `cache_duration` more, where
`oracle-router/src/logic.rs:115` says a cached value never outlives its source's
window (`AnswersAlwaysRecent` proves the bound that does hold). One source with a
deviating price stops every fetch, where `Readme.md:152` rules out single points of
failure. The Oracle contract is upgraded at once, where `docs/for-dummies.md:52` says
the upgrader is subject to a timelock.

*Keeper and off-chain math.* The projection's utilization is taken over `total_assets`
with unclaimed fees in it (`tick.ts:57`), where `tick.ts:5-8` says it matches a refresh;
the borrow rate comes out too low and the keeper errs late (`CandidatesAreLiquidatable`;
early in a vault that has nothing but fees). For the same reason a position can be liquidated
before the price that `eval.ts:64` calls the one "where the position liquidates right now"
(`LiquidationPriceHolds` bounds by how much). The projection also ignores a pause that is still running. A market row
is 0/0 until its first `indices` event. An in-flight claim may expire while
its submission still waits in the chain, where `dedup.ts:5-7` speaks of work in
flight; simulation and the contract reject the second attempt.

*Indexer.* The comment of `accrue_fees` (`vault/src/contract.rs:363-367`) has the indexer told of
every payment by the accrual, which `revenue.rs:61` skips when the slice is nothing; USDC sent
to the vault is told by nothing either. The `total_assets` of `/vault` is then behind the
vault's, where `docs/qa/test-cases.md:66-67` says they match, until another event tells the total
(`OnlyArrivalsMissing`). A COMMIT whose acknowledgement is lost makes the page be handled again, so that columns kept
as running sums are doubled. The advisory lock belongs to one connection of a pool
(`index.ts:27-34`). `parseEvent` throws on an event without topics, outside the
handlers' `try`.

*API and frontend.* The `vault` event overwrites the cache with a row that has no
`last_unpause_time` (`rest.ts:65-76`). The `resync` event sent after an outage has no
listener (`sse-stream.ts:77-80`, `broadcaster.ts:105-106`), and the filters of
`/markets` and `/trades` drop it; a tab then shows the old value until the next change it hears of.
A refetch answered before a change, but settling after the change's event has
patched the cache, overwrites the newer data. A full queue crowds out quiet
rows. A subscription aborted while it is being set up leaves its subscriber
(`sse-stream.ts:56-73`). A patch of the prices before their first load is lost.
`TpSlEditor.tsx:20-24` and `OrderForm.tsx:325` claim to mirror `validate_tp_sl`, which
only rejects negative values (`tp_sl.rs:52-60`); the editor compares with the entry
price, not the mark. The MAX claim of `VaultActions.tsx:77-82` can fail by dust;
`usePositionActions.ts:8-9` closes with the size of a stale row; the order form displays the capped and submits
the uncapped leverage. A network error while submitting shows "failed" though the
transaction may land; an answer DUPLICATE, of a transaction that the network has already, shows
"rejected" (`sender.ts:63`, `toast.ts:77`) though it may land too, the one exception to
`ToastsAreFinal`; and a transaction built for one account can be signed by
another after a switch. `contract-errors.ts:1-12` says its tables are kept in sync, but the vault's 11-16,
the router's 9-14 and the config manager's from 6 on are missing. Saved window geometry
is not clamped again; two window operations before a navigation is rendered both act
on the old windows. The leaderboard is cut by realized PnL on the server
before open positions are added in the client. The e2e specs describe pages that no longer exist.

*Publishers.* `ORACLE_MAX_PUSHES_PER_MINUTE` and `ORACLE_CONFIRMING_SAMPLES`
(`packages/config/constants.ts:38-44`) are used nowhere. The first price after a start
passes the gate unchecked. A price is stamped when it lands, so a late inclusion makes an
old observation look fresh.

## 4. Proofs

`PositionManagerProofs`, first part: the vault, for every set of LPs, all amounts,
cooldowns and scales, and for every position manager:

| Theorem | Property |
|---|---|
| `VaultAlwaysInv` | `VaultSpec => []VaultInv` |
| `VaultTyped` | `[]VaultTypeOK` |
| `SharesAlwaysAddUp` | `[]SharesAddUp` |
| `FeesAlwaysFunded` | `[]FeesFunded` |
| `QuotesAlwaysExecutable` | `[]QuotesExecutable` |
| `CooldownAlwaysHonoured` | `CooldownHonoured` |
| `LockupCutOnlyByDepositor` | `LockupCutOnlyByOwnDeposit` |
| `SolvencyEndsOnlyByReserving` | `OnlyReservingEndsSolvency` |
| `RoundingFavoursVault` | `NoDilution` |

Second part: the position manager, for all traders, markets, prices, sizes and valid
configurations:

| Theorem | Property |
|---|---|
| `PMAlwaysInv` | `Spec => []PMInv` |
| `PMTyped` | `[]PMTypeOK` |
| `CustodyAlwaysExact` | `[]CustodyExact` |
| `ReservationsAlwaysMatch` | `[]ReservationsMatchOpenInterest` |
| `EscrowAlwaysMatchesOrders` | `[]EscrowMatchesOrders` |
| `SecondsBilledAtMostOnce` | `[]LiveSecondsBilledAtMostOnce` |
| `SolvencyAlwaysPreserved` | `SolvencyPreserved` |
| `PartialClosesKeepLeverage` | `PartialCloseKeepsLeverage` |
| `PnlLedgersAlwaysAgree` | `[]PnlLedgersAgree` |
| `LosingClosesAlwaysGoThrough` | `[]LosingClosesNeverBlocked` |
| `VaultStaysSound` | `[](SharesAddUp /\ FeesFunded)` under this position manager |

`MirrorProofs`, for the same and all marks and slippages:

| Theorem | Property |
|---|---|
| `MirrorAlwaysInv` | `MirrorSpec => []MirrorInv` |
| `ProjectionAlwaysRefresh` | `[]ProjectionIsRefresh` |
| `CandidatesAlwaysLiquidatable` | `[]CandidatesAreLiquidatable` |
| `LiquidationPriceAlwaysHolds` | `[]LiquidationPriceHolds` |
| `QuotesAlwaysHonoured` | `[]QuotesAreHonoured` |

`OracleProofs`, for all feeds, prices, thresholds and lists of sources:
`RouterAlwaysInv` (`[]RouterInv`), `AnswersAlwaysRecent` (`[]AnswersAreRecent`),
`RemovedFeedAlwaysForgotten` (`[]RemovedFeedForgotten`), `OnePriceEverySecond`
(`OnePriceASecond`), `QuorumAlwaysDistinct` (`[]QuorumOfDistinctFeeds`),
`MajorityAlwaysBracketsPrice` (`[]MajorityBracketsPrice`); and for all tickers, books and
policies of the publishers `PublisherAlwaysInv`, `AlwaysLandsWithinReach` (`LandsWithinReach`).

`IndexerProofs`, for all traders, page sizes, numbers of transactions, donations and faults, and
every set of rejected statements: `IndexerAlwaysInv`, `OnlyArrivalsAlwaysMissing`
(`[]OnlyArrivalsMissing`), and the refinement `IndexerImplementsMirror` (`IndexerSpec =>
ImplementsMirror`).

`GovernanceProofs`, for all accounts, contracts, code and timelocks: `GovAlwaysInv`,
`GovTyped`, `AlwaysOneAdmin` (`[]OneAdmin`), `HandoverAlwaysByConsent`
(`HandoverByConsent`), `TimelockAlwaysHonoured` (`TimelockHonoured`).

`KeeperProofs`, for all positions, markets, situations, times to live and numbers of
faults: `KeeperAlwaysInv`, `NeverPaysInVain` (`[]PaysInVainOnlyAfterMove`),
`LoggedFeesAlwaysCharged` (`[]LoggedFeesWereCharged`). `TabProofs`, for all accounts,
streams, windows and lengths of the history, in the behaviours of the whole browser:
`TabAlwaysInv`, `ToastsAlwaysFinal` (`[]ToastsAreFinal`), `DesktopAlwaysInv`,
`AskedWindowAlwaysShows` (`[]AskedWindowShows`), `BackAlwaysUndoesOneWindow`
(`[]BackUndoesOneWindow`).

**Assumptions.** The named assumptions of the modules: amounts, cooldowns, bounds,
thresholds, timestamps and timelocks are naturals, the scales and the virtual shares positive
(`VaultAssumption`, `ScaleAssumption`, `RouterAssumption`), the default timelock is not
below the floor (`GovernanceAssumption`), every configuration is one the validators
accept (`PositionManagerAssumption`), times to live and policies have their types and
ranges (`KeeperAssumption`, `StreamsAssumption`, `TabAssumption`,
`PublisherAssumption`, `IndexerAssumption`), the windows of markets and of apps are
distinct and none of them is what a link holds besides (`DesktopAssumption`). TLC evaluates each in every run of its module. There are
finitely many markets (`PositionManagerAssumption`: `total_pnl` is a sum over all of them). `LPs` and
`Traders` are not assumed finite: shares are counted as the finite set `Units(shares)`, one
element per share, and reservations, open interest and custody likewise.

**Argument, vault.** `VaultInv` strengthens the checked invariants by three parts.
`IsFiniteSet(Units(shares))` lets a transfer or a deposit be a change of
cardinality (`UnitsGrow`, `UnitsShrink`). `StartRecorded` says the history is
kept for whoever holds shares, and `CooldownCovered` that some admissible
cooldown counted from there ends by the account's expiry or has ended already:
an account that was idle may be given a fresh lockup-free balance, and it is
the alternative `now` in `Greatest(now, expiry[u])` that makes the part
inductive under transfers and later changes of the cooldown. `VaultTypeOK`
rests on `FeesFunded`: `claim_fees` subtracts fees from the balance. The
conversions enter through three lemmas: the quotient lemma `QuotientBounds`,
and what it says of the four conversions (`ConversionsTyped`,
`ConversionsRound`); `FreeLiquidityBound` is all that `free_liquidity` is used for.
`VaultStepInv` has one step per group of actions; the action properties follow
from `VaultInv` and the step. Quotes need one more fact of division, `QuotientAtMost`: a quotient,
rounded down or up, is at most what its dividend is a multiple of at most.

**Argument, position manager.** `PMInv` joins to `VaultInv` the type invariant, that
only finitely many positions hold anything (`FinitelyMany`), the three books
(`CustodyExact`, `ReservationsMatchOpenInterest`, `EscrowMatchesOrders`), and for the
billing `LiveSecondsBilledAtMostOnce` with two facts about clocks: nothing is billed
beyond a market's last update (`BilledBeforeUpdate`), and pauses lie behind the
clamps a later window starts from (`PausesBehindClamps`). The books are
totals over positions, and a call changes one position, so each is kept by counting
units: `TotalChange` and `SumsChange` say how a total moves with one summand, and
`BooksStayExact` applies them to a position that is replaced while reservation, open
interest and custody move by the same differences. `SettleKeepsFunded` follows the
vault's ledger through the calls of a close and shows the fees funded after each;
`GateKeepsReserveCovered` shows what the utilization gate leaves of the free
liquidity, which is why solvency ends by no trade while the basis is positive. There is one lemma for each group of
actions (`IncreaseInv`, `CloseInv`, `SetTpSlInv`, `UpdateIndicesInv`, `AdminInv`,
`SecondPassesInv`, `VaultStepKeepsBooks`), joined in `PMStepInv`. `PnlInv` is inductive beside
`PMInv`: the three ledgers agree, and a market without open interest holds no PnL
(`IdleMarketsHoldNoPnl`), so that the first refresh of a market adds all it finds.

`LosingClosesNeverBlocked` follows from `PMInv`. The books give that a position's size is
part of the reservation and its collateral and escrow part of the custody
(`SummandWithinTotal`); `SettleGoesThrough` does the rest of the close. Its
condition `GainWithinReservation` was found by a failed proof and is needed (a price that quadruples, fees
of several times the size and an LP who has withdrawn what is free violate the property without it): fees
come out of collateral and gain, and a gain eaten by fees never entered the vault. So a
position that gained several times its size, and owes as much in fees, can have a fee slice
larger than what the close brings and releases, and `accrue_fees` rejects the close. On the instance of
`settlement` the condition excludes no close.

**Argument, folds.** `total_pnl`, the fetch pipeline's lists and the vault's totals are folds.
A fold over a finite set is, by its definition, a function on the subsets with a recursion equation,
so `Induction` proves that such a function exists (`SubsetRecursion`, `FoldExists`; the induction
over intervals and subsets behind them, `IntervalInduction` and `SubsetInduction`, quantifies over sets in place of
predicates and rests on the well-foundedness of strict inclusion among finite sets) and what every user needs of it: a sum moves with one summand
(`SumChanges`), a fold over a sequence has its prefixes' values (`FoldHasPrefixes`).

**Argument, mirror.** `MirrorInv` adds to `PMInv` that only markets that exist are announced and
that every position was opened at a positive price (`EntriesPriced`). The two translations meet
in `FormulasAgree` and `BorrowRatesAgree`, which differ in where they round, and `ProjectedMarket` makes the
projection a refresh. With unclaimed fees, and a positive basis, the utilization the keeper computes is lower:
`RateFallsWithAssets`, `IndexGrowsWithRate`, `FeeGrowsWithIndex` carry this to the
margin, so a candidate is liquidatable. What a position lacks by the contract's market is what it
lacks by the projected one plus `Unbilled`; the rest of `LiquidationPriceAlwaysHolds` and `QuotesAlwaysHonoured` invert
the PnL formula (`PnlAtPrice`, `QuotedPriceHolds`). Their exceptions were
found by failed proofs and are real: a position that fees alone would liquidate is
lost exactly at the price shown, since that price is then rounded the other way; and a withdrawal
picked by percentage may miss by the virtual shares when fewer than three times as
many are held.

**Argument, router.** Two facts about the entry and one about the second make
`RouterInv` inductive: the entry's reports were fresh, by the thresholds of the
fetch, when it was made (`EntryFromFreshReports`); a feed behind it that is no
source was removed after that (`EntryOlderThanRemoval`); and whatever answered in
this second would still answer under the same thresholds (`ServedStillCached`),
which is why no second fetch can follow under them. The lemma
`FetchMakesFreshEntry` collects what a miss does. For the quorum and the median, the list asked
has every feed once (`QueryAsksEachOnce`), the insertion sort returns the same reports in order
(`SortSorts`), so a majority of feeds puts one at or below the median and one at or above it
(`MedianIsBracketed`).

**Argument, indexer.** `IndexerInv` says of the log that the handlers understand it: run one
after the other over the first n events they give `RowsAfter(n)`, which at the end of
every transaction are the rows that show the contracts as told (`LogUnderstood`); of the
vault's money that what is told is what it owns less what came in silently
(`MoneyAccounted`); of the tables
that they are `RowsAfter(db.cursor)` (`TablesAtCursor`); and of a page in hand that its
rows are `RowsAfter` its end (`PageInHand`). A page's handlers are a fold, and
`HandlingResumes` lets a fold be interrupted anywhere, so the ends of the pages do not matter. There is a
lemma per kind of event: handled on rows that show the contracts in state c, it leaves
rows that show them in a state d (`Turns`), and the lemmas for one to four events
(`PlaysOne`, ..., `PlaysFour`) join them to what a transaction says of itself. It takes that open interest is the sum
of the positions (`Sound`), since the indexer sums up what the contracts keep as a
number. `StepMirrors` maps a transaction to `ChainGrows`, a commit to `Advance`, and
every other step, crashes, rollbacks and the poller's included, to a stutter.

**Argument, governance.** `GovInv` adds to the properties that a pending offer is
recorded as one of the admin in office (`OfferRecorded`), and a pending upgrade as
filed, dated by the timelock of its filing, which was not below the floor
(`ProposalRecorded`). `GovTypeOK` contributes the floor.

**Argument, keeper, tab, publisher.** What was simulated is still acceptable, on its
way too, unless the market or another transaction came in between
(`SimulatedIsAccepted`); only the head of the chain is worked on (`WorksOnHead`); an answer
of success is a charge that is not logged yet (`ChargedBeforeLogged`). In `TabInv`
nothing has a fate on the ledger that was not sent (`SentBeforeFate`) and nothing is said before the
submission is over (`OverBeforeToast`). The publisher has nothing pending when a push is recorded
(`NothingPendingAtRecord`), and what is pending is within reach of the last record
(`PendingWithinReach`), so that a late inclusion follows the price it was gated against.

**Argument, windows.** `AskedWindowShows` speaks of the windows the components have
rendered, and is not inductive: a navigation changes the link and the rendering
follows. `AskedOnTop` says it of the link, rendered or not (`FocusedIsOnTop` brings it
back to the screen), and holds while the event that asked is the last one. `DesktopInv`
joins to it that a link has no window twice: without that, taking the raised
window out and appending it would change which windows there are. Filters are folds, `Only`;
`OnlyIsBuiltUp` gives their prefixes, and from it follow what a filter keeps, leaves
alone and does to an appended list (`OnlyKeeps`, `OnlySame`, `OnlyAppend`). `NavigateKeeps` and
`RaiseKeeps` do the history: a navigation cuts what lay ahead and appends one
entry, a raise replaces the current one by a list of the same windows, so no
neighbour's difference moves.

**Only proved.** That the keeper logs no fee that was not charged
(`LoggedFeesAlwaysCharged`) is local to its executor and has no run.

**Only model-checked.** Liveness (`DueGetsDone`, `CursorCatchesUp`,
`LatestPriceCatchesUp`, `HeardChangesShown`, `AccountCatchesUp`,
`RestingMarketIsPublished`) is out of the prover's reach. The type
invariants that no run lists (`KeeperTypeOK`, `RouterTypeOK`, ...) are there for the
reader and the proofs.

## 5. Not modelled

- *i128 overflow and the real scales.* TLC's integers have 32 bits; the models'
  are unbounded.
- *Storage archival* (`bump_position`, TTL extension), share allowances, and
  traders' own USDC (a transfer from a trader succeeds whenever the rest does).
- *USDC sent to the position manager's address*: `CustodyExact` would become a
  lower bound. Donations to the vault are modelled (`ReceiveUsdc`).
- *What an upgrade does to storage*: `_migrate` writes a version and, in the position
  manager, a pause time when paused without one, which no reachable state is.
- *Several symbols in the router*: they share the thresholds, and nothing else.
- *Sums over all past settlements*: that funding receipts never exceed funding
  payments over a sequence of closes, how far the truncated market average drifts from
  the positions, and how fresh the ADL trigger is. They need histories that
  multiply the states beyond what a run can hold.
- *Wire formats*: XDR decoding, the exchanges' JSON, SQL column types and migrations.
- *Generated bindings and contract clients* (over 5000 lines), the *simulation* (a
  load generator), *mocks and tests*: no logic of the protocol.
- *Presentation*: React pages, charts, formatting, styling; logging, alerts and metrics.
- `LogOff`'s `requestLogon` is made together with the refresh; the effect is the same.

## 6. What is left

1. Abstract specifications of what exists: share lots that carry their own lockups,
   refined by `Vault`; custody accounts per position, refined by `PositionManager`.
2. A bound on funding over a sequence of closes, and on the drift of the market
   average, on an instance of their own with little else in it.

## 7. Running

    tlc -workers 2 -config MCSettlement.cfg MCPositionManager.tla
    tlc -workers 2 -config MCKeeper.cfg MCKeeper.tla
    tlapm PositionManagerProofs.tla

`PROJECT.json` lists every run with its module and configuration, what each
definition models (`map`), the hazards and the findings.
