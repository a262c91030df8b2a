------------------------------- MODULE Indexer -------------------------------
(***************************************************************************)
(* The indexer (packages/indexer) over the database schema (packages/db):  *)
(* the loop that fetches a page of contract events, runs the handlers and  *)
(* moves the cursor in one transaction, and the poller that records the    *)
(* oracle router's price beside it.                                        *)
(*                                                                         *)
(* The contracts are reduced to what their events carry (events.rs of each *)
(* contract): amounts are small, a market has one side.  What the columns  *)
(* mean is in Vault and PositionManager; here they only have to arrive.    *)
(* Not all the USDC that comes into the vault is told by an event.         *)
(***************************************************************************)
EXTENDS Integers, Sequences, SequencesExt, Functions

CONSTANTS
  Traders,
  Prices,        \* what the oracle router's median can be
  PageSize,      \* events the RPC node returns at most
  MaxTxs,        \* bound: transactions of the contracts
  MaxPriceMoves, \* bound: changes of the median
  MaxFaults,     \* bound: faults, and gifts to the vault
  Rejected       \* names of events whose statements the database rejects

ASSUME IndexerAssumption ==
  /\ Prices \subseteq Nat \ {0} /\ Prices # {}
  /\ PageSize \in Nat \ {0}
  /\ {MaxTxs, MaxPriceMoves, MaxFaults} \subseteq Nat

VARIABLES
  log,       \* the event stream
  balance,   \* [usdc, silent]: what the vault owns (its total_assets), and, a
             \* history no contract keeps, what of it came in with no event
             \* since one last told the total
  router,    \* [price, moves] of the oracle router
  db,        \* committed: mirror rows, append-only rows, cursor, latest price
  loop,      \* the event loop: phase, cursor in memory, page end, transaction
  poller,    \* the poller: what it has simulated and decided
  faults

vars == <<log, balance, router, db, loop, poller, faults>>

-----------------------------------------------------------------------------
(* The contracts, as far as their events show them.                        *)

NoVault == [total_assets |-> 0, total_shares |-> 0, reserved_usdc |-> 0,
            unclaimed_fees |-> 0, net_pnl |-> 0, is_paused |-> FALSE]
NoMarket == [acc_index |-> 0, max_leverage |-> 0, unrealized_pnl |-> 0]

ConfigGroups == {"feecfg", "feecnf", "limits", "rates"}
NoConfig == [group \in ConfigGroups |-> 0]

NoChain == [vault |-> NoVault, positions |-> <<>>, open_interest |-> 0, market |-> NoMarket,
            config |-> NoConfig, unpaused |-> 0, lockup |-> 0]

\* Vault::free_liquidity.
free_liquidity(v) ==
  LET raw == v.total_assets - v.reserved_usdc - v.unclaimed_fees
               - (IF v.net_pnl > 0 THEN v.net_pnl ELSE 0)
  IN  IF raw > 0 THEN raw ELSE 0

\* The mirror rows that say the same as contracts in state c.
Faithful(c) == [field \in DOMAIN c \cup {"free"} |->
                  IF field = "free" THEN free_liquidity(c.vault) ELSE c[field]]

\* The contracts as their events tell them; total_assets is the figure last told,
\* less the fees claimed since.
chain == IF log = <<>> THEN NoChain ELSE Last(log).chain

Ev(name, key, value) == [name |-> name, key |-> key, value |-> value]

\* Events a row is kept of for good: trades, vault, fee, pause and role events.
Recording == {"increase", "decrease", "liq", "exec_ord", "adl", "deposit", "withdraw", "transfer",
              "pay_profit", "absorbed", "fees", "claim", "claim_to", "pause", "pm_pause", "role"}

\* The transaction that brings the contracts to state c and the vault's balance
\* to b by emitting evs.
Logged(c, evs, b) ==
  [i \in DOMAIN evs |->
    [name |-> evs[i].name, key |-> evs[i].key, value |-> evs[i].value, chain |-> c, balance |-> b,
     closes |-> i = Len(evs), after |-> Faithful(c), recorded |-> evs[i].name \in Recording]]
Emits(c, evs, b) == balance' = b /\ log' = log \o Logged(c, evs, b)

Vaulted(v) == [chain EXCEPT !.vault = v]
V == chain.vault

\* USDC moves, and an event tells what the vault owns then ...
Counted(n) == [usdc |-> balance.usdc + n, silent |-> 0]
\* ... or the fees claimed and taken ...
Paid(n) == [balance EXCEPT !.usdc = @ - n]
\* ... or nothing at all.
Untold(b, n) == [usdc |-> b.usdc + n, silent |-> b.silent + n]
AsTold(b) == b.usdc - b.silent

\* Deposits, withdrawals, transfers of shares and both kinds of claim.
LPTransacts ==
  \/ LET v == [V EXCEPT !.total_assets = AsTold(Counted(1)), !.total_shares = @ + 1]
     IN  Emits([Vaulted(v) EXCEPT !.lockup = @ + 1],
               <<Ev("lockup", "", chain.lockup + 1), Ev("deposit", "", 1),
                 Ev("total", "", v.total_assets)>>, Counted(1))
  \/ /\ V.total_shares > 0 /\ balance.usdc > 0
     /\ \/ LET v == [V EXCEPT !.total_assets = AsTold(Counted(-1)), !.total_shares = @ - 1]
           IN  Emits(Vaulted(v), <<Ev("withdraw", "", 1), Ev("total", "", v.total_assets)>>,
                     Counted(-1))
        \/ Emits(chain, <<Ev("transfer", "", 1)>>, balance)

FeesClaimed ==
  /\ V.unclaimed_fees > 0
  /\ \/ Emits(Vaulted([V EXCEPT !.total_assets = @ - V.unclaimed_fees, !.unclaimed_fees = 0]),
              <<Ev("claim", "", V.unclaimed_fees)>>, Paid(V.unclaimed_fees))
     \/ Emits(Vaulted([V EXCEPT !.total_assets = @ - 1, !.unclaimed_fees = @ - 1]),
              <<Ev("claim_to", V.unclaimed_fees - 1, 1)>>, Paid(1))

\* accrue_non_lp_slice: half of a payment is for the developers and the stakers,
\* rounded down.
non_lp(amount) == amount \div 2

\* recv_revenue: the payment is transferred, which no event of the vault tells,
\* and the slice is accrued, which tells it, when it is not nothing.
recv_revenue(b, amount) ==
  IF non_lp(amount) > 0 THEN [usdc |-> b.usdc + amount, silent |-> 0] ELSE Untold(b, amount)
accrue_fees(v, amount) ==
  IF non_lp(amount) > 0
  THEN <<Ev("fees", "", v.unclaimed_fees), Ev("total", "", v.total_assets)>>
  ELSE <<>>

SizeOf(t) == IF t \in DOMAIN chain.positions THEN chain.positions[t].size ELSE 0

\* Row t, replaced or added.
Put(rows, t, row) == [x \in DOMAIN rows \cup {t} |-> IF x = t THEN row ELSE rows[x]]
Holding(t, row) == Put(chain.positions, t, row)

\* An increase pays a fee of its size, may ask for orders, and reserves its size.
Increased(t) ==
  \E size \in {1, 2}, asked \in BOOLEAN :
    LET b == recv_revenue(balance, size)
        v == [V EXCEPT !.total_assets = AsTold(b), !.unclaimed_fees = @ + non_lp(size),
                       !.reserved_usdc = @ + size]
        row == [size |-> SizeOf(t) + size,
                orders |-> asked \/ (SizeOf(t) > 0 /\ chain.positions[t].orders)]
    IN  Emits([chain EXCEPT !.vault = v, !.open_interest = @ + size, !.positions = Holding(t, row)],
              accrue_fees(v, size) \o <<Ev("reserve", "", v.reserved_usdc), Ev("increase", t, row)>>,
              b)

\* A partial close at a loss of 1 ...
Decreased(t) ==
  /\ SizeOf(t) > 1
  /\ LET v == [V EXCEPT !.total_assets = AsTold(Counted(1)), !.reserved_usdc = @ - 1]
     IN  Emits([chain EXCEPT !.vault = v, !.open_interest = @ - 1, !.positions[t].size = @ - 1],
               <<Ev("release", "", v.reserved_usdc), Ev("absorbed", "", v.total_assets),
                 Ev("decrease", t, SizeOf(t) - 1)>>, Counted(1))

\* settle_on_close: what a liquidation forfeits of the execution fees of orders.
Forfeits(t, kind) == IF kind = "liq" /\ chain.positions[t].orders THEN 0..2 ELSE {0}

\* ... and every kind of full one, by a profit or a loss of 1.
Closed(t) ==
  /\ SizeOf(t) > 0
  /\ \E kind \in {"decrease", "liq", "exec_ord", "adl"} : \E escrow \in Forfeits(t, kind) :
       LET gain == IF kind \in {"exec_ord", "adl"} THEN 1 ELSE -1
           b == recv_revenue(Counted(-gain), escrow)
           v == [V EXCEPT !.total_assets = AsTold(b), !.unclaimed_fees = @ + non_lp(escrow),
                          !.reserved_usdc = @ - SizeOf(t), !.net_pnl = 0]
       IN  /\ balance.usdc >= gain
           /\ Emits([chain EXCEPT !.vault = v, !.open_interest = @ - SizeOf(t),
                                  !.positions = Restrict(@, DOMAIN @ \ {t})],
                    <<Ev("release", "", v.reserved_usdc),
                      Ev(IF gain > 0 THEN "pay_profit" ELSE "absorbed", "", Counted(-gain).usdc)>>
                      \o accrue_fees(v, escrow) \o <<Ev("net_pnl", "", 0), Ev(kind, t, 0)>>, b)

OrderSet(t) ==
  /\ SizeOf(t) > 0
  /\ Emits([chain EXCEPT !.positions[t].orders = ~@],
           <<Ev("tp_sl", t, ~chain.positions[t].orders)>>, balance)

IndicesUpdated ==
  Emits([chain EXCEPT !.market.acc_index = @ + 1, !.market.unrealized_pnl = 1, !.vault.net_pnl = 1],
        <<Ev("indices", "", chain.market.acc_index + 1), Ev("mkt_pnl", "", 1), Ev("net_pnl", "", 1)>>,
        balance)

\* The position manager's unpause is told apart from its pause by its time.
Administered ==
  \/ \E group \in ConfigGroups :
       Emits([chain EXCEPT !.config[group] = 1], <<Ev(group, "", 1)>>, balance)
  \/ Emits([chain EXCEPT !.market.max_leverage = 1], <<Ev("max_lev", "", 1)>>, balance)
  \/ Emits([chain EXCEPT !.vault.is_paused = ~@], <<Ev("pause", "", ~V.is_paused)>>, balance)
  \/ Emits(chain, <<Ev("pm_pause", "", 0)>>, balance)
  \/ Emits([chain EXCEPT !.unpaused = Len(log) + 1], <<Ev("pm_pause", "", Len(log) + 1)>>, balance)

\* get_price called in a transaction, a role, and an event no specification knows.
Other == \E name \in {"price", "role", "unknown"} : Emits(chain, <<Ev(name, "", router.price)>>, balance)

Transactions == Len(SelectSeq(log, LAMBDA e : e.closes))

Transaction ==
  /\ Transactions < MaxTxs
  /\ \/ LPTransacts \/ FeesClaimed \/ IndicesUpdated \/ Administered \/ Other
     \/ \E t \in Traders : Increased(t) \/ Decreased(t) \/ Closed(t) \/ OrderSet(t)
  /\ UNCHANGED <<router, db, loop, poller, faults>>

Faulted == faults < MaxFaults /\ faults' = faults + 1

\* Anyone may send the vault USDC, which the vault does not notice.
Donated ==
  /\ Faulted
  /\ balance' = Untold(balance, 1)
  /\ UNCHANGED <<log, router, db, loop, poller>>

PriceMoves ==
  /\ router.moves < MaxPriceMoves
  /\ \E p \in Prices \ {router.price} : router' = [price |-> p, moves |-> router.moves + 1]
  /\ UNCHANGED <<log, balance, db, loop, poller, faults>>

-----------------------------------------------------------------------------
(* The handlers (handlers/*.ts): one event on the mirror rows.             *)

Sizes(positions) == [t \in DOMAIN positions |-> positions[t].size]
refreshMarketAggregates(r) == [r EXCEPT !.open_interest = FoldFunction(+, 0, Sizes(r.positions))]

\* An update of a row that is not there changes nothing.
UpdateRow(r, t, column, value) ==
  IF t \in DOMAIN r.positions THEN [r EXCEPT !.positions[t][column] = value] ELSE r
DeleteRow(r, t) == [r EXCEPT !.positions = Restrict(@, DOMAIN @ \ {t})]

handleIncrease(r, e) == refreshMarketAggregates([r EXCEPT !.positions = Put(@, e.key, e.value)])
handleDecrease(r, e) ==
  refreshMarketAggregates(IF e.value = 0 THEN DeleteRow(r, e.key)
                          ELSE UpdateRow(r, e.key, "size", e.value))
\* handleLiquidation, handleExecuteOrder and handleAdl.
handleForcedClose(r, e) == refreshMarketAggregates(DeleteRow(r, e.key))
handleTpSl(r, e)        == UpdateRow(r, e.key, "orders", e.value)
handleIndices(r, e)     == [r EXCEPT !.market.acc_index = e.value]
handleMaxLeverage(r, e) == [r EXCEPT !.market.max_leverage = e.value]
handleMarketPnl(r, e)   == [r EXCEPT !.market.unrealized_pnl = e.value]
\* Only the last unpause is a column.
handlePmPause(r, e)     == IF e.value = 0 THEN r ELSE [r EXCEPT !.unpaused = e.value]

handlePositionManagerEvent(r, e) ==
  CASE e.name = "increase" -> handleIncrease(r, e)
    [] e.name = "decrease" -> handleDecrease(r, e)
    [] e.name \in {"liq", "exec_ord", "adl"} -> handleForcedClose(r, e)
    [] e.name = "tp_sl" -> handleTpSl(r, e)
    [] e.name = "indices" -> handleIndices(r, e)
    [] e.name = "max_lev" -> handleMaxLeverage(r, e)
    [] e.name = "mkt_pnl" -> handleMarketPnl(r, e)
    [] e.name = "pm_pause" -> handlePmPause(r, e)

recomputeFreeLiquidity(r) == [r EXCEPT !.free = free_liquidity(r.vault)]

\* Most events carry the new value of a column; shares and claims a change.
handleDeposit(r, e)  == recomputeFreeLiquidity([r EXCEPT !.vault.total_shares = @ + e.value])
handleWithdraw(r, e) == recomputeFreeLiquidity([r EXCEPT !.vault.total_shares = @ - e.value])
\* Faulty: the free liquidity is left as it was.
Stale_handleNewTotalAssets(r, e) == [r EXCEPT !.vault.total_assets = e.value]
\* handleAbsorbedCollateral, handlePayProfit and handleTotalAssetsUpdate.
handleNewTotalAssets(r, e) == recomputeFreeLiquidity([r EXCEPT !.vault.total_assets = e.value])
\* handleReserve and handleRelease.
handleNewReserved(r, e) == recomputeFreeLiquidity([r EXCEPT !.vault.reserved_usdc = e.value])
handleAccrueFees(r, e)  == recomputeFreeLiquidity([r EXCEPT !.vault.unclaimed_fees = e.value])
\* Faulty: total_assets is left alone.
Undebited_handleClaimFees(r, e) == recomputeFreeLiquidity([r EXCEPT !.vault.unclaimed_fees = 0])
handleClaimFees(r, e) ==
  recomputeFreeLiquidity([r EXCEPT !.vault.unclaimed_fees = 0, !.vault.total_assets = @ - e.value])
handleClaimFeesTo(r, e) ==
  recomputeFreeLiquidity([r EXCEPT !.vault.unclaimed_fees = e.key,
                                   !.vault.total_assets = @ - e.value])
handleNetPnl(r, e) == recomputeFreeLiquidity([r EXCEPT !.vault.net_pnl = e.value])
handlePause(r, e)  == [r EXCEPT !.vault.is_paused = e.value]
handleLockup(r, e) == [r EXCEPT !.lockup = e.value]
\* lp_transfers is a history only.
handleTransfer(r, e) == r

handleVaultEvent(r, e) ==
  CASE e.name = "deposit"  -> handleDeposit(r, e)
    [] e.name = "withdraw" -> handleWithdraw(r, e)
    [] e.name = "transfer" -> handleTransfer(r, e)
    [] e.name \in {"total", "pay_profit", "absorbed"} -> handleNewTotalAssets(r, e)
    [] e.name \in {"reserve", "release"} -> handleNewReserved(r, e)
    [] e.name = "fees"     -> handleAccrueFees(r, e)
    [] e.name = "claim"    -> handleClaimFees(r, e)
    [] e.name = "claim_to" -> handleClaimFeesTo(r, e)
    [] e.name = "net_pnl"  -> handleNetPnl(r, e)
    [] e.name = "pause"    -> handlePause(r, e)
    [] e.name = "lockup"   -> handleLockup(r, e)

\* Each group of parameters has its event.
handleConfigManagerEvent(r, e) == [r EXCEPT !.config[e.name] = e.value]

PMEvents == {"increase", "decrease", "liq", "exec_ord", "adl", "tp_sl", "indices",
             "max_lev", "mkt_pnl", "pm_pause"}
VaultEvents == {"deposit", "withdraw", "transfer", "total", "pay_profit", "absorbed", "reserve",
                "release", "fees", "claim", "claim_to", "net_pnl", "pause", "lockup"}

\* parseEvent: an event the specifications of the contracts do not name has no
\* handler; it is logged and skipped.
Parsed(e) == e.name # "unknown"

\* buildRoutes.
Routed(r, e) ==
  CASE ~Parsed(e) -> r
    [] e.name \in PMEvents -> handlePositionManagerEvent(r, e)
    [] e.name \in VaultEvents -> handleVaultEvent(r, e)
    [] e.name \in ConfigGroups -> handleConfigManagerEvent(r, e)
    [] OTHER -> r
-----------------------------------------------------------------------------
(* The event loop (index.ts).                                              *)

Min2(a, b) == IF a < b THEN a ELSE b

Resting(cursor) == [phase |-> "idle", cursor |-> cursor, next |-> cursor,
                    rows |-> Faithful(NoChain), history |-> <<>>,
                    price |-> 0, overtaken |-> FALSE]
Down == [Resting(0) EXCEPT !.phase = "down"]

\* The process starts and resumes from the cursor row.
Start ==
  /\ loop.phase = "down"
  /\ loop' = Resting(db.cursor)
  /\ UNCHANGED <<log, balance, router, db, poller, faults>>

\* fetchEvents.  Attempts that fail, and pages without events, change nothing.
Fetch ==
  /\ loop.phase = "idle" /\ loop.cursor < Len(log)
  /\ loop' = [loop EXCEPT !.phase = "fetched",
                          !.next = Min2(loop.cursor + PageSize, Len(log))]
  /\ UNCHANGED <<log, balance, router, db, poller, faults>>

Page == SubSeq(log, loop.cursor + 1, loop.next)
HandleAll(rows, page) == FoldLeft(Routed, rows, page)
PageRows == HandleAll(db.rows, Page)
InOrder(positions) == SetToSortSeq(positions, <)
PageHistory == InOrder({i \in (loop.cursor + 1)..loop.next : log[i].recorded})
PagePrices == SelectSeq(Page, LAMBDA e : e.name = "price")

\* Faulty: the handlers run outside the transaction of the cursor.
Untransacted_HandlePage ==
  /\ loop.phase = "fetched"
  /\ db' = [db EXCEPT !.rows = PageRows, !.history = @ \o PageHistory]
  /\ loop' = [loop EXCEPT !.phase = "handled", !.rows = PageRows]
  /\ UNCHANGED <<log, balance, router, poller, faults>>

\* Faulty: an event no handler knows throws out of the transaction.
Strict_HandlePage ==
  /\ loop.phase = "fetched"
  /\ loop' = [loop EXCEPT
       !.phase = IF \E i \in DOMAIN Page : ~Parsed(Page[i]) THEN "aborted" ELSE "handled",
       !.rows = PageRows, !.history = PageHistory,
       !.price = IF PagePrices = <<>> THEN 0 ELSE Last(PagePrices).value]
  /\ UNCHANGED <<log, balance, router, db, poller, faults>>

\* The handlers of a page run in a transaction.  What a handler throws is
\* logged, but a statement the database rejects spoils the transaction.
HandlePage ==
  /\ loop.phase = "fetched"
  /\ loop' = [loop EXCEPT
       !.phase = IF \E i \in DOMAIN Page : Page[i].name \in Rejected THEN "aborted" ELSE "handled",
       !.rows = PageRows, !.history = PageHistory,
       !.price = IF PagePrices = <<>> THEN 0 ELSE Last(PagePrices).value]
  /\ UNCHANGED <<log, balance, router, db, poller, faults>>

\* Rows with identities above the newest visible one become the latest price.
Committed ==
  [rows |-> loop.rows, history |-> db.history \o loop.history, cursor |-> loop.next,
   price |-> IF loop.price = 0 \/ loop.overtaken THEN db.price ELSE loop.price]

Commit ==
  /\ loop.phase = "handled"
  /\ db' = Committed
  /\ loop' = Resting(loop.next)
  /\ UNCHANGED <<log, balance, router, poller, faults>>

\* The transaction throws and takes everything back; the page comes again.
Rollback ==
  /\ \/ loop.phase = "aborted" /\ UNCHANGED faults
     \/ loop.phase = "handled" /\ Faulted
  /\ loop' = Resting(loop.cursor)
  /\ UNCHANGED <<log, balance, router, db, poller>>

-----------------------------------------------------------------------------
(* The poller (oracle-poller.ts).                                          *)

Asleep == [phase |-> "asleep", price |-> 0]

\* get_price is simulated.
PollerAsks ==
  /\ loop.phase # "down" /\ poller.phase = "asleep"
  /\ poller' = [phase |-> "asked", price |-> router.price]
  /\ UNCHANGED <<log, balance, router, db, loop, faults>>

\* Faulty: compared with what the poller recorded last, kept in memory.
Remembering_PollerReads ==
  /\ poller.phase \in {"asked", "kept"}
  /\ poller' = IF poller.price = db.price \/ poller.phase = "kept"
               THEN [poller EXCEPT !.phase = "kept"]
               ELSE [poller EXCEPT !.phase = "decided"]
  /\ UNCHANGED <<log, balance, router, db, loop, faults>>

\* The latest price in the database is read, and when it is the same ...
PollerReads ==
  /\ poller.phase = "asked"
  /\ poller' = IF poller.price = db.price THEN Asleep ELSE [poller EXCEPT !.phase = "decided"]
  /\ UNCHANGED <<log, balance, router, db, loop, faults>>

\* ... nothing is inserted.  A row the event loop has inserted and not yet
\* committed has a smaller identity.
PollerInserts ==
  /\ poller.phase = "decided"
  /\ db' = [db EXCEPT !.price = poller.price]
  /\ loop' = [loop EXCEPT !.overtaken = loop.price # 0]
  /\ poller' = Asleep
  /\ UNCHANGED <<log, balance, router, faults>>

Crash ==
  /\ loop.phase # "down" /\ Faulted
  /\ loop' = Down /\ poller' = Asleep
  /\ UNCHANGED <<log, balance, router, db>>

-----------------------------------------------------------------------------
(* The specification.                                                      *)

\* One price is as good to start with as another.
IndexerInit ==
  /\ log = <<>> /\ balance = [usdc |-> 0, silent |-> 0]
  /\ router = [price |-> CHOOSE p \in Prices : TRUE, moves |-> 0]
  /\ db = [rows |-> Faithful(NoChain), history |-> <<>>, cursor |-> 0, price |-> 0]
  /\ loop = Down /\ poller = Asleep /\ faults = 0

EventLoop == Start \/ Fetch \/ HandlePage \/ Commit \/ Rollback
Poller == PollerAsks \/ PollerReads \/ PollerInserts

IndexerNext == Transaction \/ Donated \/ PriceMoves \/ EventLoop \/ Poller \/ Crash

\* A process manager restarts the indexer, and both of its loops run while it
\* is up; the chain and the faults owe nothing.
IndexerFairness ==
  /\ WF_vars(Start) /\ WF_vars(Fetch) /\ WF_vars(HandlePage) /\ WF_vars(Commit)
  /\ WF_vars(Rollback) /\ WF_vars(PollerAsks) /\ WF_vars(PollerReads) /\ WF_vars(PollerInserts)

IndexerSpec == IndexerInit /\ [][IndexerNext]_vars /\ IndexerFairness

-----------------------------------------------------------------------------
(* Properties.                                                             *)

Mirror == INSTANCE ChainMirror
            WITH Blank <- Faithful(NoChain), upto <- db.cursor, rows <- db.rows,
                 history <- db.history

\* Where the cursor is at the end of a transaction of the contracts, the tables
\* show them as their events up to there tell them, and they record each trade
\* once, whatever pages the events come in and wherever the process dies
\* (index.ts:107-161).  What the events leave out is for OnlyArrivalsMissing.
ImplementsMirror == Mirror!MirrorSpec

\* The events do not tell everything: a payment whose slice is nothing (an open
\* fee, a forfeited escrow; revenue.rs:56-65) and USDC sent to the vault move its
\* total_assets in silence.  That is all the tables are ever wrong by: at the end
\* of a transaction they show the vault's total_assets less what came in silently
\* since the last event that told it, after claims, profits and losses too, and
\* the free liquidity they show is never more than there is.
OnlyArrivalsMissing ==
  db.cursor > 0 /\ log[db.cursor].closes =>
    LET e == log[db.cursor]
    IN  /\ db.rows.vault.total_assets = e.balance.usdc - e.balance.silent
        /\ db.rows.free <= free_liquidity([e.chain.vault EXCEPT !.total_assets = e.balance.usdc])

\* The event stream is mirrored to its end.
CursorCatchesUp == <>[](db.cursor = Len(log))

\* The latest price settles on the router's: a price event handled late may
\* take it back, but not for good (oracle-poller.ts, latestOraclePrices).
LatestPriceCatchesUp == <>[](db.price = router.price)

\* index.ts:131: "a single bad event shouldn't abort the whole page.  The
\* cursor still advances".
BadEventPassedOver == \A n \in 1..PageSize : (Len(log) >= n) ~> (db.cursor >= n)

-----------------------------------------------------------------------------
(* The inductive invariant of the proofs.                                  *)

Contracts(owners) ==
  [vault: [total_assets: Int, total_shares: Int, reserved_usdc: Int, unclaimed_fees: Int,
           net_pnl: Int, is_paused: BOOLEAN],
   positions: [owners -> [size: Int, orders: BOOLEAN]], open_interest: Int,
   market: [acc_index: Int, max_leverage: Int, unrealized_pnl: Int],
   config: [ConfigGroups -> Int], unpaused: Int, lockup: Int]

\* What the contracts call open interest is what the indexer sums up.
Sound(c) ==
  /\ c \in Contracts(DOMAIN c.positions)
  /\ IsFiniteSet(DOMAIN c.positions)
  /\ c.open_interest = FoldFunction(+, 0, Sizes(c.positions))

\* The rows after the first n events, handled one after the other.
RowsAfter(n) == HandleAll(Faithful(NoChain), SubSeq(log, 1, n))

\* The handlers understand the events: what they make of a transaction is what
\* its events tell of the contracts.
LogUnderstood ==
  /\ log \in Seq(Range(log))
  /\ Sound(chain)
  /\ RowsAfter(Len(log)) = Faithful(chain)
  /\ \A n \in 1..Len(log) : log[n].closes => RowsAfter(n) = log[n].after

Balances == [usdc: Int, silent: Nat]
Settles(c, b) == b \in Balances /\ c.vault.total_assets = AsTold(b)

\* What the events tell of the vault's money is what there is, less what came in
\* silently: now, and at each event of the log.
MoneyAccounted ==
  /\ Settles(chain, balance)
  /\ \A n \in 1..Len(log) : /\ Sound(log[n].chain) /\ Settles(log[n].chain, log[n].balance)
                            /\ log[n].after = Faithful(log[n].chain)

TablesAtCursor ==
  /\ DOMAIN db = {"rows", "history", "cursor", "price"}
  /\ db.cursor \in 0..Len(log)
  /\ db.rows = RowsAfter(db.cursor)

PageInHand ==
  /\ DOMAIN loop = DOMAIN Down
  /\ loop.phase \in {"down", "idle", "fetched", "handled", "aborted"}
  /\ loop.phase # "down" => loop.cursor = db.cursor
  /\ loop.phase \in {"fetched", "handled", "aborted"} => loop.next \in (loop.cursor + 1)..Len(log)
  /\ loop.phase = "handled" => loop.rows = RowsAfter(loop.next) /\ loop.history = PageHistory

IndexerInv == LogUnderstood /\ MoneyAccounted /\ TablesAtCursor /\ PageInHand
=============================================================================
