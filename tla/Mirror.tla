------------------------------- MODULE Mirror -------------------------------
(***************************************************************************)
(* The position manager beside what the off-chain services compute from    *)
(* its mirror: the rows the indexer keeps (their arrival is Indexer's      *)
(* subject; here they are up to date), the keeper's scan                   *)
(* (packages/keeper/src/scanner.ts) and the order form of the frontend.    *)
(***************************************************************************)
EXTENDS PositionManager, ProtocolMath

CONSTANTS
    Marks,      \* mark prices the off-chain claims are compared at
    Slippages   \* tolerances the order form offers, in basis points

ASSUME MirrorAssumption == Marks \subseteq Nat \ {0} /\ Slippages \subseteq Nat

VARIABLE announced   \* markets an UpdateIndices event was emitted for

mirrorVars == <<vars, announced>>

-----------------------------------------------------------------------------
(* The rows *)

VaultRow == [total_assets |-> vault.balance, reserved_usdc |-> vault.reserved_usdc,
             unclaimed_fees |-> vault.unclaimed_fees, free_liquidity |-> free_liquidity(vault),
             total_shares |-> supply]

\* refreshMarketAggregates sums up the positions.
OpenInterest(s) ==
    [side \in Sides |-> Total(SideSizes(s, side))]

\* A market row has the column defaults, 0, until an event brings its indices.
MarketRow(s) ==
    IF s \in announced
    THEN [oi |-> OpenInterest(s), borrow_index |-> markets[s].borrow_index,
          funding_index |-> markets[s].funding_index,
          last_index_update |-> markets[s].last_index_update]
    ELSE [oi |-> OpenInterest(s), borrow_index |-> 0, funding_index |-> 0,
          last_index_update |-> 0]

\* The ticks of loadKeeperWorld and useMarketTick, at the ledger's own time.
tick(s) == project(MarketRow(s), VaultRow, cfg, now, last_unpause_time)

\* scanLiquidationCandidates.
Candidate(k, mark) ==
    evaluateRow(positions[k], tick(k[2]), mark, cfg.funding_cut_bps).effective_health
        < TruncDiv(positions[k].collateral * cfg.liquidation_threshold_bps, BPS)

\* The orders the form can stage: the size is the collateral times a leverage
\* of its slider.
Intents(s) ==
    IF s \notin DOMAIN max_leverage THEN {}
    ELSE {[side |-> side, collateral |-> c, size |-> c * leverage, slippage_bps |-> b] :
              side \in Sides, c \in Collaterals \ {0},
              leverage \in 1..max_leverage[s], b \in Slippages}

\* useIncreaseQuote.
Quote(s, intent, mark) == evaluateIncrease(intent, tick(s), mark, VaultRow, cfg)

\* The forms stage a take-profit only beyond the reference price, a stop-loss
\* only behind it: the mark for an order, the entry price for a position.
validateTp(reference, tp, is_long) == IF is_long THEN tp > reference ELSE tp < reference
validateSl(reference, sl, is_long) == IF is_long THEN sl < reference ELSE sl > reference

Stages(reference, tp, sl, is_long) ==
    /\ tp > 0 => validateTp(reference, tp, is_long)
    /\ sl > 0 => validateSl(reference, sl, is_long)

\* usePositionEvaluation, what the panel shows of a position.
PositionView(k, mark) ==
    LET p == positions[k]
    IN  [evaluation |-> evaluateRow(p, tick(k[2]), mark, cfg.funding_cut_bps),
         liqPrice |-> liquidationPriceForPosition(p, tick(k[2]), mark,
                          cfg.liquidation_threshold_bps, cfg.funding_cut_bps)]

lpTotal == VaultRow.free_liquidity + VaultRow.reserved_usdc
userValueUsdc(u) ==
    IF VaultRow.total_shares > 0 THEN (shares[u] * lpTotal) \div VaultRow.total_shares ELSE 0

\* Faulty: not clamped by what is free.
Unclamped_maxWithdrawUsdc(u) == userValueUsdc(u)

maxWithdrawUsdc(u) == Least(userValueUsdc(u), VaultRow.free_liquidity)

\* What a percent button of the withdrawal form fills in: the input drops the
\* last of the seven decimals.
pickWithdrawPercent(u, pct) ==
    LET amount == IF pct >= 100 THEN maxWithdrawUsdc(u)
                  ELSE (maxWithdrawUsdc(u) * pct) \div 100
    IN  amount - (amount % 10)

\* The withdrawal form is locked, by the countdown of the page, or has no buttons.
isLocked(u) == expiry[u] - now > 0
canPickPercent(u) == shares[u] > 0 /\ maxWithdrawUsdc(u) > 0

-----------------------------------------------------------------------------
(* Every transaction, but for transfers no event records. *)

Announced(s) ==
    /\ s \in DOMAIN markets /\ s \in DOMAIN markets'
    /\ markets'[s].last_index_update # markets[s].last_index_update

MirrorInit == Init /\ announced = {}

\* A refresh that moves the indices emits UpdateIndices (tick.rs).
MirrorNext ==
    /\ \/ TraderStep \/ OrderStep \/ ExecutorStep \/ KeeperStep \/ AdminStep
       \/ (LPStep \/ VaultAdminStep) /\ UNCHANGED pmVars
       \/ SecondPasses
    /\ announced' = announced \cup {s \in Symbols : Announced(s)}

MirrorSpec == MirrorInit /\ [][MirrorNext]_mirrorVars

-----------------------------------------------------------------------------
(* Correctness *)

\* The projection is as good as a refresh when the market has been announced
\* and trades, and no fees are unclaimed: through pauses, index updates and
\* changes of the configuration, it bills the seconds the contract would bill,
\* and the panel shows of a position what the contract would settle it at
\* (tick.ts:5-8, MarketTick::refresh, MarketTick::evaluate).
ProjectionIsRefresh ==
    ~pm_paused /\ vault.unclaimed_fees = 0 =>
        /\ \A s \in announced :
              /\ tick(s).borrow_index = Refreshed(s).borrow_index
              /\ tick(s).funding_index = Refreshed(s).funding_index
        /\ \A k \in DOMAIN positions, mark \in Marks :
              LET shown   == PositionView(k, mark).evaluation
                  settled == evaluate(positions[k], Refreshed(k[2]), mark,
                                      positions[k].size, positions[k].collateral)
              IN  k[2] \in announced =>
                    \A field \in DOMAIN shown : shown[field] = settled[field]

\* As long as the vault has assets beside the unclaimed fees, the keeper's scan
\* takes no position for liquidatable that the contract would not liquidate at
\* the same price and time: the projection counts the fees among the assets, and
\* errs late (scanner.ts:135-159, tick.ts:57, do_liquidate_position).  In a vault
\* left with the fees alone it errs early: for the contract nothing is utilized
\* there (math.rs:203), and it refuses what the keeper sends.
CandidatesAreLiquidatable ==
    \A k \in DOMAIN positions, mark \in Marks :
        (/\ ~pm_paused
         /\ k[2] \in announced
         /\ total_assets_excl_pnl(vault) > 0
         /\ Candidate(k, mark)) => Liquidatable(positions[k], Refreshed(k[2]), mark)

OnSafeSide(side, mark, price) == IF side = "long" THEN mark >= price ELSE mark <= price

\* What a position lacks of the collateral that keeps it from being liquidated.
Lacking(k, mark) ==
    LET p == positions[k]
    IN  TruncDiv(p.collateral * cfg.liquidation_threshold_bps, BPS)
            - evaluate(p, Refreshed(k[2]), mark, p.size, p.collateral).effective_health

\* The borrow fee a position owes beyond the one it is shown: the projection
\* takes the utilization of total_assets, unclaimed fees included (tick.ts:57).
Unbilled(k) ==
    LET Fee(m) == calc_borrow_fee(positions[k].size, positions[k].entry_borrow_index,
                                  m.borrow_index)
    IN  Fee(Refreshed(k[2])) - Fee(tick(k[2]))

\* At a price that has not passed the liquidation price shown for it, a position
\* is liquidated for nothing but borrow fees it was not shown: it lacks no more
\* than those, rounding included, and with no fees unclaimed it is not
\* liquidatable there at all.  Only when the fees shown would get it liquidated
\* at its own entry price is the price shown rounded the wrong way, and the
\* position lost on reaching it (eval.ts:60-87).
LiquidationPriceHolds ==
    \A k \in DOMAIN positions, mark \in Marks :
        LET p     == positions[k]
            shown == PositionView(k, mark).liqPrice
        IN  (/\ ~pm_paused
             /\ k[2] \in announced
             /\ OnSafeSide(p.side, mark, shown)
             /\ mark = shown => Lacking(k, p.entry_price) <= Unbilled(k))
            => /\ Lacking(k, mark) <= Unbilled(k)
               /\ vault.unclaimed_fees = 0 => ~Liquidatable(p, Refreshed(k[2]), mark)

OrdersHonoured ==
    \A s \in Symbols, mark \in Marks : \A i \in Intents(s) :
        LET q    == Quote(s, i, mark)
            paid == recv_revenue(vault, q.open_fee)
            p    == Increased(Blank(i.side), Refreshed(s), i.size, i.collateral, 0, 0, mark)
        IN  ~q.exceeds_liquidity =>
                /\ q.open_fee = calc_open_fee(i.size, cfg.open_fee_bps)
                /\ WithinUtilizationCap(i.size)
                /\ CanRecvRevenue(vault, q.open_fee)
                /\ CanReserve(paid, i.size)
                /\ SlippageOk(i.side = "long", mark, q.acceptable_price)
                /\ \A later \in Marks :
                      OnSafeSide(i.side, later, q.liquidation_price)
                        => ~Liquidatable(p, Refreshed(s), later)

\* A withdrawal of one of the buttons but the last is one the vault accepts,
\* unless the virtual shares the page leaves out are a quarter of all.
PicksHonoured ==
    \A u \in LPs, pct \in {25, 50, 75} :
        LET assets == pickWithdrawPercent(u, pct)
        IN  (/\ ~isLocked(u) /\ canPickPercent(u) /\ ~vault.is_paused
             /\ supply >= 3 * VirtualShares) =>
                /\ LockupElapsed(u)
                /\ assets <= AssetsFor(shares[u])
                /\ assets <= free_liquidity(vault)
                /\ SharesForUp(assets) <= shares[u]

\* An order the form lets through passes every gate of the contract that
\* depends on the vault or the price, at the price it was quoted for, is
\* charged the fee it was quoted, and is not liquidatable before the price it
\* was shown; and the vault accepts a withdrawal of a part of the stake the
\* page shows as free (quote.ts, OrderForm.tsx:85-136, VaultActions.tsx:38-88,
\* do_increase_position, withdraw).
QuotesAreHonoured == OrdersHonoured /\ PicksHonoured

-----------------------------------------------------------------------------
(* The inductive invariant of the proofs *)

\* Every position has been opened at a price.
EntriesPriced == \A k \in DOMAIN positions : positions[k].entry_price > 0

MirrorInv ==
    /\ PMInv
    /\ announced \subseteq DOMAIN markets
    /\ EntriesPriced
=============================================================================
