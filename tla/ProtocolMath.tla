---------------------------- MODULE ProtocolMath ----------------------------
(***************************************************************************)
(* The off-chain arithmetic (packages/protocol-math/src): the port of the  *)
(* contracts' formulas, the projection of a market to the present, the     *)
(* valuation of a position and the quote of an order.  The keeper decides  *)
(* by it and the frontend shows it.                                        *)
(*                                                                         *)
(* Every operator is translated from the TypeScript, not from the Rust     *)
(* that PerpMath translates: whether the two agree is what Mirror checks.  *)
(* A BigInt division truncates toward zero, as TruncDiv does.  Rows are    *)
(* records of integers; coerce.ts reads an absent column as 0.             *)
(***************************************************************************)
EXTENDS PerpMath

CONSTANT SECONDS_PER_DAY

-----------------------------------------------------------------------------
(* pure.ts *)

calcUnrealizedPnl(size, entry_price, mark_price, is_long) ==
    IF entry_price = 0 \/ size = 0
    THEN 0
    ELSE TruncDiv(size * (IF is_long THEN mark_price - entry_price
                          ELSE entry_price - mark_price), entry_price)

calcBorrowFee(size, entry_borrow_index, current_borrow_index) ==
    TruncDiv((current_borrow_index - entry_borrow_index) * size, INDEX_PRECISION)

calcFundingFee(size, entry_funding_index, current_funding_index, is_long) ==
    LET fee == TruncDiv((current_funding_index - entry_funding_index) * size,
                        INDEX_PRECISION)
    IN  IF is_long THEN -fee ELSE fee

calcHealth(collateral, unrealized_pnl, borrow_fee, funding_fee) ==
    collateral + unrealized_pnl - borrow_fee + funding_fee

calcUtilizationBps(reserved, total_assets) ==
    IF total_assets <= 0 THEN 0 ELSE TruncDiv(reserved * BPS, total_assets)

calcBorrowRate(utilization_bps, r) ==
    LET optimal == r.optimal_utilization_bps
    IN  r.base_borrow_rate_bps
        + (IF utilization_bps <= optimal
           THEN TruncDiv(utilization_bps * r.slope1_bps, BPS)
           ELSE TruncDiv(optimal * r.slope1_bps, BPS)
                + TruncDiv((utilization_bps - optimal) * r.slope2_bps, BPS))

calcFundingRate(long_oi, short_oi, base_funding_rate) ==
    IF long_oi + short_oi = 0
    THEN 0
    ELSE TruncDiv((long_oi - short_oi) * base_funding_rate, long_oi + short_oi)

\* accumulateBorrowIndex and accumulateFundingIndex have one body.
accumulateIndex(current_index, rate_bps, time_delta) ==
    current_index + TruncDiv(rate_bps * INDEX_PRECISION * time_delta,
                             BPS * SECONDS_PER_YEAR)

isTpTriggered(take_profit, mark_price, is_long) ==
    take_profit > 0 /\ (IF is_long THEN mark_price >= take_profit
                        ELSE mark_price <= take_profit)

isSlTriggered(stop_loss, mark_price, is_long) ==
    stop_loss > 0 /\ (IF is_long THEN mark_price <= stop_loss
                      ELSE mark_price >= stop_loss)

-----------------------------------------------------------------------------
(* MarketTick (tick.ts) *)

\* Faulty: forgets the pauses.
Unclamped_project(m, v, r, t, last_unpause_time) ==
    LET delta == AtLeastZero(t - m.last_index_update)
        util  == calcUtilizationBps(v.reserved_usdc, v.total_assets)
        rate  == calcFundingRate(m.oi["long"], m.oi["short"], r.base_funding_rate_bps)
    IN  [m EXCEPT !.borrow_index  = accumulateIndex(@, calcBorrowRate(util, r), delta),
                  !.funding_index = accumulateIndex(@, rate, delta),
                  !.last_index_update = t]

\* MarketTick.project: market row `m` at time `t`.  Utilization is taken from
\* the vault row's total assets, the unclaimed fees among them.
project(m, v, r, t, last_unpause_time) ==
    LET delta == AtLeastZero(t - Greatest(m.last_index_update, last_unpause_time))
        util  == calcUtilizationBps(v.reserved_usdc, v.total_assets)
        rate  == calcFundingRate(m.oi["long"], m.oi["short"], r.base_funding_rate_bps)
    IN  [m EXCEPT !.borrow_index  = accumulateIndex(@, calcBorrowRate(util, r), delta),
                  !.funding_index = accumulateIndex(@, rate, delta),
                  !.last_index_update = t]

Opposite(side) == IF side = "long" THEN "short" ELSE "long"

\* What a receiver of funding gets is scaled to what the other side pays.
zeroSumFunding(m, side, funding) ==
    LET payer_oi == m.oi[Opposite(side)]  receiver_oi == m.oi[side]
    IN  CASE funding <= 0 -> funding
          [] funding > 0 /\ receiver_oi <= 0 -> 0
          [] funding > 0 /\ receiver_oi > 0 ->
               IF payer_oi < receiver_oi
               THEN TruncDiv(funding * payer_oi, receiver_oi) ELSE funding

\* MarketTick.evaluate of a whole position on the projected market `m`.
evaluateRow(p, m, mark_price, funding_cut_bps) ==
    LET is_long == p.side = "long"
        pnl  == calcUnrealizedPnl(p.size, p.entry_price, mark_price, is_long)
        borrow_fee == calcBorrowFee(p.size, p.entry_borrow_index, m.borrow_index)
        zero_sum == zeroSumFunding(m, p.side,
                      calcFundingFee(p.size, p.entry_funding_index, m.funding_index, is_long))
        cut  == IF zero_sum > 0 THEN TruncDiv(zero_sum * funding_cut_bps, BPS) ELSE 0
    IN  [pnl |-> pnl, borrow_fee |-> borrow_fee, effective_funding |-> zero_sum - cut,
         effective_health |-> calcHealth(p.collateral, pnl, borrow_fee, zero_sum - cut)]

-----------------------------------------------------------------------------
(* Liquidation prices (eval.ts, quote.ts) *)

\* Faulty: the threshold is left out, as if a position were liquidated when
\* nothing is left of its collateral.
Bare_liquidationPriceForPosition(p, m, mark_price, threshold_bps, funding_cut_bps) ==
    LET e == evaluateRow(p, m, mark_price, funding_cut_bps)
        adjustment == TruncDiv(p.entry_price
                        * (e.borrow_fee - p.collateral - e.effective_funding), p.size)
    IN  IF p.side = "long" THEN p.entry_price + adjustment ELSE p.entry_price - adjustment

\* The mark price at which the fees accrued by now would get `p` liquidated.
liquidationPriceForPosition(p, m, mark_price, threshold_bps, funding_cut_bps) ==
    LET e == evaluateRow(p, m, mark_price, funding_cut_bps)
        pnl_at_liq == TruncDiv(p.collateral * threshold_bps, BPS)
                        - p.collateral + e.borrow_fee - e.effective_funding
        adjustment == TruncDiv(p.entry_price * pnl_at_liq, p.size)
    IN  IF p.side = "long" THEN p.entry_price + adjustment ELSE p.entry_price - adjustment

liquidationPriceAtOpen(mark, collateral, size, is_long, threshold_bps) ==
    LET loss_buffer == TruncDiv(collateral * (BPS - threshold_bps), BPS)
        adjustment  == TruncDiv(mark * loss_buffer, size)
    IN  IF is_long THEN mark - adjustment ELSE mark + adjustment

-----------------------------------------------------------------------------
(* IncreaseQuote (quote.ts) *)

safe_basis(v) == AtLeastZero(v.total_assets - v.unclaimed_fees)

dailyBorrow(v, r, size) ==
    TruncDiv(size * calcBorrowRate(calcUtilizationBps(v.reserved_usdc, safe_basis(v)), r)
               * SECONDS_PER_DAY, BPS * SECONDS_PER_YEAR)

dailyFunding(m, r, size, is_long) ==
    LET rate == calcFundingRate(m.oi["long"], m.oi["short"], r.base_funding_rate_bps)
    IN  TruncDiv(size * (IF is_long THEN -rate ELSE rate) * SECONDS_PER_DAY,
                 BPS * SECONDS_PER_YEAR)

\* The slippage limit; 0 opts out.
acceptablePrice(mark, is_long, slippage_bps) ==
    LET band == TruncDiv(mark * slippage_bps, BPS)
    IN  CASE slippage_bps <= 0 -> 0
          [] slippage_bps > 0 -> IF is_long THEN mark + band ELSE mark - band

liquidityHeadroom(v, max_utilization) ==
    AtLeastZero(TruncDiv(safe_basis(v) * max_utilization, BPS) - v.reserved_usdc)

\* Faulty: against all the vault's assets.
Unsafe_evaluateIncrease(intent, m, mark, v, r) ==
    LET is_long == intent.side = "long"
    IN  [open_fee |-> TruncDiv(intent.size * r.open_fee_bps, BPS),
         daily_borrow |-> dailyBorrow(v, r, intent.size),
         daily_funding |-> dailyFunding(m, r, intent.size, is_long),
         liquidation_price |-> liquidationPriceAtOpen(mark, intent.collateral, intent.size,
                                   is_long, r.liquidation_threshold_bps),
         acceptable_price |-> acceptablePrice(mark, is_long, intent.slippage_bps),
         exceeds_liquidity |-> intent.size >
             AtLeastZero(TruncDiv(v.total_assets * r.max_utilization_ratio, BPS)
                           - v.reserved_usdc)]

\* The quote of an order for a positive size and collateral.
evaluateIncrease(intent, m, mark, v, r) ==
    LET is_long == intent.side = "long"
    IN  [open_fee |-> TruncDiv(intent.size * r.open_fee_bps, BPS),
         daily_borrow |-> dailyBorrow(v, r, intent.size),
         daily_funding |-> dailyFunding(m, r, intent.size, is_long),
         liquidation_price |-> liquidationPriceAtOpen(mark, intent.collateral, intent.size,
                                   is_long, r.liquidation_threshold_bps),
         acceptable_price |-> acceptablePrice(mark, is_long, intent.slippage_bps),
         exceeds_liquidity |-> intent.size > liquidityHeadroom(v, r.max_utilization_ratio)]
=============================================================================
