--------------------------- MODULE PositionManager ---------------------------
(***************************************************************************)
(* The position manager (contracts/position-manager/src) together with the *)
(* vault it calls.  It keeps one position per trader and market, custodies *)
(* the positions' collateral and TP/SL escrows in USDC, bills borrow and   *)
(* funding fees through per-market indices, and settles closes against the *)
(* vault: reservations, payouts, absorbed collateral and revenue.          *)
(*                                                                         *)
(* Every entrypoint is one atomic transaction, the vault calls it makes    *)
(* included, and so one action.  Its checks are the action's guard.  The   *)
(* mark price of a call is whatever the oracle router answers, any price   *)
(* of Prices; prices and TP/SL values are naturals.                        *)
(***************************************************************************)
EXTENDS Vault, Functions

CONSTANTS Traders,
          Symbols,           \* markets
          Keepers,           \* holders of the KEEPER role
          Sizes,             \* sizes opened and closed
          Collaterals,       \* collateral deposited by an increase
          Prices,            \* mark prices the oracle router may answer
          AcceptablePrices,  \* slippage limits; 0 opts out
          OrderPrices,       \* take-profit and stop-loss values; 0 is none
          Configs,           \* configurations the admin may put in force
          Leverages,         \* values set_max_leverage is called with
          MaxIncreases       \* bound: calls of increase_position

Sides == {"long", "short"}
Other(side) == IF side = "long" THEN "short" ELSE "long"

CloseTypes == {"User", "Liquidation", "Deleverage", "OrderExecution"}

-----------------------------------------------------------------------------
(* Configuration: what ConfigManager accepts (validate.rs), with its ceilings
   as fractions of BPS.  non_lp_bps is dev_bps + staker_bps; the three splits
   add up to BPS.                                                            *)
Config == [open_fee_bps: Nat, liquidation_bounty_bps: Nat,
           tp_sl_execution_fee: Nat, non_lp_bps: Nat,
           min_collateral: Nat, max_utilization_ratio: Nat,
           liquidation_threshold_bps: Nat, min_position_lifetime: Nat,
           adl_pnl_bps: Nat, adl_utilization_bps: Nat, funding_cut_bps: Nat,
           base_borrow_rate_bps: Nat, slope1_bps: Nat, slope2_bps: Nat,
           optimal_utilization_bps: Nat, base_funding_rate_bps: Nat]

ValidConfig(c) ==
    /\ c \in Config
    /\ c.non_lp_bps <= BPS
    /\ c.open_fee_bps * 100 <= BPS
    /\ c.liquidation_bounty_bps * 10 <= BPS
    /\ c.min_collateral >= 1
    /\ c.max_utilization_ratio \in 1..BPS
    /\ c.funding_cut_bps * 10 <= BPS * 3
    /\ c.adl_pnl_bps * 2 >= BPS /\ c.adl_pnl_bps <= BPS
    /\ c.adl_utilization_bps \in 1..BPS
    /\ c.liquidation_threshold_bps <= BPS \div 10
    /\ c.optimal_utilization_bps \in 1..BPS
    /\ c.slope1_bps <= c.slope2_bps
    /\ c.slope2_bps <= 2 * BPS

ASSUME PositionManagerAssumption ==
    /\ IsFiniteSet(Symbols)   \* a Soroban symbol has at most 32 characters
    /\ Sizes \subseteq Nat
    /\ Collaterals \subseteq Nat
    /\ Prices \subseteq Nat \ {0}
    /\ AcceptablePrices \subseteq Nat
    /\ OrderPrices \subseteq Nat
    /\ \A c \in Configs : ValidConfig(c)
    /\ Leverages \subseteq Nat
    /\ MaxIncreases \in Nat

MIN_LEVERAGE == 2
MAX_LEVERAGE_CAP == 200

Market == [avg: [Sides -> Nat],       \* global_long / short_avg_price
           oi: [Sides -> Nat],        \* long / short_open_interest
           borrow_index: Nat,
           funding_index: Int,
           last_index_update: Nat]

Position == [collateral: Nat \ {0}, size: Nat \ {0}, side: Sides,
             entry_price: Nat, entry_borrow_index: Nat,
             entry_funding_index: Int, last_increased_time: Nat,
             take_profit: Nat, stop_loss: Nat, execution_fee_escrow: Nat]

VARIABLES
    positions,          \* open positions, by <<trader, symbol>>
    markets,            \* stored markets, by symbol
    market_pnl,         \* MarketUnrealizedPnl
    total_pnl,          \* TotalUnrealizedPnl
    realized_pnl,
    pm_balance,         \* the contract's own USDC
    pm_paused,
    last_pause_time,    \* 0 before the first pause
    last_unpause_time,
    max_leverage,       \* by symbol, where the admin has set it
    disabled,           \* markets disabled for opens
    cfg,                \* ConfigManager's configuration in force
    increases,          \* bound: calls of increase_position so far
    paused_at,          \* history: seconds that passed while PM was paused
    billed              \* history: how often each second was billed, by market

bookVars == <<positions, markets, market_pnl, total_pnl, realized_pnl, pm_balance>>
controlVars == <<pm_paused, last_pause_time, last_unpause_time, max_leverage,
                 disabled, cfg>>
historyVars == <<paused_at, billed>>
pmVars == <<bookVars, controlVars, increases, historyVars>>
vars == <<vaultVars, pmVars>>

Put(f, x, e) == [y \in DOMAIN f \cup {x} |-> IF y = x THEN e ELSE f[y]]

Remove(f, x) == [y \in DOMAIN f \ {x} |-> f[y]]

-----------------------------------------------------------------------------
(* The vault snapshot a call takes first (vault_view.rs) *)

utilization_bps == calc_utilization_bps(vault.reserved_usdc,
                                        total_assets_excl_pnl(vault))

adl_pnl_ratio_bps(combined) ==
    IF total_assets_excl_pnl(vault) > 0 /\ combined > 0
    THEN TruncDiv(combined * BPS, total_assets_excl_pnl(vault))
    ELSE 0

-----------------------------------------------------------------------------
(* The market tick (tick.rs) *)

(* A market nobody has traded is not stored and reads as this one. *)
FreshMarket == [avg |-> [side \in Sides |-> 0], oi |-> [side \in Sides |-> 0],
                borrow_index |-> INDEX_PRECISION,
                funding_index |-> INDEX_PRECISION,
                last_index_update |-> now]

get_market(s) == IF s \in DOMAIN markets THEN markets[s] ELSE FreshMarket

(* Faulty variant: forgets the unpause. *)
Unclamped_effective_start(s) == get_market(s).last_index_update

(* Fees run from the last update or the last unpause, to now or, during a
   pause, to its beginning.                                                  *)
effective_start(s) == Greatest(get_market(s).last_index_update, last_unpause_time)

effective_now(s) ==
    CASE ~pm_paused -> now
      [] pm_paused /\ last_pause_time > 0 -> Least(now, last_pause_time)
      [] OTHER -> effective_start(s)

time_delta(s) == AtLeastZero(effective_now(s) - effective_start(s))

borrow_rate == calc_borrow_rate(utilization_bps, cfg.base_borrow_rate_bps,
                                cfg.slope1_bps, cfg.slope2_bps,
                                cfg.optimal_utilization_bps)

funding_rate(m) == calc_funding_rate(m.oi["long"], m.oi["short"],
                                     cfg.base_funding_rate_bps)

Refreshed(s) ==
    LET m == get_market(s)
    IN  IF time_delta(s) = 0 THEN m
        ELSE [m EXCEPT
                !.borrow_index  = accumulate_index(@, borrow_rate, time_delta(s)),
                !.funding_index = accumulate_index(@, funding_rate(m), time_delta(s)),
                !.last_index_update = effective_now(s)]

(* History: the seconds a refresh of `s` bills. *)
BillWindow(s) ==
    billed' = [billed EXCEPT ![s] = [x \in DOMAIN @ |->
                  IF effective_start(s) <= x /\ x < effective_now(s)
                  THEN @[x] + 1 ELSE @[x]]]

(* Funding received is scaled to what the other side pays. *)
ZeroSum(m, side, funding) ==
    IF funding <= 0 \/ m.oi[Other(side)] >= m.oi[side]
    THEN IF funding > 0 /\ m.oi[side] <= 0 THEN 0 ELSE funding
    ELSE TruncDiv(funding * m.oi[Other(side)], m.oi[side])

evaluate(p, m, mark, size, collateral) ==
    LET is_long == p.side = "long"
        pnl     == calc_unrealized_pnl(size, p.entry_price, mark, is_long)
        borrow  == calc_borrow_fee(size, p.entry_borrow_index, m.borrow_index)
        scaled  == ZeroSum(m, p.side,
                           calc_funding_fee(size, p.entry_funding_index,
                                            m.funding_index, is_long))
        cut     == IF scaled > 0 THEN TruncDiv(scaled * cfg.funding_cut_bps, BPS)
                   ELSE 0
    IN  [pnl |-> pnl, borrow_fee |-> borrow,
         effective_funding |-> scaled - cut, funding_protocol_cut |-> cut,
         effective_health |-> calc_health(collateral, pnl, borrow, scaled - cut)]

-----------------------------------------------------------------------------
(* Revenue (revenue.rs): the dev and staker slice accrues as unclaimed fees,
   the rest stays with the LPs.                                              *)
NonLpSlice(amount) == TruncDiv(AtLeastZero(amount) * cfg.non_lp_bps, BPS)

CanReslice(v, amount) == NonLpSlice(amount) > 0 => CanAccrue(v, NonLpSlice(amount))

reslice_revenue(v, amount) ==
    IF NonLpSlice(amount) > 0 THEN accrue_fees(v, NonLpSlice(amount)) ELSE v

CanRecvRevenue(v, amount) == CanReslice(receive(v, AtLeastZero(amount)), amount)

recv_revenue(v, amount) == reslice_revenue(receive(v, AtLeastZero(amount)), amount)

(* TP/SL escrow (tp_sl_escrow.rs).  Faulty variant: every call with an order
   charges again.                                                            *)
Stacking_escrow_delta(prior, tp, sl) ==
    IF tp # 0 \/ sl # 0 THEN cfg.tp_sl_execution_fee ELSE -prior

escrow_delta(prior, tp, sl) ==
    LET has_orders == tp # 0 \/ sl # 0
    IN  CASE prior = 0 /\ has_orders  -> cfg.tp_sl_execution_fee
          [] prior > 0 /\ ~has_orders -> -prior
          [] OTHER -> 0

-----------------------------------------------------------------------------
(* Unrealized PnL (pnl_refresh.rs) *)

MarketPnl(m, mark) == calc_market_unrealized_pnl(m.oi["long"], m.avg["long"],
                                                 m.oi["short"], m.avg["short"], mark)

(* Faulty variant: adds the new PnL without taking the old one out. *)
Accumulating_NewTotal(s, m, mark) == total_pnl + MarketPnl(m, mark)

NewTotal(s, m, mark) == total_pnl + MarketPnl(m, mark) - market_pnl[s]

(* Stores the market's PnL, moves the total by the change and pushes it to
   the vault, whose ledger is otherwise `v`.                                 *)
RefreshPnl(s, m, mark, v) ==
    /\ market_pnl' = [market_pnl EXCEPT ![s] = MarketPnl(m, mark)]
    /\ total_pnl' = NewTotal(s, m, mark)
    /\ vault' = update_net_pnl(v, NewTotal(s, m, mark))

-----------------------------------------------------------------------------
(* Opening and adding to a position (increase.rs) *)

(* What increase_position adds to when the trader has no position. *)
Blank(side) ==
    [collateral |-> 0, size |-> 0, side |-> side, entry_price |-> 0,
     entry_borrow_index |-> 0, entry_funding_index |-> 0,
     last_increased_time |-> 0, take_profit |-> 0, stop_loss |-> 0,
     execution_fee_escrow |-> 0]

(* On an increase, 0 leaves the stored take-profit or stop-loss alone. *)
Resulting(prior, new) == IF new > 0 THEN new ELSE prior

(* An increase charges the escrow but never refunds it. *)
escrow_owed(p, tp, sl) ==
    AtLeastZero(escrow_delta(p.execution_fee_escrow, Resulting(p.take_profit, tp),
                             Resulting(p.stop_loss, sl)))

Increased(p, m, size, collateral, tp, sl, mark) ==
    [collateral |-> p.collateral + collateral,
     size |-> p.size + size,
     side |-> p.side,
     entry_price |-> update_global_avg_price(p.entry_price, p.size, mark, size),
     entry_borrow_index |->
         update_global_avg_price(p.entry_borrow_index, p.size, m.borrow_index, size),
     entry_funding_index |->
         update_global_avg_price(p.entry_funding_index, p.size, m.funding_index, size),
     last_increased_time |-> now,
     take_profit |-> Resulting(p.take_profit, tp),
     stop_loss |-> Resulting(p.stop_loss, sl),
     execution_fee_escrow |-> p.execution_fee_escrow + escrow_owed(p, tp, sl)]

(* A long may not open above the acceptable price, nor close below it. *)
SlippageOk(buys, mark, acceptable) ==
    acceptable > 0 => IF buys THEN mark <= acceptable ELSE mark >= acceptable

(* Faulty variant: looks at the reservation before the call. *)
Late_WithinUtilizationCap(size) == utilization_bps <= cfg.max_utilization_ratio

(* The gate compares the reservation this call would leave with the basis
   before it.                                                                *)
WithinUtilizationCap(size) ==
    calc_utilization_bps(vault.reserved_usdc + size, total_assets_excl_pnl(vault))
        <= cfg.max_utilization_ratio

IncreasePosition(t, s, size, collateral, side, tp, sl, acceptable, mark) ==
    LET k    == <<t, s>>
        p    == IF k \in DOMAIN positions THEN positions[k] ELSE Blank(side)
        q    == Increased(p, Refreshed(s), size, collateral, tp, sl, mark)
        m    == [Refreshed(s) EXCEPT
                    !.avg[side] = update_global_avg_price(@, Refreshed(s).oi[side],
                                                          mark, size),
                    !.oi[side] = @ + size]
        fee  == calc_open_fee(size, cfg.open_fee_bps)
        paid == recv_revenue(vault, fee)
    IN  /\ increases < MaxIncreases
        /\ ~pm_paused
        /\ s \notin disabled
        /\ size > 0
        /\ collateral > 0
        /\ SlippageOk(side = "long", mark, acceptable)
        /\ collateral >= cfg.min_collateral
        /\ p.side = side
        /\ s \in DOMAIN max_leverage
        /\ q.size <= q.collateral * max_leverage[s]
        /\ WithinUtilizationCap(size)
        /\ CanRecvRevenue(vault, fee)
        /\ CanReserve(paid, size)
        /\ positions' = Put(positions, k, q)
        /\ markets' = Put(markets, s, m)
        /\ pm_balance' = pm_balance + collateral + escrow_owed(p, tp, sl)
        /\ RefreshPnl(s, m, mark, reserve_liquidity(paid, size))
        /\ BillWindow(s)
        /\ increases' = increases + 1
        /\ UNCHANGED <<lpVars, clockVars, controlVars, realized_pnl, paused_at>>

-----------------------------------------------------------------------------
(* Closing (close.rs) *)

(* A partial close by the trader leaves the escrow on the position.  Faulty
   variant: it pays it out all the same.                                     *)
Always_escrow_settled(p, size, kind) == p.execution_fee_escrow

escrow_settled(p, size, kind) ==
    IF kind = "User" /\ size < p.size THEN 0 ELSE p.execution_fee_escrow

(* What execute_close does for the slice `size`, `coll` of position `p`: the
   vault's ledger after its calls, what leaves the contract's own balance,
   and whether no call on the way panics.                                    *)
settle(p, m, mark, size, coll, kind) ==
    LET e == evaluate(p, m, mark, size, coll)
        trader_payout   == AtLeastZero(e.effective_health)
        vault_to_trader == AtLeastZero(trader_payout - coll)
        pm_to_vault     == AtLeastZero(coll - trader_payout)
        bounty == IF kind = "Liquidation"
                  THEN Least(calc_liquidation_bounty(coll, cfg.liquidation_bounty_bps),
                             pm_to_vault)
                  ELSE 0
        vault_absorbed  == pm_to_vault - bounty
        total_fees      == e.borrow_fee + e.funding_protocol_cut
        distributable_fees == IF trader_payout > 0 THEN total_fees
                              ELSE Least(total_fees, vault_absorbed)
        escrow    == escrow_settled(p, size, kind)
        forfeited == IF kind = "Liquidation" THEN escrow ELSE 0
        released  == release_liquidity(vault, size)
        paid      == pay_profit(released, vault_to_trader)
        absorbed  == receive(paid, vault_absorbed)
        resliced  == reslice_revenue(absorbed, distributable_fees)
    IN  [ok |-> /\ CanRelease(vault, size)
                /\ vault_to_trader > 0 => CanPayProfit(released, vault_to_trader)
                /\ CanReslice(absorbed, distributable_fees)
                /\ CanRecvRevenue(resliced, forfeited)
                /\ coll + escrow <= pm_balance,
         ledger |-> recv_revenue(resliced, forfeited),
         pm_out |-> coll + escrow,
         trader_payout |-> trader_payout,
         vault_to_trader |-> vault_to_trader,
         net_economic_pnl |-> e.pnl - e.borrow_fee + e.effective_funding]

Close(k, mark, size, coll, kind) ==
    LET p == positions[k]
        s == k[2]
        o == settle(p, Refreshed(s), mark, size, coll, kind)
        m == [Refreshed(s) EXCEPT
                 !.avg[p.side] = remove_from_global_avg_price(
                                     @, Refreshed(s).oi[p.side], p.entry_price, size),
                 !.oi[p.side] = @ - size]
    IN  /\ o.ok
        /\ positions' = IF size = p.size THEN Remove(positions, k)
                        ELSE [positions EXCEPT ![k].size = @ - size,
                                               ![k].collateral = @ - coll]
        /\ markets' = Put(markets, s, m)
        /\ realized_pnl' = realized_pnl + o.net_economic_pnl
        /\ pm_balance' = pm_balance - o.pm_out
        /\ RefreshPnl(s, m, mark, o.ledger)
        /\ BillWindow(s)
        /\ UNCHANGED <<lpVars, clockVars, controlVars, increases, paused_at>>

(* Closes by the trader and by TP/SL wait for the minimum lifetime. *)
OldEnough(p) == now >= p.last_increased_time + cfg.min_position_lifetime

(* Rounds the slice up. *)
RoundedUp_collateral_delta(p, size) == (p.collateral * size + p.size - 1) \div p.size

(* Only a full close hands out the whole collateral; a partial one rounds
   down.                                                                     *)
collateral_delta(p, size) ==
    IF size = p.size THEN p.collateral ELSE TruncDiv(p.collateral * size, p.size)

DecreasePosition(k, size, acceptable, mark) ==
    LET p == positions[k]
    IN  /\ size > 0
        /\ OldEnough(p)
        /\ SlippageOk(p.side = "short", mark, acceptable)
        /\ size <= p.size
        /\ Close(k, mark, size, collateral_delta(p, size), "User")

Liquidatable(p, m, mark) ==
    evaluate(p, m, mark, p.size, p.collateral).effective_health
        < TruncDiv(p.collateral * cfg.liquidation_threshold_bps, BPS)

LiquidatePosition(k, mark) ==
    LET p == positions[k]
    IN  /\ Liquidatable(p, Refreshed(k[2]), mark)
        /\ Close(k, mark, p.size, p.collateral, "Liquidation")

(* The trigger reads the unrealized PnL stored by the last refresh of each
   market, not one computed at `mark`.                                       *)
AdlTriggered ==
    \/ adl_pnl_ratio_bps(realized_pnl + total_pnl) > cfg.adl_pnl_bps
    \/ utilization_bps > cfg.adl_utilization_bps

DeleveragePosition(k, mark) ==
    LET p == positions[k]
    IN  /\ AdlTriggered
        /\ evaluate(p, Refreshed(k[2]), mark, p.size, p.collateral).pnl > 0
        /\ Close(k, mark, p.size, p.collateral, "Deleverage")

ExecuteOrder(k, mark) ==
    LET p == positions[k]
    IN  /\ OldEnough(p)
        /\ \/ is_tp_triggered(p.take_profit, mark, p.side = "long")
           \/ is_sl_triggered(p.stop_loss, mark, p.side = "long")
        /\ Close(k, mark, p.size, p.collateral, "OrderExecution")

-----------------------------------------------------------------------------
(* Orders, indices and administration (tp_sl.rs, contract.rs) *)

SetTpSl(k, tp, sl) ==
    LET delta == escrow_delta(positions[k].execution_fee_escrow, tp, sl)
    IN  /\ ~pm_paused
        /\ pm_balance + delta >= 0
        /\ pm_balance' = pm_balance + delta
        /\ positions' = [positions EXCEPT ![k].execution_fee_escrow = @ + delta,
                                          ![k].take_profit = tp,
                                          ![k].stop_loss = sl]
        /\ UNCHANGED <<vaultVars, markets, market_pnl, total_pnl, realized_pnl,
                       controlVars, increases, historyVars>>

UpdateIndices(s, mark) ==
    /\ ~pm_paused
    /\ markets' = IF time_delta(s) > 0 THEN Put(markets, s, Refreshed(s)) ELSE markets
    /\ RefreshPnl(s, Refreshed(s), mark, vault)
    /\ BillWindow(s)
    /\ UNCHANGED <<lpVars, clockVars, positions, realized_pnl, pm_balance,
                   controlVars, increases, paused_at>>

(* Pausing what is paused, or unpausing what is not, changes nothing. *)
Pause ==
    /\ ~pm_paused
    /\ pm_paused' = TRUE
    /\ last_pause_time' = now
    /\ UNCHANGED <<vaultVars, bookVars, last_unpause_time, max_leverage, disabled,
                   cfg, increases, historyVars>>

Unpause ==
    /\ pm_paused
    /\ pm_paused' = FALSE
    /\ last_unpause_time' = now
    /\ UNCHANGED <<vaultVars, bookVars, last_pause_time, max_leverage, disabled,
                   cfg, increases, historyVars>>

SetMaxLeverage(s, leverage) ==
    /\ leverage \in MIN_LEVERAGE..MAX_LEVERAGE_CAP
    /\ max_leverage' = Put(max_leverage, s, leverage)
    /\ UNCHANGED <<vaultVars, bookVars, pm_paused, last_pause_time,
                   last_unpause_time, disabled, cfg, increases, historyVars>>

SetDisabled(markets_disabled) ==
    /\ disabled' = markets_disabled
    /\ UNCHANGED <<vaultVars, bookVars, pm_paused, last_pause_time,
                   last_unpause_time, max_leverage, cfg, increases, historyVars>>

DisableMarket(s) == SetDisabled(disabled \cup {s})

EnableMarket(s) == SetDisabled(disabled \ {s})

(* The admin changes ConfigManager's configuration; the position manager reads
   it afresh in every call.                                                  *)
SetConfig(c) ==
    /\ cfg' = c
    /\ UNCHANGED <<vaultVars, bookVars, pm_paused, last_pause_time,
                   last_unpause_time, max_leverage, disabled, increases, historyVars>>

SecondPasses ==
    /\ Tick
    /\ paused_at' = [paused_at EXCEPT ![now] = pm_paused]
    /\ UNCHANGED <<bookVars, controlVars, increases, billed>>

-----------------------------------------------------------------------------
Init ==
    /\ VaultInit
    /\ positions = << >>
    /\ markets = << >>
    /\ market_pnl = [s \in Symbols |-> 0]
    /\ total_pnl = 0
    /\ realized_pnl = 0
    /\ pm_balance = 0
    /\ pm_paused = FALSE
    /\ last_pause_time = 0
    /\ last_unpause_time = 0
    /\ max_leverage = << >>
    /\ disabled = {}
    /\ cfg \in Configs
    /\ increases = 0
    /\ paused_at = [x \in 0..MaxTime |-> FALSE]
    /\ billed = [s \in Symbols |-> [x \in 0..MaxTime |-> 0]]

TraderStep ==
    \E t \in Traders, s \in Symbols, mark \in Prices, acceptable \in AcceptablePrices :
        \/ \E size \in Sizes, collateral \in Collaterals, side \in Sides,
              tp \in OrderPrices, sl \in OrderPrices :
               IncreasePosition(t, s, size, collateral, side, tp, sl, acceptable, mark)
        \/ /\ <<t, s>> \in DOMAIN positions
           /\ \E size \in Sizes \cup {positions[<<t, s>>].size} :
                 DecreasePosition(<<t, s>>, size, acceptable, mark)

OrderStep ==
    \E k \in DOMAIN positions, tp \in OrderPrices, sl \in OrderPrices :
        SetTpSl(k, tp, sl)

(* Liquidation and order execution are open to anybody. *)
ExecutorStep ==
    \E k \in DOMAIN positions, mark \in Prices :
        \/ LiquidatePosition(k, mark)
        \/ ExecuteOrder(k, mark)

KeeperStep ==
    \E keeper \in Keepers, mark \in Prices :
        \/ \E k \in DOMAIN positions : DeleveragePosition(k, mark)
        \/ \E s \in Symbols : UpdateIndices(s, mark)

AdminStep ==
    \/ \E pauser \in Pausers :
          \/ Pause
          \/ Unpause
          \/ \E s \in Symbols : DisableMarket(s) \/ EnableMarket(s)
    \/ \E admin \in Admins :
          \/ \E s \in Symbols, leverage \in Leverages : SetMaxLeverage(s, leverage)
          \/ \E c \in Configs : SetConfig(c)

(* What happens to the vault without the position manager. *)
VaultStep ==
    /\ LPStep \/ VaultAdminStep \/ (\E a \in Amounts : ReceiveUsdc(a))
    /\ UNCHANGED pmVars

Next ==
    \/ TraderStep
    \/ OrderStep
    \/ ExecutorStep
    \/ KeeperStep
    \/ AdminStep
    \/ VaultStep
    \/ SecondPasses

Spec == Init /\ [][Next]_vars

-----------------------------------------------------------------------------
(* Correctness *)

(* Every stored value has its type: amounts and the borrow index are naturals,
   positions have collateral and size, markets are stored for every position. *)
PMTypeOK ==
    /\ VaultTypeOK
    /\ DOMAIN positions \subseteq Traders \X Symbols
    /\ positions \in [DOMAIN positions -> Position]
    /\ \A k \in DOMAIN positions : k[2] \in DOMAIN markets
    /\ DOMAIN markets \subseteq Symbols
    /\ markets \in [DOMAIN markets -> Market]
    /\ market_pnl \in [Symbols -> Int]
    /\ total_pnl \in Int
    /\ realized_pnl \in Int
    /\ pm_balance \in Nat
    /\ pm_paused \in BOOLEAN
    /\ last_pause_time \in Nat
    /\ last_unpause_time \in Nat
    /\ DOMAIN max_leverage \subseteq Symbols
    /\ max_leverage \in [DOMAIN max_leverage -> MIN_LEVERAGE..MAX_LEVERAGE_CAP]
    /\ disabled \subseteq Symbols
    /\ cfg \in Configs
    /\ increases \in 0..MaxIncreases
    /\ paused_at \in [0..MaxTime -> BOOLEAN]
    /\ billed \in [Symbols -> [0..MaxTime -> Nat]]

(* What the open positions have in the contract's custody, and their sizes, of
   all markets and of one side of one.                                       *)
Custody == [k \in DOMAIN positions |->
               positions[k].collateral + positions[k].execution_fee_escrow]

OpenSizes == [k \in DOMAIN positions |-> positions[k].size]

SideSizes(s, side) ==
    [k \in {j \in DOMAIN positions : j[2] = s /\ positions[j].side = side}
        |-> positions[k].size]

(* The contract holds exactly the collateral and escrows of the open positions:
   no close, refund, bounty or forfeit takes another trader's money or strands
   any (increase.rs, execute_close, settle_on_close, apply_delta).          *)
CustodyExact == pm_balance = Total(Custody)

(* The vault's reservation, the open interest of every side of every market and
   the sizes of the positions stay the same quantity in three places, so no
   release can fail and no reservation outlives its position
   (reserve_liquidity, release_liquidity, MarketInfo).                       *)
ReservationsMatchOpenInterest ==
    /\ vault.reserved_usdc = Total(OpenSizes)
    /\ \A s \in DOMAIN markets, side \in Sides :
          markets[s].oi[side] = Total(SideSizes(s, side))

(* The vault's net PnL is the total of the markets' stored PnL, and a market
   without positions contributes none: no phantom PnL keeps LP funds blocked
   after the last close (refresh_market_unrealized_pnl).                     *)
PnlLedgersAgree ==
    /\ vault.net_pnl = total_pnl
    /\ total_pnl = FoldFunction(+, 0, market_pnl)
    /\ \A s \in Symbols :
          (\A k \in DOMAIN positions : k[2] # s) => market_pnl[s] = 0

(* The escrow is charged at most once and held exactly while a position has an
   order, so an executor is always paid and a cancelled order always refunded,
   whatever mix of increases, set_tp_sl calls and partial closes went before
   (tp_sl_escrow.rs).                                                        *)
EscrowMatchesOrders ==
    \A k \in DOMAIN positions :
        LET p == positions[k]
            has_orders == p.take_profit # 0 \/ p.stop_loss # 0
        IN  /\ p.execution_fee_escrow \in {0} \cup {c.tp_sl_execution_fee : c \in Configs}
            /\ p.execution_fee_escrow > 0 => has_orders
            /\ (\A c \in Configs : c.tp_sl_execution_fee > 0)
                  => (has_orders => p.execution_fee_escrow > 0)

(* No second is billed twice, and no second of a pause at all, however calls,
   pauses and unpauses interleave (the clamps of MarketTick::refresh, and the
   idempotent pause and unpause).                                            *)
LiveSecondsBilledAtMostOnce ==
    \A s \in Symbols, x \in 0..MaxTime :
        billed[s][x] <= IF paused_at[x] THEN 0 ELSE 1

(* A solvent vault that has a positive basis stays solvent: the utilization cap
   keeps new reservations within it, and closes of any kind keep out of other
   positions' reservations and of the fees (vault_view.rs, do_increase_position,
   execute_close).  With the cap at 100% rounding may reserve one unit more. *)
SolvencyPreserved ==
    [][(/\ Solvent(vault)
        /\ total_assets_excl_pnl(vault) > 0
        /\ cfg.max_utilization_ratio < BPS) => Solvent(vault')]_vars

(* What a position gained before its fees, and the bounty of its liquidation, are
   within the liquidity reserved for it.                                     *)
GainWithinReservation(p, e, kind) ==
    LET gain   == e.pnl + e.effective_funding + e.funding_protocol_cut
        bounty == IF kind = "Liquidation"
                  THEN calc_liquidation_bounty(p.collateral, cfg.liquidation_bounty_bps)
                  ELSE 0
    IN  gain + bounty <= p.size

(* Whatever kind of close a solvent vault meets, it goes through when the vault
   has nothing to pay out and the gain is within the reservation: no fee accrual,
   reservation or custody shortfall ever keeps a losing position, or one that
   its fees have eaten, open ("liquidations must always work to prevent bad
   debt", contract.rs).  Fees that eat a larger gain may block the close: a slice
   of them is accrued, and the vault has not received what they came from.   *)
LosingClosesNeverBlocked ==
    Solvent(vault) =>
        \A k \in DOMAIN positions, mark \in Prices, kind \in CloseTypes :
            LET p == positions[k]
                e == evaluate(p, Refreshed(k[2]), mark, p.size, p.collateral)
                o == settle(p, Refreshed(k[2]), mark, p.size, p.collateral, kind)
            IN  o.vault_to_trader = 0 /\ GainWithinReservation(p, e, kind) => o.ok

(* A partial close takes no more than its share of the collateral: leverage
   never rises by closing (do_decrease_position).                            *)
PartialCloseKeepsLeverage ==
    [][\A k \in DOMAIN positions :
          k \in DOMAIN positions' /\ positions'[k].size < positions[k].size
            => positions'[k].size * positions[k].collateral
                 <= positions[k].size * positions'[k].collateral]_vars

-----------------------------------------------------------------------------
(* A statement of the documentation the code does not keep *)

(* "Traders must always be able to reduce risk" (docs/risk-parameters.md): a
   position past its lifetime can be closed whenever the vault is solvent and
   the profit is no more than the liquidity reserved for this very position. *)
AffordableExitsGoThrough ==
    \A k \in DOMAIN positions, mark \in Prices :
        LET p == positions[k]
            o == settle(p, Refreshed(k[2]), mark, p.size, p.collateral, "User")
        IN  (/\ Solvent(vault)
             /\ OldEnough(p)
             /\ o.vault_to_trader <= p.size) => o.ok
-----------------------------------------------------------------------------
(* The inductive invariant of the proofs (PositionManagerProofs) *)

(* The sums are sums of finitely many units. *)
FinitelyMany ==
    /\ IsFiniteSet(Units(Custody))
    /\ IsFiniteSet(Units(OpenSizes))
    /\ \A s \in Symbols, side \in Sides : IsFiniteSet(Units(SideSizes(s, side)))

(* A market bills forward from its last update only, and what nobody traded is
   not billed.                                                               *)
BilledBeforeUpdate ==
    \A s \in Symbols, x \in 0..MaxTime :
        billed[s][x] > 0
          => s \in DOMAIN markets /\ x < markets[s].last_index_update

(* Every paused second lies before the last unpause or in the running pause. *)
PausesBehindClamps ==
    /\ pm_paused => last_pause_time > 0
    /\ last_pause_time <= now
    /\ \A s \in DOMAIN markets : markets[s].last_index_update <= now
    /\ \A x \in 0..MaxTime :
          paused_at[x] => /\ x < now
                          /\ \/ x < last_unpause_time
                             \/ pm_paused /\ last_pause_time <= x

(* A market without open interest has no PnL left in the books. *)
IdleMarketsHoldNoPnl ==
    \A s \in Symbols :
        (s \in DOMAIN markets => \A side \in Sides : markets[s].oi[side] = 0)
            => market_pnl[s] = 0

PMInv ==
    /\ VaultInv
    /\ PMTypeOK
    /\ FinitelyMany
    /\ CustodyExact
    /\ ReservationsMatchOpenInterest
    /\ EscrowMatchesOrders
    /\ LiveSecondsBilledAtMostOnce
    /\ BilledBeforeUpdate
    /\ PausesBehindClamps
=============================================================================
