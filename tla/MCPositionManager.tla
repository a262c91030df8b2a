-------------------------- MODULE MCPositionManager --------------------------
(* The position manager and the vault on small instances.  Prices, sizes and
   rates are chosen so that with BPS = INDEX_PRECISION = 100 and a year of one
   second every fee, bounty and slice is a few units.                        *)
EXTENDS PositionManager, TLC

(* Every parameter is within ConfigManager's ceilings; a rate of 1 bills 1% of
   the size per second.                                                      *)
Moderate == [open_fee_bps |-> 1, liquidation_bounty_bps |-> 10,
             tp_sl_execution_fee |-> 3, non_lp_bps |-> 50, min_collateral |-> 10,
             max_utilization_ratio |-> 80, liquidation_threshold_bps |-> 10,
             min_position_lifetime |-> 1, adl_pnl_bps |-> 50,
             adl_utilization_bps |-> 40, funding_cut_bps |-> 20,
             base_borrow_rate_bps |-> 2, slope1_bps |-> 10, slope2_bps |-> 40,
             optimal_utilization_bps |-> 50, base_funding_rate_bps |-> 20]

(* Positions may be closed at once. *)
Timeless == [Moderate EXCEPT !.min_position_lifetime = 0]

(* Escrows of two prices, so that a change of the fee shows. *)
DearOrders == [Moderate EXCEPT !.tp_sl_execution_fee = 5, !.min_position_lifetime = 0]

ModerateOnly == {Moderate}
TimelessOnly == {Timeless}
OrderConfigs == {Timeless, DearOrders}

TraderSymmetry == Permutations(Traders)
MarketSymmetry == Permutations(Traders) \cup Permutations(Symbols)
==============================================================================
