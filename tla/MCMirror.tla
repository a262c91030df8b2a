------------------------------ MODULE MCMirror ------------------------------
(* One trader in one market over four seconds, with pauses; the off-chain
   claims are compared at prices on both sides of the liquidation prices.   *)
EXTENDS Mirror

MCConfigs ==
    {[open_fee_bps |-> 1, liquidation_bounty_bps |-> 10, tp_sl_execution_fee |-> 3,
      non_lp_bps |-> 50, min_collateral |-> 10, max_utilization_ratio |-> 60,
      liquidation_threshold_bps |-> 10, min_position_lifetime |-> 1,
      adl_pnl_bps |-> 50, adl_utilization_bps |-> 35, funding_cut_bps |-> 20,
      base_borrow_rate_bps |-> 2, slope1_bps |-> 20, slope2_bps |-> 40,
      optimal_utilization_bps |-> 50, base_funding_rate_bps |-> 20]}

MCMarks == {82, 100, 120}

(* The keeper's order scan and the contract take the same orders for
   triggered.                                                               *)
ASSUME TriggersAgree ==
    \A order \in {0} \cup MCMarks, mark \in MCMarks, is_long \in BOOLEAN :
        /\ isTpTriggered(order, mark, is_long) = is_tp_triggered(order, mark, is_long)
        /\ isSlTriggered(order, mark, is_long) = is_sl_triggered(order, mark, is_long)

(* What the forms stage does not trigger at the price it was checked against. *)
ASSUME StagedOrdersWait ==
    \A tp, sl \in {0} \cup MCMarks, mark \in MCMarks, is_long \in BOOLEAN :
        Stages(mark, tp, sl, is_long) => /\ ~is_tp_triggered(tp, mark, is_long)
                                         /\ ~is_sl_triggered(sl, mark, is_long)
=============================================================================
