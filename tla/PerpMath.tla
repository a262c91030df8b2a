------------------------------ MODULE PerpMath ------------------------------
(***************************************************************************)
(* The pure arithmetic of the position manager                             *)
(* (contracts/position-manager/src/math.rs).  Amounts, prices and indices  *)
(* are Rust i128 values; every operator keeps the source's name, its order *)
(* of multiplication and division, and its truncation toward zero.         *)
(*                                                                         *)
(* The three scale factors of contracts/shared/src/constants.rs are        *)
(* constants: theorems hold for every scale, and TLC, whose integers have  *)
(* 32 bits, checks small ones.                                             *)
(***************************************************************************)
EXTENDS Integers

CONSTANTS BPS,               \* basis-point denominator, 10_000 in the code
          INDEX_PRECISION,   \* scale of the borrow and funding indices, 1e14
          SECONDS_PER_YEAR   \* 31_536_000

ASSUME ScaleAssumption ==
    /\ BPS \in Nat \ {0}
    /\ INDEX_PRECISION \in Nat \ {0}
    /\ SECONDS_PER_YEAR \in Nat \ {0}

(* Rust's integer division by a positive divisor: it truncates toward zero,
   where TLA+'s \div rounds down.                                           *)
TruncDiv(a, b) == IF a >= 0 THEN a \div b ELSE -((-a) \div b)

AtLeastZero(a) == IF a < 0 THEN 0 ELSE a

Least(a, b) == IF a <= b THEN a ELSE b

Greatest(a, b) == IF a >= b THEN a ELSE b

-----------------------------------------------------------------------------
(* One position *)

calc_unrealized_pnl(size, entry, mark, is_long) ==
    IF entry = 0 \/ size = 0
    THEN 0
    ELSE TruncDiv(size * (IF is_long THEN mark - entry ELSE entry - mark), entry)

calc_borrow_fee(size, entry_index, index) ==
    TruncDiv((index - entry_index) * size, INDEX_PRECISION)

calc_funding_fee(size, entry_index, index, is_long) ==
    LET accrued == TruncDiv((index - entry_index) * size, INDEX_PRECISION)
    IN  IF is_long THEN -accrued ELSE accrued

calc_health(collateral, pnl, borrow_fee, funding_fee) ==
    collateral + pnl - borrow_fee + funding_fee

is_tp_triggered(take_profit, mark, is_long) ==
    /\ take_profit > 0
    /\ IF is_long THEN mark >= take_profit ELSE mark <= take_profit

is_sl_triggered(stop_loss, mark, is_long) ==
    /\ stop_loss > 0
    /\ IF is_long THEN mark <= stop_loss ELSE mark >= stop_loss

calc_open_fee(size, open_fee_bps) ==
    IF size <= 0 THEN 0 ELSE TruncDiv(size * open_fee_bps, BPS)

calc_liquidation_bounty(collateral, bounty_bps) ==
    IF collateral <= 0 THEN 0 ELSE TruncDiv(collateral * bounty_bps, BPS)

-----------------------------------------------------------------------------
(* One market *)

(* Average price of one side after `new_size` joins it at `new_price`; also
   the weighted average of a position's entry price and entry indices.      *)
update_global_avg_price(avg, size, new_price, new_size) ==
    CASE size + new_size = 0 -> 0
      [] size + new_size # 0 /\ size = 0 -> new_price
      [] OTHER -> TruncDiv(avg * size + new_price * new_size, size + new_size)

remove_from_global_avg_price(avg, oi, entry, removed) ==
    LET numerator == avg * oi - entry * removed
    IN  IF oi - removed <= 0 \/ numerator <= 0
        THEN 0
        ELSE TruncDiv(numerator, oi - removed)

calc_market_unrealized_pnl(long_oi, long_avg, short_oi, short_avg, mark) ==
    (IF long_oi > 0 /\ long_avg > 0
     THEN TruncDiv(long_oi * (mark - long_avg), long_avg) ELSE 0)
    + (IF short_oi > 0 /\ short_avg > 0
       THEN TruncDiv(short_oi * (short_avg - mark), short_avg) ELSE 0)

calc_utilization_bps(reserved, basis) ==
    IF basis <= 0 THEN 0 ELSE TruncDiv(reserved * BPS, basis)

(* The kinked borrow-rate curve. *)
calc_borrow_rate(util, base, slope1, slope2, optimal) ==
    IF util <= optimal
    THEN base + TruncDiv(util * slope1, BPS)
    ELSE base + TruncDiv(optimal * slope1, BPS)
              + TruncDiv((util - optimal) * slope2, BPS)

(* Positive when longs outweigh shorts (longs pay).  The source's fallback
   for an i128 overflow of the product keeps the same ratio; amounts here
   never reach it.                                                          *)
calc_funding_rate(long_oi, short_oi, base_rate) ==
    IF long_oi + short_oi = 0
    THEN 0
    ELSE TruncDiv((long_oi - short_oi) * base_rate, long_oi + short_oi)

(* accumulate_borrow_index and accumulate_funding_index have one body. *)
accumulate_index(index, rate_bps, time_delta) ==
    index + TruncDiv(rate_bps * INDEX_PRECISION * time_delta,
                     BPS * SECONDS_PER_YEAR)
=============================================================================
