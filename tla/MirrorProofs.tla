---------------------------- MODULE MirrorProofs ----------------------------
(***************************************************************************)
(* Theorems about what the off-chain services compute beside the position  *)
(* manager: the projection, the keeper's scan, the prices and quotes the   *)
(* frontend shows, for every price, configuration and sequence of calls.   *)
(***************************************************************************)
EXTENDS Mirror, PositionManagerProofs

-----------------------------------------------------------------------------
(* Arithmetic *)

(* Truncation stays on the same side of every whole number. *)
LEMMA TruncDivBounds ==
    ASSUME NEW a \in Int, NEW d \in Nat \ {0}, NEW n \in Int
    PROVE  /\ n * d <= a => n <= TruncDiv(a, d)
           /\ a <= n * d => TruncDiv(a, d) <= n
<1>1. \A m, q \in Int : m < q => m * d + d <= q * d
  <2> SUFFICES ASSUME NEW m \in Int, NEW q \in Int, m < q
               PROVE  m * d + d <= q * d
    OBVIOUS
  <2>1. q - m - 1 \in Nat /\ (q - m - 1) * d \in Nat
    OBVIOUS
  <2>2. q * d = m * d + d + (q - m - 1) * d
    OBVIOUS
  <2> QED
    BY <2>1, <2>2
<1>2. CASE a >= 0
  <2> DEFINE q == a \div d
             r == a % d
  <2>1. q \in Nat /\ r \in 0..(d - 1) /\ a = d * q + r /\ TruncDiv(a, d) = q
    <3>1. a \in Nat /\ TruncDiv(a, d) = q
      BY <1>2 DEF TruncDiv
    <3> QED
      BY <3>1, DivisionFacts
  <2> HIDE DEF q, r
  <2>2. n * d \in Int /\ q * d \in Int /\ d * q = q * d
    BY <2>1
  <2>3. q < n => q * d + d <= n * d
    BY <1>1, <2>1
  <2>4. n < q => n * d + d <= q * d
    BY <1>1, <2>1
  <2> QED
    BY <2>1, <2>2, <2>3, <2>4
<1>3. CASE a < 0
  <2> DEFINE q == (-a) \div d
             r == (-a) % d
  <2>1. -a \in Nat
    BY <1>3
  <2>2. q \in Nat /\ r \in 0..(d - 1) /\ -a = d * q + r /\ TruncDiv(a, d) = -q
    <3>1. TruncDiv(a, d) = -q
      BY <1>3 DEF TruncDiv
    <3> DEFINE c == -a
    <3>2. c \div d \in Nat /\ c % d \in 0..(d - 1) /\ c = d * (c \div d) + (c % d)
      <4> HIDE DEF c
      <4>1. c \in Nat
        BY <2>1 DEF c
      <4> QED
        BY <4>1, DivisionFacts
    <3> QED
      BY <3>1, <3>2
  <2> HIDE DEF q, r
  <2>3. n * d \in Int /\ q * d \in Int /\ d * q = q * d /\ (-q) * d = -(q * d)
    BY <2>2
  <2>4. -q < n => (-q) * d + d <= n * d
    BY <1>1, <2>2
  <2>5. n < -q => n * d + d <= (-q) * d
    BY <1>1, <2>2
  <2> QED
    BY <2>2, <2>3, <2>4, <2>5
<1> QED
  BY <1>2, <1>3

LEMMA ZeroDivided ==
    ASSUME NEW d \in Nat \ {0}
    PROVE  TruncDiv(0, d) = 0
<1>1. TruncDiv(0, d) = 0 \div d /\ 0 \div d = 0
  BY DEF TruncDiv
<1> QED
  BY <1>1

(* A quotient of naturals times its divisor stays within the dividend. *)
LEMMA NaturalQuotient ==
    ASSUME NEW a \in Nat, NEW d \in Nat \ {0}
    PROVE  TruncDiv(a, d) \in Nat /\ TruncDiv(a, d) * d <= a
<1>1. a \in Int /\ a >= 0
  OBVIOUS
<1> QED
  BY <1>1, TruncDivType

(* A positive factor on both sides can be dropped. *)
LEMMA CommonFactor ==
    ASSUME NEW n \in Int, NEW m \in Int, NEW d \in Nat \ {0}, n * d <= m * d
    PROVE  n <= m
<1> SUFFICES ASSUME m < n
             PROVE  FALSE
  OBVIOUS
<1>1. n - m - 1 \in Nat /\ (n - m - 1) * d \in Nat
  OBVIOUS
<1>2. n * d = m * d + d + (n - m - 1) * d /\ m * d \in Int
  OBVIOUS
<1> QED
  BY <1>1, <1>2

(* A larger dividend gives no smaller quotient. *)
LEMMA TruncDivMonotone ==
    ASSUME NEW a \in Int, NEW b \in Int, NEW d \in Nat \ {0}, a <= b
    PROVE  TruncDiv(a, d) <= TruncDiv(b, d)
<1> DEFINE q == TruncDiv(a, d)
           r == TruncDiv(b, d)
<1>1. q \in Int /\ r \in Int
  BY TruncDivType
<1>2. CASE a >= 0
  <2>1. q * d <= a
    BY <1>2, TruncDivType
  <2>2. q * d \in Int
    BY <1>1
  <2>3. q * d <= b
    BY <2>1, <2>2
  <2> HIDE DEF q
  <2>4. q <= TruncDiv(b, d)
    BY <1>1, <2>3, TruncDivBounds
  <2> QED
    BY <2>4 DEF q
<1>3. CASE b < 0
  <2>1. r * d >= b
    <3> DEFINE c == -b
    <3>1. c \in Nat /\ r = -(c \div d) /\ c \div d \in Nat /\ d * (c \div d) <= c
      BY <1>3, QuotientBounds DEF TruncDiv
    <3> HIDE DEF r
    <3>2. r * d = -(d * (c \div d)) /\ d * (c \div d) \in Int
      BY <3>1
    <3> QED
      BY <3>1, <3>2
  <2>2. r * d \in Int
    BY <1>1
  <2>3. a <= r * d
    BY <2>1, <2>2
  <2> HIDE DEF r
  <2>4. TruncDiv(a, d) <= r
    BY <1>1, <2>3, TruncDivBounds
  <2> QED
    BY <2>4 DEF r
<1>4. CASE a < 0 /\ b >= 0
  <2>1. 0 * d = 0
    OBVIOUS
  <2>2. q <= 0 /\ 0 <= r
    BY <1>4, <2>1, TruncDivBounds
  <2> QED
    BY <1>1, <2>2
<1> QED
  BY <1>2, <1>3, <1>4

(* A larger divisor gives no larger quotient. *)
LEMMA LargerDivisor ==
    ASSUME NEW a \in Nat, NEW d \in Nat \ {0}, NEW e \in Nat \ {0}, d <= e
    PROVE  TruncDiv(a, e) <= TruncDiv(a, d)
<1> DEFINE q == TruncDiv(a, e)
<1>1. q \in Nat /\ q * e <= a
  BY TruncDivType
<1> HIDE DEF q
<1>2. q * (e - d) \in Nat /\ q * e = q * d + q * (e - d) /\ q * d \in Nat
  BY <1>1
<1>3. q * d <= a
  BY <1>1, <1>2
<1>4. q <= TruncDiv(a, d)
  BY <1>1, <1>3, TruncDivBounds
<1> QED
  BY <1>4 DEF q

(* Products keep the order of a factor. *)
LEMMA ProductMonotone ==
    ASSUME NEW a \in Int, NEW b \in Int, NEW n \in Nat, a <= b
    PROVE  a * n <= b * n /\ a * n \in Int /\ b * n \in Int
<1>1. (b - a) * n \in Nat /\ b * n = a * n + (b - a) * n /\ a * n \in Int
  OBVIOUS
<1> QED
  BY <1>1

-----------------------------------------------------------------------------
(* The mirror's steps *)

LEMMA MirrorStepsAreSteps ==
    ASSUME [MirrorNext]_mirrorVars
    PROVE  [Next]_vars
  BY DEF MirrorNext, Next, VaultStep, mirrorVars

(* The average of prices is a price: truncation does not take it to zero. *)
LEMMA AveragePriced ==
    ASSUME NEW avg \in Nat, NEW n \in Nat, NEW price \in Nat \ {0}, NEW k \in Nat \ {0},
           n > 0 => avg > 0
    PROVE  update_global_avg_price(avg, n, price, k) > 0
<1> DEFINE w == avg * n + price * k
<1>1. CASE n = 0
  BY <1>1 DEF update_global_avg_price
<1>2. CASE n > 0
  <2>1. avg * n \in Nat /\ price * k \in Nat /\ avg * n >= n /\ price * k >= k
    <3>1. (avg - 1) * n \in Nat /\ (price - 1) * k \in Nat
      BY <1>2
    <3>2. avg * n = (avg - 1) * n + n /\ price * k = (price - 1) * k + k
      OBVIOUS
    <3> QED
      BY <3>1, <3>2
  <2>2. w \in Int /\ 1 * (n + k) <= w /\ n + k \in Nat \ {0}
    BY <2>1
  <2> HIDE DEF w
  <2>3. 1 <= TruncDiv(w, n + k) /\ TruncDiv(w, n + k) \in Int
    BY <2>2, TruncDivBounds, TruncDivType
  <2>4. update_global_avg_price(avg, n, price, k) = TruncDiv(w, n + k)
    BY <1>2 DEF update_global_avg_price, w
  <2> QED
    BY <2>3, <2>4
<1> QED
  BY <1>1, <1>2

(* No position is added and none changes its entry price. *)
EntriesKept ==
    \A j \in DOMAIN positions' :
        j \in DOMAIN positions /\ positions'[j].entry_price = positions[j].entry_price

LEMMA OthersKeepEntries ==
    ASSUME PMInv, [Next]_vars, ~TraderStep
    PROVE  EntriesKept
<1>1. positions \in [DOMAIN positions -> Position]
  BY DEF PMInv, PMTypeOK
<1>2. ASSUME NEW k \in DOMAIN positions, NEW mark, WholeClose(k, mark)
      PROVE  EntriesKept
  BY <1>2 DEF WholeClose, Close, Remove, EntriesKept
<1>3. CASE ExecutorStep \/ KeeperStep
  <2>1. CASE \E k \in DOMAIN positions, mark \in Prices : WholeClose(k, mark)
    BY <1>2, <2>1
  <2>2. CASE \E s \in Symbols, mark \in Prices : UpdateIndices(s, mark)
    BY <2>2 DEF UpdateIndices, EntriesKept
  <2> QED
    BY <1>3, <2>1, <2>2, OthersClose
<1>4. CASE OrderStep
  BY <1>1, <1>4 DEF OrderStep, SetTpSl, EntriesKept, Position
<1>5. CASE AdminStep
  <2>1. UNCHANGED bookVars
    BY <1>5 DEF AdminStep, Pause, Unpause, DisableMarket, EnableMarket, SetDisabled,
                SetMaxLeverage, SetConfig
  <2> QED
    BY <2>1 DEF bookVars, EntriesKept
<1>6. CASE VaultStep \/ SecondPasses \/ UNCHANGED vars
  BY <1>6 DEF VaultStep, SecondPasses, vars, pmVars, bookVars, EntriesKept
<1> QED
  BY <1>3, <1>4, <1>5, <1>6 DEF Next

LEMMA EntriesStayPriced ==
    ASSUME PMInv, EntriesPriced, [Next]_vars
    PROVE  EntriesPriced'
<1>1. /\ positions \in [DOMAIN positions -> Position]
      /\ Sizes \subseteq Nat /\ Prices \subseteq Nat \ {0}
  BY PositionManagerAssumption DEF PMInv, PMTypeOK
<1>2. CASE EntriesKept
  BY <1>2 DEF EntriesKept, EntriesPriced
<1>3. ASSUME NEW t \in Traders, NEW s \in Symbols, NEW size \in Sizes, NEW collateral,
             NEW side, NEW tp, NEW sl, NEW acceptable, NEW mark \in Prices,
             IncreasePosition(t, s, size, collateral, side, tp, sl, acceptable, mark)
      PROVE  EntriesPriced'
  <2> DEFINE k == <<t, s>>
             p == IF k \in DOMAIN positions THEN positions[k] ELSE Blank(side)
             q == Increased(p, Refreshed(s), size, collateral, tp, sl, mark)
  <2>1. size > 0 /\ positions' = Put(positions, k, q)
    BY <1>3 DEF IncreasePosition
  <2>2. q.entry_price = update_global_avg_price(p.entry_price, p.size, mark, size)
    BY DEF Increased
  <2>3. p.entry_price \in Nat /\ p.size \in Nat /\ (p.size > 0 => p.entry_price > 0)
    BY <1>1 DEF Blank, EntriesPriced, Position
  <2>4. size \in Nat \ {0} /\ mark \in Nat \ {0}
    BY <1>1, <2>1
  <2> HIDE DEF p, q, k
  <2>5. q.entry_price > 0
    BY <2>2, <2>3, <2>4, AveragePriced
  <2> QED
    BY <2>1, <2>5 DEF Put, EntriesPriced
<1>4. ASSUME NEW k \in DOMAIN positions, NEW size, NEW coll, NEW mark,
             Close(k, mark, size, coll, "User")
      PROVE  EntriesKept
  <2>1. positions[k] \in Position
    BY <1>1
  <2>2. \/ positions' = Remove(positions, k)
        \/ positions' = [positions EXCEPT ![k].size = @ - size, ![k].collateral = @ - coll]
    BY <1>4 DEF Close
  <2> QED
    BY <2>1, <2>2 DEF Remove, EntriesKept, Position
<1>5. CASE TraderStep
  BY <1>2, <1>3, <1>4, <1>5 DEF TraderStep, DecreasePosition
<1> QED
  BY <1>2, <1>5, OthersKeepEntries

(* Markets stay stored. *)
LEMMA MarketsStay ==
    ASSUME PMInv, PMInv', [Next]_vars
    PROVE  DOMAIN markets \subseteq DOMAIN markets'
<1>1. CASE \E s \in Symbols, m \in Market, mark \in Nat : Refresh(s, m, mark)
  BY <1>1 DEF Refresh, Put
<1> QED
  BY <1>1, PnlStep

LEMMA MirrorStepInv ==
    ASSUME MirrorInv, [MirrorNext]_mirrorVars
    PROVE  MirrorInv'
<1>1. [Next]_vars
  BY MirrorStepsAreSteps
<1>2. PMInv' /\ EntriesPriced' /\ DOMAIN markets \subseteq DOMAIN markets'
  BY <1>1, PMStepInv, EntriesStayPriced, MarketsStay DEF MirrorInv
<1>3. announced' \subseteq DOMAIN markets'
  <2>1. CASE MirrorNext
    BY <1>2, <2>1 DEF MirrorNext, Announced, MirrorInv
  <2>2. CASE UNCHANGED mirrorVars
    BY <1>2, <2>2 DEF mirrorVars, MirrorInv
  <2> QED
    BY <2>1, <2>2
<1> QED
  BY <1>2, <1>3 DEF MirrorInv

LEMMA MirrorStartInv == MirrorInit => MirrorInv
  BY PMStartInv DEF MirrorInit, Init, MirrorInv, EntriesPriced

(* No transaction makes an announced market go away, or leaves a position
   without the price it was opened at (apply_increase, update_indices).      *)
THEOREM MirrorAlwaysInv == MirrorSpec => []MirrorInv
<1>1. MirrorInv /\ [MirrorNext]_mirrorVars => MirrorInv'
  BY MirrorStepInv
<1> QED
  BY <1>1, MirrorStartInv, PTL DEF MirrorSpec

-----------------------------------------------------------------------------
(* The projection *)

(* The borrow rate on a reservation of the vault's against some assets. *)
RateOn(assets) ==
    calc_borrow_rate(calc_utilization_bps(vault.reserved_usdc, assets),
                     cfg.base_borrow_rate_bps, cfg.slope1_bps, cfg.slope2_bps,
                     cfg.optimal_utilization_bps)

(* No time, no interest. *)
LEMMA NothingAccrues ==
    ASSUME NEW index \in Int, NEW rate \in Int
    PROVE  accumulate_index(index, rate, 0) = index
<1>1. rate * INDEX_PRECISION \in Int /\ BPS * SECONDS_PER_YEAR \in Nat \ {0}
  BY ScaleAssumption
<1>2. (rate * INDEX_PRECISION) * 0 = 0
  BY <1>1
<1>3. TruncDiv(0, BPS * SECONDS_PER_YEAR) = 0
  BY <1>1, ZeroDivided
<1> QED
  BY <1>2, <1>3 DEF accumulate_index

(* The rates of a market as the contract reads it. *)
LEMMA RefreshedIndices ==
    ASSUME PMInv, NEW s \in Symbols
    PROVE  LET m == get_market(s)
           IN  /\ Refreshed(s).borrow_index
                     = accumulate_index(m.borrow_index, borrow_rate, time_delta(s))
               /\ Refreshed(s).funding_index
                     = accumulate_index(m.funding_index, funding_rate(m), time_delta(s))
<1> DEFINE m == get_market(s)
<1>1. m \in Market /\ borrow_rate \in Int /\ funding_rate(m) \in Int
  BY WindowType, RatesType
<1>2. m.borrow_index \in Int /\ m.funding_index \in Int
  BY <1>1 DEF Market
<1> HIDE DEF m
<1>3. CASE time_delta(s) = 0
  BY <1>1, <1>2, <1>3, NothingAccrues DEF Refreshed, m
<1>4. CASE time_delta(s) # 0
  <2>1. Refreshed(s)
          = [m EXCEPT !.borrow_index  = accumulate_index(@, borrow_rate, time_delta(s)),
                      !.funding_index = accumulate_index(@, funding_rate(m), time_delta(s)),
                      !.last_index_update = effective_now(s)]
    BY <1>4 DEF Refreshed, m
  <2> QED
    BY <1>1, <2>1 DEF Market, m
<1> QED
  BY <1>3, <1>4 DEF m

(* The off-chain formulas are the contract's. *)
LEMMA FormulasAgree ==
    /\ \A reserved, assets :
          calcUtilizationBps(reserved, assets) = calc_utilization_bps(reserved, assets)
    /\ \A long_oi, short_oi, rate :
          calcFundingRate(long_oi, short_oi, rate) = calc_funding_rate(long_oi, short_oi, rate)
    /\ \A index, rate, delta :
          accumulateIndex(index, rate, delta) = accumulate_index(index, rate, delta)
    /\ \A size, entry, mark, is_long :
          calcUnrealizedPnl(size, entry, mark, is_long)
            = calc_unrealized_pnl(size, entry, mark, is_long)
    /\ \A size, entry, index, is_long :
          calcFundingFee(size, entry, index, is_long)
            = calc_funding_fee(size, entry, index, is_long)
    /\ \A size, entry, index :
          calcBorrowFee(size, entry, index) = calc_borrow_fee(size, entry, index)
  BY DEF calcUtilizationBps, calc_utilization_bps, calcFundingRate, calc_funding_rate,
         accumulateIndex, accumulate_index, calcUnrealizedPnl, calc_unrealized_pnl,
         calcFundingFee, calc_funding_fee, calcBorrowFee, calc_borrow_fee

LEMMA BorrowRatesAgree ==
    ASSUME PMInv, NEW assets \in Nat
    PROVE  /\ calcBorrowRate(calcUtilizationBps(vault.reserved_usdc, assets), cfg)
                = RateOn(assets)
           /\ RateOn(assets) \in Nat
<1> DEFINE util == calc_utilization_bps(vault.reserved_usdc, assets)
           low  == TruncDiv(util * cfg.slope1_bps, BPS)
           knee == TruncDiv(cfg.optimal_utilization_bps * cfg.slope1_bps, BPS)
           high == TruncDiv((util - cfg.optimal_utilization_bps) * cfg.slope2_bps, BPS)
<1>1. /\ cfg \in Config /\ BPS \in Nat \ {0}
      /\ vault.reserved_usdc \in Nat
  BY ConfigType DEF PMInv, PMTypeOK, VaultTypeOK, Ledger
<1>2. /\ cfg.base_borrow_rate_bps \in Nat /\ cfg.slope1_bps \in Nat
      /\ cfg.slope2_bps \in Nat /\ cfg.optimal_utilization_bps \in Nat
  BY <1>1 DEF Config
<1>3. util \in Nat
  <2>1. vault.reserved_usdc * BPS \in Nat
    BY <1>1
  <2> QED
    BY <2>1, TruncDivType DEF calc_utilization_bps
<1> HIDE DEF util
<1>4. /\ util * cfg.slope1_bps \in Nat
      /\ cfg.optimal_utilization_bps * cfg.slope1_bps \in Nat
      /\ util > cfg.optimal_utilization_bps
            => (util - cfg.optimal_utilization_bps) * cfg.slope2_bps \in Nat
  BY <1>2, <1>3, ProductType
<1>5. /\ low \in Nat /\ knee \in Nat
      /\ util > cfg.optimal_utilization_bps => high \in Nat
  BY <1>1, <1>4, TruncDivType
<1>6. RateOn(assets) = IF util <= cfg.optimal_utilization_bps
                       THEN cfg.base_borrow_rate_bps + low
                       ELSE cfg.base_borrow_rate_bps + knee + high
  BY DEF RateOn, calc_borrow_rate, util
<1>7. calcBorrowRate(util, cfg)
        = cfg.base_borrow_rate_bps
            + (IF util <= cfg.optimal_utilization_bps THEN low ELSE knee + high)
  BY DEF calcBorrowRate
<1> HIDE DEF low, knee, high
<1>8. RateOn(assets) \in Nat /\ calcBorrowRate(util, cfg) = RateOn(assets)
  BY <1>2, <1>3, <1>5, <1>6, <1>7
<1> QED
  BY <1>8, FormulasAgree DEF util

(* The row of an announced market, projected to now, is the market as a call
   would refresh it now, except that the utilization its borrow rate comes from
   counts the unclaimed fees among the assets.                               *)
LEMMA ProjectedMarket ==
    ASSUME MirrorInv, ~pm_paused, NEW s \in announced
    PROVE  /\ s \in Symbols
           /\ tick(s).oi = Refreshed(s).oi
           /\ tick(s).funding_index = Refreshed(s).funding_index
           /\ tick(s).borrow_index
                 = accumulate_index(markets[s].borrow_index, RateOn(vault.balance), time_delta(s))
           /\ Refreshed(s).borrow_index
                 = accumulate_index(markets[s].borrow_index,
                                    RateOn(total_assets_excl_pnl(vault)), time_delta(s))
<1> DEFINE m   == markets[s]
           row == MarketRow(s)
           d   == time_delta(s)
<1>1. /\ PMInv /\ s \in DOMAIN markets /\ s \in Symbols
      /\ m \in Market /\ get_market(s) = m
      /\ now \in Nat /\ last_unpause_time \in Nat /\ vault.balance \in Nat
      /\ vault \in Ledger
  BY DEF MirrorInv, PMInv, PMTypeOK, VaultTypeOK, get_market, Ledger
<1>2. row = [oi |-> OpenInterest(s), borrow_index |-> m.borrow_index,
             funding_index |-> m.funding_index,
             last_index_update |-> m.last_index_update]
  BY DEF MarketRow
<1>3. OpenInterest(s) = m.oi
  <2>1. m.oi \in [Sides -> Nat]
    BY <1>1 DEF Market
  <2>2. \A side \in Sides : m.oi[side] = Total(SideSizes(s, side))
    BY <1>1 DEF PMInv, ReservationsMatchOpenInterest
  <2> HIDE DEF m
  <2> QED
    BY <2>1, <2>2 DEF OpenInterest
<1>4. d = AtLeastZero(now - Greatest(m.last_index_update, last_unpause_time))
  BY <1>1 DEF time_delta, effective_now, effective_start
<1>5. VaultRow.total_assets = vault.balance /\ VaultRow.reserved_usdc = vault.reserved_usdc
  BY DEF VaultRow
<1> HIDE DEF row, d
<1>6. tick(s)
        = [row EXCEPT
             !.borrow_index  = accumulateIndex(@,
                 calcBorrowRate(calcUtilizationBps(vault.reserved_usdc, vault.balance), cfg), d),
             !.funding_index = accumulateIndex(@,
                 calcFundingRate(row.oi["long"], row.oi["short"], cfg.base_funding_rate_bps), d),
             !.last_index_update = now]
  BY <1>2, <1>4, <1>5 DEF tick, project, row
<1> HIDE DEF m
<1>7. /\ tick(s).oi = m.oi
      /\ tick(s).borrow_index
            = accumulateIndex(m.borrow_index,
                calcBorrowRate(calcUtilizationBps(vault.reserved_usdc, vault.balance), cfg), d)
      /\ tick(s).funding_index
            = accumulateIndex(m.funding_index,
                calcFundingRate(m.oi["long"], m.oi["short"], cfg.base_funding_rate_bps), d)
  BY <1>2, <1>3, <1>6
<1>8. /\ Refreshed(s).oi = m.oi
      /\ Refreshed(s).borrow_index = accumulate_index(m.borrow_index, borrow_rate, d)
      /\ Refreshed(s).funding_index = accumulate_index(m.funding_index, funding_rate(m), d)
  BY <1>1, RefreshedType, RefreshedIndices DEF d
<1>9. borrow_rate = RateOn(total_assets_excl_pnl(vault))
  BY DEF borrow_rate, utilization_bps, RateOn
<1> QED
  BY <1>1, <1>7, <1>8, <1>9, FormulasAgree, BorrowRatesAgree DEF funding_rate, m, d

(* What the panel and the scan compute of a position is what the contract would,
   on a row that differs from the refreshed market in its borrow index at most. *)
LEMMA RowEvaluation ==
    ASSUME PMTypeOK, NEW p \in Position, NEW M \in Market, NEW mark \in Nat,
           NEW m, m.oi = M.oi, m.funding_index = M.funding_index
    PROVE  LET shown   == evaluateRow(p, m, mark, cfg.funding_cut_bps)
               settled == evaluate(p, M, mark, p.size, p.collateral)
               borrow  == calc_borrow_fee(p.size, p.entry_borrow_index, m.borrow_index)
           IN  /\ shown = [pnl |-> settled.pnl, borrow_fee |-> borrow,
                           effective_funding |-> settled.effective_funding,
                           effective_health |-> calc_health(p.collateral, settled.pnl, borrow,
                                                            settled.effective_funding)]
               /\ settled.borrow_fee
                     = calc_borrow_fee(p.size, p.entry_borrow_index, M.borrow_index)
               /\ settled.effective_health
                     = calc_health(p.collateral, settled.pnl, settled.borrow_fee,
                                   settled.effective_funding)
               /\ settled.pnl = calc_unrealized_pnl(p.size, p.entry_price, mark, p.side = "long")
               /\ settled.pnl \in Int /\ settled.borrow_fee \in Int
               /\ settled.effective_funding \in Int
<1> DEFINE is_long == p.side = "long"
           raw == calc_funding_fee(p.size, p.entry_funding_index, M.funding_index, is_long)
           settled == evaluate(p, M, mark, p.size, p.collateral)
<1>1. /\ M.oi \in [Sides -> Nat] /\ p.side \in Sides /\ M.funding_index \in Int
      /\ p.entry_funding_index \in Int /\ p.size \in Nat /\ p.collateral \in Int
  BY DEF Market, Position
<1>2. /\ Opposite(p.side) = Other(p.side) /\ Other(p.side) \in Sides
      /\ M.oi[p.side] \in Nat /\ M.oi[Other(p.side)] \in Nat
  BY <1>1 DEF Opposite, Other, Sides
<1>3. raw \in Int
  <2>1. (M.funding_index - p.entry_funding_index) * p.size \in Int
    <3>1. M.funding_index - p.entry_funding_index \in Int
      BY <1>1
    <3> QED
      BY <1>1, <3>1, ProductType
  <2>2. TruncDiv((M.funding_index - p.entry_funding_index) * p.size, INDEX_PRECISION) \in Int
    BY <2>1, TruncDivType, ScaleAssumption
  <2> QED
    BY <2>2 DEF calc_funding_fee
<1> HIDE DEF raw
<1>4. zeroSumFunding(m, p.side, raw) = ZeroSum(M, p.side, raw)
  BY <1>2, <1>3 DEF zeroSumFunding, ZeroSum
<1>5. /\ settled.pnl \in Int /\ settled.borrow_fee \in Int
      /\ settled.effective_funding \in Int
  BY <1>1, EvaluateType
<1> QED
  BY <1>4, <1>5, FormulasAgree
     DEF evaluateRow, evaluate, calcHealth, calc_health, raw

-----------------------------------------------------------------------------
(* What is projected is what is settled *)

(* The mark prices of the claims are prices. *)
LEMMA MarksArePrices == Marks \subseteq Nat \ {0}
  BY MirrorAssumption

(* Through pauses, index updates and changes of the configuration the projection
   bills what a refresh bills, and shows what a close would settle
   (MarketTick.project, MarketTick::refresh, MarketTick::evaluate).          *)
THEOREM ProjectionAlwaysRefresh == MirrorSpec => []ProjectionIsRefresh
<1>1. MirrorInv => ProjectionIsRefresh
  <2> SUFFICES ASSUME MirrorInv, ~pm_paused, vault.unclaimed_fees = 0
               PROVE  ProjectionIsRefresh
    BY DEF ProjectionIsRefresh
  <2>1. PMInv /\ PMTypeOK /\ positions \in [DOMAIN positions -> Position]
    BY DEF MirrorInv, PMInv, PMTypeOK
  <2>2. total_assets_excl_pnl(vault) = vault.balance
    BY <2>1 DEF PMTypeOK, VaultTypeOK, Ledger, total_assets_excl_pnl, AtLeastZero
  <2>3. ASSUME NEW s \in announced
        PROVE  /\ tick(s).oi = Refreshed(s).oi
               /\ tick(s).borrow_index = Refreshed(s).borrow_index
               /\ tick(s).funding_index = Refreshed(s).funding_index
               /\ Refreshed(s) \in Market
    BY <2>1, <2>2, ProjectedMarket, RefreshedType
  <2>4. ASSUME NEW k \in DOMAIN positions, NEW mark \in Marks, k[2] \in announced,
               NEW field \in DOMAIN PositionView(k, mark).evaluation
        PROVE  PositionView(k, mark).evaluation[field]
                 = evaluate(positions[k], Refreshed(k[2]), mark,
                            positions[k].size, positions[k].collateral)[field]
    <3> DEFINE p == positions[k]
               m == tick(k[2])
               M == Refreshed(k[2])
               shown   == evaluateRow(p, m, mark, cfg.funding_cut_bps)
               settled == evaluate(p, M, mark, p.size, p.collateral)
    <3>1. p \in Position /\ mark \in Nat
      BY <2>1, MarksArePrices
    <3>2. /\ M \in Market /\ m.oi = M.oi /\ m.borrow_index = M.borrow_index
          /\ m.funding_index = M.funding_index
      BY <2>3, <2>4
    <3>3. PositionView(k, mark).evaluation = shown
      BY DEF PositionView
    <3> HIDE DEF p, m, M, shown
    <3>4. /\ shown = [pnl |-> settled.pnl,
                      borrow_fee |-> calc_borrow_fee(p.size, p.entry_borrow_index, m.borrow_index),
                      effective_funding |-> settled.effective_funding,
                      effective_health |->
                        calc_health(p.collateral, settled.pnl,
                          calc_borrow_fee(p.size, p.entry_borrow_index, m.borrow_index),
                          settled.effective_funding)]
          /\ settled.borrow_fee = calc_borrow_fee(p.size, p.entry_borrow_index, M.borrow_index)
          /\ settled.effective_health
                = calc_health(p.collateral, settled.pnl, settled.borrow_fee,
                              settled.effective_funding)
      BY <2>1, <3>1, <3>2, RowEvaluation DEF shown
    <3> HIDE DEF settled
    <3>5. shown[field] = settled[field]
      <4>1. field \in {"pnl", "borrow_fee", "effective_funding", "effective_health"}
        BY <2>4, <3>3, <3>4
      <4> QED
        BY <3>2, <3>4, <4>1
    <3> QED
      BY <3>3, <3>5 DEF settled, p, M
  <2> QED
    BY <2>3, <2>4 DEF ProjectionIsRefresh
<1> QED
  BY <1>1, MirrorAlwaysInv, PTL

-----------------------------------------------------------------------------
(* Where the projection errs, it errs late *)

(* More assets, less utilization, a lower borrow rate. *)
LEMMA RateFallsWithAssets ==
    ASSUME PMInv, NEW a \in Nat \ {0}, NEW b \in Nat \ {0}, a <= b
    PROVE  RateOn(b) <= RateOn(a)
<1> DEFINE u    == calc_utilization_bps(vault.reserved_usdc, a)
           w    == calc_utilization_bps(vault.reserved_usdc, b)
           o    == cfg.optimal_utilization_bps
           low(x)  == TruncDiv(x * cfg.slope1_bps, BPS)
           high(x) == TruncDiv((x - o) * cfg.slope2_bps, BPS)
<1>1. /\ cfg \in Config /\ BPS \in Nat \ {0} /\ vault.reserved_usdc \in Nat
  BY ConfigType DEF PMInv, PMTypeOK, VaultTypeOK, Ledger
<1>2. /\ cfg.base_borrow_rate_bps \in Nat /\ cfg.slope1_bps \in Nat
      /\ cfg.slope2_bps \in Nat /\ o \in Nat
  BY <1>1 DEF Config
<1>3. u \in Nat /\ w \in Nat /\ w <= u
  <2> DEFINE r == vault.reserved_usdc * BPS
  <2>1. r \in Nat /\ u = TruncDiv(r, a) /\ w = TruncDiv(r, b)
    BY <1>1 DEF calc_utilization_bps
  <2> HIDE DEF r, u, w
  <2> QED
    BY <2>1, TruncDivType, LargerDivisor
<1> HIDE DEF u, w, o
<1>4. \A x \in Nat : /\ x * cfg.slope1_bps \in Nat
                     /\ (x - o) * cfg.slope2_bps \in Int
                     /\ x > o => (x - o) * cfg.slope2_bps \in Nat
  <2> SUFFICES ASSUME NEW x \in Nat
               PROVE  /\ x * cfg.slope1_bps \in Nat
                      /\ (x - o) * cfg.slope2_bps \in Int
                      /\ x > o => (x - o) * cfg.slope2_bps \in Nat
    OBVIOUS
  <2>1. x - o \in Int /\ (x > o => x - o \in Nat)
    BY <1>2
  <2> QED
    BY <1>2, <2>1, ProductType
<1>5. \A x, y \in Nat : x <= y => low(x) <= low(y) /\ high(x) <= high(y)
  <2> SUFFICES ASSUME NEW x \in Nat, NEW y \in Nat, x <= y
               PROVE  low(x) <= low(y) /\ high(x) <= high(y)
    OBVIOUS
  <2>1. x * cfg.slope1_bps <= y * cfg.slope1_bps
    BY <1>2, ProductMonotone
  <2>2. (x - o) * cfg.slope2_bps <= (y - o) * cfg.slope2_bps
    <3>1. x - o \in Int /\ y - o \in Int /\ x - o <= y - o
      BY <1>2
    <3> QED
      BY <1>2, <3>1, ProductMonotone
  <2> QED
    BY <1>1, <1>4, <2>1, <2>2, TruncDivMonotone
<1>6. \A x \in Nat : /\ low(x) \in Nat /\ high(x) \in Int
                     /\ x > o => high(x) \in Nat
  BY <1>1, <1>4, TruncDivType
<1>7. /\ RateOn(a) = IF u <= o THEN cfg.base_borrow_rate_bps + low(u)
                      ELSE cfg.base_borrow_rate_bps + low(o) + high(u)
      /\ RateOn(b) = IF w <= o THEN cfg.base_borrow_rate_bps + low(w)
                      ELSE cfg.base_borrow_rate_bps + low(o) + high(w)
  BY DEF RateOn, calc_borrow_rate, u, w, o
<1> HIDE DEF low, high
<1>8. CASE u <= o
  <2>1. low(w) <= low(u) /\ low(w) \in Nat /\ low(u) \in Nat /\ w <= o
    BY <1>2, <1>3, <1>5, <1>6, <1>8
  <2> QED
    BY <1>2, <1>7, <1>8, <2>1
<1>9. CASE u > o /\ w <= o
  <2>1. low(w) <= low(o) /\ low(w) \in Nat /\ low(o) \in Nat /\ high(u) \in Nat
    BY <1>2, <1>3, <1>5, <1>6, <1>9
  <2> QED
    BY <1>2, <1>3, <1>7, <1>9, <2>1
<1>10. CASE u > o /\ w > o
  <2>1. high(w) <= high(u) /\ low(o) \in Nat /\ high(u) \in Nat /\ high(w) \in Nat
    BY <1>2, <1>3, <1>5, <1>6, <1>10
  <2> QED
    BY <1>2, <1>3, <1>7, <1>10, <2>1
<1> QED
  BY <1>2, <1>3, <1>8, <1>9, <1>10

(* A higher rate, a higher index. *)
LEMMA IndexGrowsWithRate ==
    ASSUME NEW index \in Int, NEW q \in Int, NEW r \in Int, q <= r, NEW d \in Nat
    PROVE  /\ accumulate_index(index, q, d) \in Int
           /\ accumulate_index(index, r, d) \in Int
           /\ accumulate_index(index, q, d) <= accumulate_index(index, r, d)
<1> DEFINE y == BPS * SECONDS_PER_YEAR
<1>1. INDEX_PRECISION \in Nat /\ y \in Nat \ {0}
  BY ScaleAssumption
<1> HIDE DEF y
<1>2. /\ q * INDEX_PRECISION \in Int /\ r * INDEX_PRECISION \in Int
      /\ q * INDEX_PRECISION <= r * INDEX_PRECISION
  BY <1>1, ProductMonotone
<1>3. /\ q * INDEX_PRECISION * d \in Int /\ r * INDEX_PRECISION * d \in Int
      /\ q * INDEX_PRECISION * d <= r * INDEX_PRECISION * d
  BY <1>2, ProductMonotone
<1>4. /\ TruncDiv(q * INDEX_PRECISION * d, y) \in Int
      /\ TruncDiv(r * INDEX_PRECISION * d, y) \in Int
      /\ TruncDiv(q * INDEX_PRECISION * d, y) <= TruncDiv(r * INDEX_PRECISION * d, y)
  BY <1>1, <1>3, TruncDivType, TruncDivMonotone
<1> QED
  BY <1>4 DEF accumulate_index, y

(* A higher index, a higher fee. *)
LEMMA FeeGrowsWithIndex ==
    ASSUME NEW size \in Nat, NEW entry \in Int, NEW i \in Int, NEW j \in Int, i <= j
    PROVE  /\ calc_borrow_fee(size, entry, i) \in Int
           /\ calc_borrow_fee(size, entry, j) \in Int
           /\ calc_borrow_fee(size, entry, i) <= calc_borrow_fee(size, entry, j)
<1>1. i - entry \in Int /\ j - entry \in Int /\ i - entry <= j - entry
  OBVIOUS
<1>2. /\ (i - entry) * size \in Int /\ (j - entry) * size \in Int
      /\ (i - entry) * size <= (j - entry) * size
  BY <1>1, ProductMonotone
<1> QED
  BY <1>2, TruncDivType, TruncDivMonotone, ScaleAssumption DEF calc_borrow_fee

(* As long as the vault has assets beside the unclaimed fees, the scan never sends
   the keeper after a position the contract would refuse to liquidate at that
   price and time: the fees only lower the utilization it sees, and with it the
   borrow fee (scanLiquidationCandidates, do_liquidate_position).            *)
THEOREM CandidatesAlwaysLiquidatable == MirrorSpec => []CandidatesAreLiquidatable
<1>1. MirrorInv => CandidatesAreLiquidatable
  <2> SUFFICES ASSUME MirrorInv, NEW k \in DOMAIN positions, NEW mark \in Marks,
                      ~pm_paused, k[2] \in announced,
                      total_assets_excl_pnl(vault) > 0, Candidate(k, mark)
               PROVE  Liquidatable(positions[k], Refreshed(k[2]), mark)
    BY DEF CandidatesAreLiquidatable
  <2> DEFINE s == k[2]
             p == positions[k]
             m == tick(s)
             M == Refreshed(s)
             shown   == evaluateRow(p, m, mark, cfg.funding_cut_bps)
             settled == evaluate(p, M, mark, p.size, p.collateral)
             borrow  == calc_borrow_fee(p.size, p.entry_borrow_index, m.borrow_index)
             T == TruncDiv(p.collateral * cfg.liquidation_threshold_bps, BPS)
  <2>1. /\ PMInv /\ PMTypeOK /\ p \in Position /\ mark \in Nat /\ s \in Symbols
        /\ s \in DOMAIN markets /\ markets[s] \in Market
    BY MarksArePrices DEF MirrorInv, PMInv, PMTypeOK
  <2>2. /\ p.size \in Nat /\ p.collateral \in Nat /\ p.entry_borrow_index \in Int
        /\ markets[s].borrow_index \in Int
    BY <2>1 DEF Position, Market
  <2>3. /\ m.oi = M.oi /\ m.funding_index = M.funding_index /\ M \in Market
        /\ m.borrow_index = accumulate_index(markets[s].borrow_index, RateOn(vault.balance),
                                             time_delta(s))
        /\ M.borrow_index = accumulate_index(markets[s].borrow_index,
                                             RateOn(total_assets_excl_pnl(vault)),
                                             time_delta(s))
    BY <2>1, ProjectedMarket, RefreshedType
  <2>4. /\ RateOn(vault.balance) \in Nat /\ RateOn(total_assets_excl_pnl(vault)) \in Nat
        /\ RateOn(vault.balance) <= RateOn(total_assets_excl_pnl(vault))
    <3>1. /\ vault.balance \in Nat \ {0} /\ total_assets_excl_pnl(vault) \in Nat \ {0}
          /\ total_assets_excl_pnl(vault) <= vault.balance
      BY <2>1 DEF PMTypeOK, VaultTypeOK, Ledger, total_assets_excl_pnl, AtLeastZero
    <3> QED
      BY <2>1, <3>1, BorrowRatesAgree, RateFallsWithAssets
  <2>5. /\ m.borrow_index \in Int /\ M.borrow_index \in Int
        /\ m.borrow_index <= M.borrow_index
    <3> DEFINE i == markets[s].borrow_index
               q == RateOn(vault.balance)
               r == RateOn(total_assets_excl_pnl(vault))
               d == time_delta(s)
    <3>1. i \in Int /\ q \in Int /\ r \in Int /\ q <= r /\ d \in Nat
      BY <2>1, <2>2, <2>4, WindowType
    <3>2. m.borrow_index = accumulate_index(i, q, d) /\ M.borrow_index = accumulate_index(i, r, d)
      BY <2>3
    <3> HIDE DEF m, M, i, q, r, d
    <3> QED
      BY <3>1, <3>2, IndexGrowsWithRate
  <2>6. Candidate(k, mark) <=> shown.effective_health < T
    BY DEF Candidate
  <2>7. Liquidatable(p, M, mark) <=> settled.effective_health < T
    BY DEF Liquidatable
  <2>8. T \in Int
    <3>1. cfg.liquidation_threshold_bps \in Nat /\ BPS \in Nat \ {0}
      BY <2>1, ConfigType DEF Config
    <3>2. p.collateral * cfg.liquidation_threshold_bps \in Int
      BY <2>2, <3>1, ProductType
    <3> QED
      BY <3>1, <3>2, TruncDivType
  <2> HIDE DEF s, p, m, M, T, shown
  <2>9. /\ shown = [pnl |-> settled.pnl, borrow_fee |-> borrow,
                    effective_funding |-> settled.effective_funding,
                    effective_health |-> calc_health(p.collateral, settled.pnl, borrow,
                                                     settled.effective_funding)]
        /\ settled.borrow_fee
              = calc_borrow_fee(p.size, p.entry_borrow_index, M.borrow_index)
        /\ settled.effective_health
              = calc_health(p.collateral, settled.pnl, settled.borrow_fee,
                            settled.effective_funding)
        /\ settled.pnl \in Int /\ settled.borrow_fee \in Int
        /\ settled.effective_funding \in Int
    BY <2>1, <2>3, RowEvaluation DEF shown
  <2>10. borrow \in Int /\ borrow <= settled.borrow_fee
    BY <2>2, <2>5, <2>9, FeeGrowsWithIndex
  <2> HIDE DEF settled, borrow
  <2>11. shown.effective_health
           = p.collateral + settled.pnl - borrow + settled.effective_funding
    BY <2>9 DEF calc_health
  <2>12. settled.effective_health
           = p.collateral + settled.pnl - settled.borrow_fee + settled.effective_funding
    BY <2>9 DEF calc_health
  <2>13. settled.effective_health < T
    BY <2>2, <2>6, <2>8, <2>9, <2>10, <2>11, <2>12
  <2> QED
    BY <2>7, <2>13 DEF p, M, s
<1> QED
  BY <1>1, MirrorAlwaysInv, PTL

-----------------------------------------------------------------------------
(* Liquidation prices *)

(* A price that has moved against a position of entry price `e` by no more than
   the share x / size of it leaves a PnL of at least x; when x is positive the
   quotient is rounded down, and the price has to have moved past it.        *)
LEMMA PnlAtPrice ==
    ASSUME NEW e \in Nat \ {0}, NEW size \in Nat \ {0}, NEW x \in Int, NEW mark \in Nat,
           NEW is_long \in BOOLEAN, NEW move \in Int,
           move = IF is_long THEN mark - e ELSE e - mark,
           TruncDiv(e * x, size) <= move,
           move = TruncDiv(e * x, size) => x <= 0
    PROVE  x <= calc_unrealized_pnl(size, e, mark, is_long)
<1> DEFINE a   == e * x
           adj == TruncDiv(a, size)
<1>1. a \in Int /\ adj \in Int
  <2>1. a \in Int
    BY ProductType
  <2> HIDE DEF a
  <2> QED
    BY <2>1, TruncDivType
<1>2. calc_unrealized_pnl(size, e, mark, is_long) = TruncDiv(size * move, e)
  BY DEF calc_unrealized_pnl
<1>3. size * move = move * size /\ move * size \in Int /\ x * e = a
  BY ProductType
<1>4. adj <= move /\ (move = adj => x <= 0)
  OBVIOUS
<1> HIDE DEF adj
<1>5. CASE x <= 0
  <2>1. a <= 0
    <3>1. -x \in Nat /\ e * (-x) \in Nat /\ e * x = -(e * (-x))
      BY <1>5
    <3> QED
      BY <3>1
  <2>2. adj * size >= a
    <3> DEFINE c == -a
    <3>1. c \in Nat
      BY <1>1, <2>1
    <3>2. adj = -(c \div size)
      <4>1. CASE a = 0
        <5>1. adj = 0 \div size /\ c = 0
          BY <4>1 DEF adj, TruncDiv
        <5>2. 0 \div size = 0
          OBVIOUS
        <5> QED
          BY <5>1, <5>2
      <4>2. CASE a < 0
        BY <1>1, <4>2 DEF adj, TruncDiv
      <4> QED
        BY <1>1, <2>1, <4>1, <4>2
    <3> HIDE DEF c
    <3>3. c \div size \in Nat /\ size * (c \div size) <= c
      BY <3>1, QuotientBounds
    <3>4. adj * size = -(size * (c \div size)) /\ size * (c \div size) \in Int
      BY <3>2, <3>3
    <3>5. a = -c
      BY <1>1 DEF c
    <3> HIDE DEF a
    <3> QED
      BY <3>1, <3>3, <3>4, <3>5
  <2>3. adj * size <= move * size /\ adj * size \in Int
    BY <1>1, <1>4, ProductMonotone
  <2> HIDE DEF a
  <2>4. x * e <= move * size
    BY <1>1, <1>3, <2>2, <2>3
  <2> QED
    BY <1>2, <1>3, <2>4, TruncDivBounds
<1>6. CASE x > 0
  <2>1. adj + 1 <= move
    BY <1>1, <1>4, <1>6
  <2> HIDE DEF a
  <2>2. a < (adj + 1) * size
    <3> SUFFICES ASSUME (adj + 1) * size <= a
                 PROVE  FALSE
      BY <1>1, ProductType
    <3>1. adj + 1 \in Int
      BY <1>1
    <3>2. adj + 1 <= TruncDiv(a, size)
      BY <1>1, <3>1, TruncDivBounds
    <3> QED
      BY <1>1, <3>2 DEF adj
  <2>3. /\ (adj + 1) * size <= move * size /\ (adj + 1) * size \in Int
    <3>1. adj + 1 \in Int
      BY <1>1
    <3> QED
      BY <2>1, <3>1, ProductMonotone
  <2>4. x * e <= move * size
    BY <1>1, <1>3, <2>2, <2>3
  <2> QED
    BY <1>2, <1>3, <2>4, TruncDivBounds
<1> QED
  BY <1>5, <1>6

(* Before the price shown for it, and at it unless the fees shown have used up its
   collateral, a position lacks no more than the borrow fees the projection left
   out; with no fees unclaimed it left out none, and the position is not
   liquidatable there (liquidationPriceForPosition).                         *)
THEOREM LiquidationPriceAlwaysHolds == MirrorSpec => []LiquidationPriceHolds
<1>1. MirrorInv => LiquidationPriceHolds
  <2> SUFFICES ASSUME MirrorInv, NEW k \in DOMAIN positions, NEW mark \in Marks,
                      ~pm_paused, k[2] \in announced,
                      OnSafeSide(positions[k].side, mark, PositionView(k, mark).liqPrice),
                      mark = PositionView(k, mark).liqPrice
                        => Lacking(k, positions[k].entry_price) <= Unbilled(k)
               PROVE  /\ Lacking(k, mark) <= Unbilled(k)
                      /\ vault.unclaimed_fees = 0
                           => ~Liquidatable(positions[k], Refreshed(k[2]), mark)
    BY DEF LiquidationPriceHolds
  <2> DEFINE p == positions[k]
             m == tick(k[2])
             M == Refreshed(k[2])
             e == p.entry_price
             is_long == p.side = "long"
             T == TruncDiv(p.collateral * cfg.liquidation_threshold_bps, BPS)
             shown      == evaluateRow(p, m, mark, cfg.funding_cut_bps)
             settled(x) == evaluate(p, M, x, p.size, p.collateral)
             fee     == calc_borrow_fee(p.size, p.entry_borrow_index, m.borrow_index)
             due     == settled(mark).borrow_fee
             funding == settled(mark).effective_funding
             x    == T - p.collateral + fee - funding
             adj  == TruncDiv(e * x, p.size)
             move == IF is_long THEN mark - e ELSE e - mark
             price == PositionView(k, mark).liqPrice
  <2>1. /\ PMInv /\ PMTypeOK /\ p \in Position /\ mark \in Nat /\ e \in Nat \ {0}
        /\ p.collateral \in Nat \ {0} /\ p.size \in Nat \ {0} /\ p.side \in Sides
    <3>1. PMInv /\ PMTypeOK /\ mark \in Nat /\ e > 0 /\ p \in Position
      BY MarksArePrices DEF MirrorInv, PMInv, PMTypeOK, EntriesPriced
    <3> QED
      BY <3>1 DEF Position
  <2>2. /\ M \in Market /\ m.oi = M.oi /\ m.funding_index = M.funding_index
        /\ vault.unclaimed_fees = 0 => m.borrow_index = M.borrow_index
        /\ m.borrow_index \in Int
    <3>1. m.borrow_index \in Int
      <4> DEFINE i == markets[k[2]].borrow_index
                 q == RateOn(vault.balance)
                 d == time_delta(k[2])
      <4>1. /\ k[2] \in DOMAIN markets /\ k[2] \in Symbols /\ vault.balance \in Nat
            /\ i \in Int
        BY <2>1 DEF MirrorInv, PMTypeOK, VaultTypeOK, Ledger, Market
      <4>2. q \in Int
        BY <2>1, <4>1, BorrowRatesAgree
      <4>3. d \in Nat
        BY <2>1, <4>1, WindowType
      <4>4. m.borrow_index = accumulate_index(i, q, d)
        BY ProjectedMarket
      <4> HIDE DEF m, i, q, d
      <4> QED
        <5>1. q <= q
          BY <4>2
        <5>2. accumulate_index(i, q, d) \in Int
          BY ONLY <4>1, <4>2, <4>3, <5>1, IndexGrowsWithRate
        <5> QED
          BY <4>4, <5>2
    <3>2. vault.unclaimed_fees = 0 => total_assets_excl_pnl(vault) = vault.balance
      BY <2>1 DEF PMTypeOK, VaultTypeOK, Ledger, total_assets_excl_pnl, AtLeastZero
    <3> QED
      BY <2>1, <3>1, <3>2, ProjectedMarket, RefreshedType
  <2>3. T \in Int
    <3>1. cfg.liquidation_threshold_bps \in Nat /\ BPS \in Nat \ {0}
      BY <2>1, ConfigType DEF Config
    <3>2. p.collateral * cfg.liquidation_threshold_bps \in Int
      BY <2>1, <3>1, ProductType
    <3> QED
      BY <3>1, <3>2, TruncDivType
  <2>4. /\ \A y : Liquidatable(p, M, y) <=> settled(y).effective_health < T
        /\ \A y : Lacking(k, y) = T - settled(y).effective_health
        /\ Unbilled(k) = calc_borrow_fee(p.size, p.entry_borrow_index, M.borrow_index) - fee
    BY DEF Liquidatable, Lacking, Unbilled
  <2>5. price = LET v == evaluateRow(p, m, mark, cfg.funding_cut_bps)
                    pnl_at_liq == T - p.collateral + v.borrow_fee - v.effective_funding
                    adjustment == TruncDiv(e * pnl_at_liq, p.size)
                IN  IF is_long THEN e + adjustment ELSE e - adjustment
    BY DEF PositionView, liquidationPriceForPosition
  <2> HIDE DEF m, M, T
  <2>6. \A y \in Nat :
           /\ evaluateRow(p, m, y, cfg.funding_cut_bps).borrow_fee = fee
           /\ evaluateRow(p, m, y, cfg.funding_cut_bps).effective_funding = funding
           /\ Unbilled(k) = due - fee
           /\ vault.unclaimed_fees = 0 => due = fee
           /\ fee \in Int /\ due \in Int /\ funding \in Int
           /\ calc_unrealized_pnl(p.size, e, y, is_long) \in Int
           /\ settled(y).effective_health
                = p.collateral + calc_unrealized_pnl(p.size, e, y, is_long) - due + funding
    <3> SUFFICES ASSUME NEW y \in Nat
                 PROVE
           /\ evaluateRow(p, m, y, cfg.funding_cut_bps).borrow_fee = fee
           /\ evaluateRow(p, m, y, cfg.funding_cut_bps).effective_funding = funding
           /\ Unbilled(k) = due - fee
           /\ vault.unclaimed_fees = 0 => due = fee
           /\ fee \in Int /\ due \in Int /\ funding \in Int
           /\ calc_unrealized_pnl(p.size, e, y, is_long) \in Int
           /\ settled(y).effective_health
                = p.collateral + calc_unrealized_pnl(p.size, e, y, is_long) - due + funding
      OBVIOUS
    <3> HIDE DEF p
    <3>1. \A z \in Nat :
             LET row == evaluateRow(p, m, z, cfg.funding_cut_bps)
             IN  /\ row = [pnl |-> settled(z).pnl, borrow_fee |-> fee,
                           effective_funding |-> settled(z).effective_funding,
                           effective_health |-> calc_health(p.collateral, settled(z).pnl, fee,
                                                            settled(z).effective_funding)]
                 /\ settled(z).borrow_fee
                      = calc_borrow_fee(p.size, p.entry_borrow_index, M.borrow_index)
                 /\ settled(z).effective_health
                      = calc_health(p.collateral, settled(z).pnl, settled(z).borrow_fee,
                                    settled(z).effective_funding)
                 /\ settled(z).pnl = calc_unrealized_pnl(p.size, p.entry_price, z, p.side = "long")
                 /\ settled(z).pnl \in Int /\ settled(z).borrow_fee \in Int
                 /\ settled(z).effective_funding \in Int
      BY <2>1, <2>2, RowEvaluation
    <3>2. settled(y).effective_funding = funding
      BY DEF evaluate
    <3> DEFINE row == evaluateRow(p, m, y, cfg.funding_cut_bps)
               pnl == calc_unrealized_pnl(p.size, e, y, is_long)
    <3> HIDE DEF settled
    <3>3. /\ due = calc_borrow_fee(p.size, p.entry_borrow_index, M.borrow_index)
          /\ due \in Int /\ funding \in Int
      BY <2>1, <3>1
    <3>4. /\ row = [pnl |-> pnl, borrow_fee |-> fee,
                    effective_funding |-> settled(y).effective_funding,
                    effective_health |-> calc_health(p.collateral, pnl, fee,
                                                     settled(y).effective_funding)]
          /\ settled(y).borrow_fee = due /\ pnl \in Int
          /\ settled(y).effective_health
               = calc_health(p.collateral, pnl, settled(y).borrow_fee,
                             settled(y).effective_funding)
      BY <3>1, <3>3
    <3>5. fee \in Int
      <4>1. p.size \in Nat /\ p.entry_borrow_index \in Int /\ m.borrow_index \in Int
        BY <2>1, <2>2 DEF Position
      <4> QED
        BY <4>1, FeeGrowsWithIndex
    <3>6. Unbilled(k) = due - fee /\ (vault.unclaimed_fees = 0 => due = fee)
      BY <2>2, <2>4, <3>3
    <3> HIDE DEF row, fee, pnl, due, funding
    <3>7. row.borrow_fee = fee /\ row.effective_funding = funding
      BY <3>2, <3>4
    <3>8. settled(y).effective_health = p.collateral + pnl - due + funding
      BY <3>2, <3>4 DEF calc_health
    <3> QED
      BY <3>3, <3>4, <3>5, <3>6, <3>7, <3>8 DEF row, pnl
  <2>7. price = IF is_long THEN e + adj ELSE e - adj
    BY <2>1, <2>5, <2>6
  <2>8. \A y \in Nat :
           Lacking(k, y) <= Unbilled(k)
             <=> T <= p.collateral + calc_unrealized_pnl(p.size, e, y, is_long) - fee + funding
    <3> SUFFICES ASSUME NEW y \in Nat
                 PROVE  Lacking(k, y) <= Unbilled(k)
                          <=> T <= p.collateral + calc_unrealized_pnl(p.size, e, y, is_long)
                                     - fee + funding
      OBVIOUS
    <3> DEFINE pnl == calc_unrealized_pnl(p.size, e, y, is_long)
               c   == p.collateral
    <3>1. /\ Lacking(k, y) = T - (c + pnl - due + funding) /\ Unbilled(k) = due - fee
          /\ pnl \in Int /\ fee \in Int /\ due \in Int /\ funding \in Int
      BY <2>4, <2>6
    <3> HIDE DEF pnl, fee, due, funding, c
    <3>2. c \in Int
      BY <2>1 DEF c
    <3>3. Lacking(k, y) <= Unbilled(k) <=> T <= c + pnl - fee + funding
      BY ONLY <2>3, <3>1, <3>2
    <3> QED
      BY <3>3 DEF pnl, c
  <2>9. /\ fee \in Int /\ funding \in Int /\ x \in Int
        /\ calc_unrealized_pnl(p.size, e, mark, is_long) \in Int
        /\ calc_unrealized_pnl(p.size, e, e, is_long) = 0
    <3>1. calc_unrealized_pnl(p.size, e, e, is_long) = 0
      <4>1. p.size * (e - e) = 0 /\ 0 * e = 0
        BY <2>1
      <4>2. TruncDiv(0, e) = 0
        BY <2>1, ZeroDivided
      <4> QED
        BY <4>1, <4>2 DEF calc_unrealized_pnl
    <3> QED
      BY <2>1, <2>3, <2>6, <3>1
  <2>10. mark = price => x <= 0
    <3> SUFFICES ASSUME mark = price
                 PROVE  x <= 0
      OBVIOUS
    <3>1. T <= p.collateral + 0 - fee + funding
      BY <2>1, <2>8, <2>9
    <3> HIDE DEF fee, funding
    <3> QED
      BY <2>1, <2>3, <2>9, <3>1
  <2>11. adj <= move /\ (move = adj => x <= 0) /\ adj \in Int /\ move \in Int
    <3>1. adj \in Int
      <4>1. e * x \in Int
        BY <2>1, <2>9, ProductType
      <4> HIDE DEF x, e
      <4> QED
        BY <2>1, <4>1, TruncDivType
    <3>2. OnSafeSide(p.side, mark, price)
      OBVIOUS
    <3> HIDE DEF adj, x, price
    <3> QED
      BY <2>1, <2>7, <2>10, <3>1, <3>2 DEF OnSafeSide
  <2>12. x <= calc_unrealized_pnl(p.size, e, mark, is_long)
    <3> HIDE DEF p, e, x, is_long
    <3>1. is_long \in BOOLEAN
      BY DEF is_long
    <3> QED
      BY <2>1, <2>9, <2>11, <3>1, PnlAtPrice
  <2>13. T <= p.collateral + calc_unrealized_pnl(p.size, e, mark, is_long) - fee + funding
    <3> HIDE DEF fee, funding, p, e, is_long
    <3> QED
      BY <2>1, <2>3, <2>9, <2>12
  <2>14. Lacking(k, mark) <= Unbilled(k)
    BY <2>1, <2>8, <2>13
  <2>15. ASSUME vault.unclaimed_fees = 0
         PROVE  ~Liquidatable(p, M, mark)
    <3>1. /\ settled(mark).effective_health
               = p.collateral + calc_unrealized_pnl(p.size, e, mark, is_long) - fee + funding
          /\ settled(mark).effective_health \in Int
      BY <2>1, <2>6, <2>15
    <3> HIDE DEF settled
    <3> QED
      BY <2>3, <2>4, <2>13, <3>1
  <2> QED
    BY <2>14, <2>15 DEF M
<1> QED
  BY <1>1, MirrorAlwaysInv, PTL

-----------------------------------------------------------------------------
(* Quotes *)

(* Fees that start now are nothing now. *)
LEMMA FreshPosition ==
    ASSUME PMInv, NEW M \in Market, NEW side \in Sides, NEW size \in Nat \ {0},
           NEW coll \in Nat, NEW mark \in Nat \ {0}, NEW later \in Nat
    PROVE  LET p == Increased(Blank(side), M, size, coll, 0, 0, mark)
           IN  /\ p.collateral = coll
               /\ evaluate(p, M, later, p.size, p.collateral).effective_health
                    = coll + calc_unrealized_pnl(size, mark, later, side = "long")
               /\ calc_unrealized_pnl(size, mark, later, side = "long") \in Int
<1> DEFINE p == Increased(Blank(side), M, size, coll, 0, 0, mark)
           is_long == side = "long"
           pnl == calc_unrealized_pnl(size, mark, later, is_long)
<1>1. \A x : update_global_avg_price(0, 0, x, size) = x
  BY DEF update_global_avg_price
<1>2. /\ p.collateral = coll /\ p.size = size /\ p.side = side /\ p.entry_price = mark
      /\ p.entry_borrow_index = M.borrow_index
      /\ p.entry_funding_index = M.funding_index
  BY <1>1 DEF Increased, Blank
<1>3. M.borrow_index \in Int /\ M.funding_index \in Int /\ INDEX_PRECISION \in Nat \ {0}
  BY ScaleAssumption DEF Market
<1> HIDE DEF p
<1>4. calc_borrow_fee(p.size, p.entry_borrow_index, M.borrow_index) = 0
  <2>1. (M.borrow_index - M.borrow_index) * size = 0
    BY <1>3
  <2> QED
    BY <1>2, <1>3, <2>1, ZeroDivided DEF calc_borrow_fee
<1>5. calc_funding_fee(p.size, p.entry_funding_index, M.funding_index, is_long) = 0
  <2>1. (M.funding_index - M.funding_index) * size = 0
    BY <1>3
  <2> QED
    BY <1>2, <1>3, <2>1, ZeroDivided DEF calc_funding_fee
<1>6. ZeroSum(M, side, 0) = 0
  BY DEF ZeroSum
<1>7. pnl \in Int
  <2> DEFINE move == IF is_long THEN later - mark ELSE mark - later
  <2>1. move \in Int /\ pnl = TruncDiv(size * move, mark)
    BY DEF calc_unrealized_pnl
  <2> HIDE DEF move, pnl
  <2>2. size * move \in Int
    BY <2>1, ProductType
  <2> QED
    BY <2>1, <2>2, TruncDivType
<1> HIDE DEF pnl
<1>8. evaluate(p, M, later, p.size, p.collateral).effective_health = coll + pnl - 0 + (0 - 0)
  BY <1>2, <1>4, <1>5, <1>6 DEF evaluate, calc_health, pnl
<1> QED
  BY <1>2, <1>7, <1>8 DEF pnl, p

(* The price shown for an order keeps the collateral above the threshold. *)
LEMMA QuotedPriceHolds ==
    ASSUME PMInv, NEW M \in Market, NEW side \in Sides, NEW size \in Nat \ {0},
           NEW coll \in Nat, NEW mark \in Nat \ {0}, NEW later \in Nat,
           OnSafeSide(side, later,
               liquidationPriceAtOpen(mark, coll, size, side = "long",
                                      cfg.liquidation_threshold_bps))
    PROVE  ~Liquidatable(Increased(Blank(side), M, size, coll, 0, 0, mark), M, later)
<1> DEFINE p == Increased(Blank(side), M, size, coll, 0, 0, mark)
           is_long == side = "long"
           thr  == cfg.liquidation_threshold_bps
           T    == TruncDiv(coll * thr, BPS)
           loss == TruncDiv(coll * (BPS - thr), BPS)
           adj  == TruncDiv(mark * loss, size)
           pnl  == calc_unrealized_pnl(size, mark, later, is_long)
           move == IF is_long THEN later - mark ELSE mark - later
<1>1. /\ PMTypeOK /\ thr \in Nat /\ BPS \in Nat \ {0} /\ BPS - thr \in Nat
  <2>1. PMTypeOK /\ cfg \in Config /\ BPS \in Nat \ {0} /\ cfg \in Configs /\ thr \in Nat
    BY ConfigType DEF PMInv, PMTypeOK, Config
  <2>2. thr <= BPS \div 10
    BY <2>1, PositionManagerAssumption DEF ValidConfig
  <2>3. BPS \div 10 <= BPS
    BY <2>1
  <2>4. BPS \div 10 \in Int
    BY <2>1
  <2> QED
    BY <2>1, <2>2, <2>3, <2>4
<1>2. /\ coll * thr \in Nat /\ coll * (BPS - thr) \in Nat
      /\ coll * (BPS - thr) = coll * BPS - coll * thr /\ coll * BPS \in Nat
  BY <1>1
<1> HIDE DEF thr
<1>3. T \in Nat /\ T * BPS <= coll * thr /\ loss \in Nat /\ loss * BPS <= coll * (BPS - thr)
  <2> DEFINE a == coll * thr
             b == coll * (BPS - thr)
  <2>1. a \in Nat /\ b \in Nat
    BY <1>2
  <2> HIDE DEF a, b
  <2>2. TruncDiv(a, BPS) \in Nat /\ TruncDiv(a, BPS) * BPS <= a
    BY <1>1, <2>1, NaturalQuotient
  <2>3. TruncDiv(b, BPS) \in Nat /\ TruncDiv(b, BPS) * BPS <= b
    BY <1>1, <2>1, NaturalQuotient
  <2> QED
    BY <2>2, <2>3 DEF a, b
<1> HIDE DEF T, loss
<1>4. T + loss <= coll
  <2>1. (T + loss) * BPS <= coll * BPS
    <3>1. (T + loss) * BPS = T * BPS + loss * BPS /\ T * BPS \in Nat /\ loss * BPS \in Nat
      BY <1>1, <1>3
    <3> QED
      BY <1>2, <1>3, <3>1
  <2> QED
    BY <1>1, <1>3, <2>1, CommonFactor
<1>5. adj \in Nat /\ adj * size <= mark * loss
  <2>1. mark * loss \in Nat
    BY <1>3, ProductType
  <2> DEFINE a == mark * loss
  <2> HIDE DEF a
  <2>2. TruncDiv(a, size) \in Nat /\ TruncDiv(a, size) * size <= a
    BY <2>1, TruncDivType DEF a
  <2> QED
    BY <2>2 DEF a
<1>6. -adj <= move /\ move \in Int
  <2>1. OnSafeSide(side, later, IF is_long THEN mark - adj ELSE mark + adj)
    BY DEF liquidationPriceAtOpen, adj, loss, thr
  <2> HIDE DEF adj
  <2> QED
    BY <1>5, <2>1 DEF OnSafeSide
<1> HIDE DEF adj
<1>7. -loss <= pnl /\ pnl \in Int
  <2>1. pnl = TruncDiv(size * move, mark)
    BY DEF calc_unrealized_pnl
  <2> HIDE DEF move, pnl
  <2>2. /\ size * move = move * size /\ move * size \in Int
        /\ (-adj) * size <= move * size /\ (-adj) * size = -(adj * size)
        /\ adj * size \in Int
    <3>1. -adj \in Int
      BY <1>5
    <3>2. (-adj) * size <= move * size
      BY <1>6, <3>1, ProductMonotone
    <3> QED
      BY <1>5, <1>6, <3>2, ProductType
  <2>3. (-loss) * mark = -(mark * loss) /\ mark * loss \in Int
    BY <1>3
  <2>4. (-loss) * mark <= move * size
    BY <1>5, <2>2, <2>3
  <2>5. -loss \in Int
    BY <1>3
  <2>6. -loss <= TruncDiv(move * size, mark) /\ TruncDiv(move * size, mark) \in Int
    BY <2>2, <2>4, <2>5, TruncDivBounds, TruncDivType
  <2> QED
    BY <2>1, <2>2, <2>6
<1> HIDE DEF p, pnl
<1>8. /\ p.collateral = coll
      /\ evaluate(p, M, later, p.size, p.collateral).effective_health = coll + pnl
  BY FreshPosition DEF p, pnl
<1>9. Liquidatable(p, M, later) <=> coll + pnl < T
  BY <1>8 DEF Liquidatable, T, thr
<1> QED
  BY <1>3, <1>4, <1>7, <1>9 DEF p

(* An order that fits the headroom shown passes the contract's gates. *)
LEMMA HeadroomHolds ==
    ASSUME PMInv, NEW size \in Nat \ {0},
           ~(size > liquidityHeadroom(VaultRow, cfg.max_utilization_ratio)),
           NEW fee \in Nat
    PROVE  /\ WithinUtilizationCap(size)
           /\ CanRecvRevenue(vault, fee)
           /\ CanReserve(recv_revenue(vault, fee), size)
<1> DEFINE basis == total_assets_excl_pnl(vault)
           mu    == cfg.max_utilization_ratio
           r     == vault.reserved_usdc
           cap   == TruncDiv(basis * mu, BPS)
<1>1. /\ PMTypeOK /\ vault \in Ledger /\ r \in Nat /\ basis \in Nat
      /\ vault.balance \in Nat /\ vault.unclaimed_fees \in Nat
      /\ vault.unclaimed_fees <= vault.balance
      /\ Funded(vault) /\ basis = vault.balance - vault.unclaimed_fees
  <2>1. PMTypeOK /\ vault \in Ledger /\ vault.unclaimed_fees <= vault.balance
    BY DEF PMInv, VaultInv, VaultTypeOK, FeesFunded, Ledger
  <2>2. r \in Nat /\ vault.balance \in Nat /\ vault.unclaimed_fees \in Nat
    BY <2>1 DEF Ledger
  <2>3. basis = vault.balance - vault.unclaimed_fees
    BY <2>1, <2>2 DEF total_assets_excl_pnl, AtLeastZero
  <2> QED
    BY <2>1, <2>2, <2>3 DEF Funded
<1>2. mu \in Nat /\ mu <= BPS /\ BPS \in Nat \ {0}
  <2>1. cfg \in Configs
    BY <1>1 DEF PMTypeOK
  <2> QED
    BY <1>1, <2>1, ConfigType, PositionManagerAssumption DEF ValidConfig
<1>3. safe_basis(VaultRow) = basis
  BY DEF safe_basis, VaultRow, total_assets_excl_pnl
<1>4. liquidityHeadroom(VaultRow, mu) = AtLeastZero(cap - r)
  BY <1>3 DEF liquidityHeadroom, VaultRow
<1> HIDE DEF basis, mu, r
<1>5. basis * mu \in Nat /\ basis * mu <= basis * BPS /\ basis * BPS \in Nat
  <2>1. mu * basis <= BPS * basis
    BY <1>1, <1>2, ProductMonotone
  <2> QED
    BY <1>1, <1>2, <2>1, ProductType
<1>6. cap \in Nat /\ cap * BPS <= basis * mu
  <2> DEFINE a == basis * mu
  <2>1. a \in Nat
    BY <1>5
  <2> HIDE DEF a
  <2>2. TruncDiv(a, BPS) \in Nat /\ TruncDiv(a, BPS) * BPS <= a
    BY <1>2, <2>1, TruncDivType
  <2> QED
    BY <2>2 DEF a
<1> HIDE DEF cap
<1>7. r + size <= cap
  BY <1>1, <1>4, <1>6 DEF AtLeastZero, mu
<1>8. (r + size) * BPS <= basis * mu /\ (r + size) * BPS \in Nat
  <2>1. r + size \in Int /\ (r + size) * BPS <= cap * BPS
    BY <1>1, <1>2, <1>6, <1>7, ProductMonotone
  <2>2. (r + size) * BPS \in Nat /\ cap * BPS \in Nat
    BY <1>1, <1>2, <1>6, ProductType
  <2> QED
    BY <1>5, <1>6, <2>1, <2>2
<1>9. r + size <= basis
  <2>1. cap * BPS <= basis * BPS /\ cap * BPS \in Nat
    BY <1>2, <1>5, <1>6, ProductType
  <2>2. cap <= basis
    BY <1>1, <1>2, <1>6, <2>1, CommonFactor
  <2> QED
    BY <1>1, <1>6, <1>7, <2>2
<1>10. WithinUtilizationCap(size)
  <2>1. basis > 0
    BY <1>1, <1>9
  <2>2. basis \in Nat \ {0} /\ (r + size) * BPS <= mu * basis
    BY <1>1, <1>2, <1>8, <2>1
  <2> DEFINE a == (r + size) * BPS
  <2>3. a \in Int /\ a <= mu * basis
    BY <1>8, <2>2
  <2> HIDE DEF a
  <2>4. TruncDiv(a, basis) <= mu
    BY <1>2, <2>2, <2>3, TruncDivBounds
  <2>5. calc_utilization_bps(r + size, basis) = TruncDiv(a, basis)
    BY <1>1, <2>1 DEF calc_utilization_bps, a
  <2> QED
    BY <2>4, <2>5 DEF WithinUtilizationCap, basis, mu, r
<1>11. /\ NonLpSlice(fee) \in Nat /\ NonLpSlice(fee) <= fee /\ AtLeastZero(fee) = fee
  BY <1>1, SliceType DEF AtLeastZero
<1>12. CanRecvRevenue(vault, fee)
  <2>1. /\ receive(vault, fee).balance = vault.balance + fee
        /\ receive(vault, fee).reserved_usdc = r
        /\ receive(vault, fee).unclaimed_fees = vault.unclaimed_fees
    BY <1>1, ReceiveKeepsFunded DEF r
  <2> QED
    BY <1>1, <1>9, <1>11, <2>1 DEF CanRecvRevenue, CanReslice, CanAccrue
<1>13. CanReserve(recv_revenue(vault, fee), size)
  <2> DEFINE v == recv_revenue(vault, fee)
  <2>1. /\ Funded(v) /\ v.reserved_usdc = r
        /\ v.balance - v.unclaimed_fees >= vault.balance - vault.unclaimed_fees
    BY <1>1, <1>12, RevenueKeepsFunded DEF r
  <2> HIDE DEF v
  <2>2. v.balance \in Nat /\ v.unclaimed_fees \in Nat
    BY <2>1 DEF Funded, Ledger
  <2> QED
    BY <1>1, <1>9, <2>1, <2>2 DEF CanReserve, v
<1> QED
  BY <1>10, <1>12, <1>13

LEMMA OrdersAreHonoured ==
    ASSUME PMInv
    PROVE  OrdersHonoured
<1> SUFFICES ASSUME NEW s \in Symbols, NEW mark \in Marks, NEW i \in Intents(s),
                    ~Quote(s, i, mark).exceeds_liquidity
             PROVE  LET q    == Quote(s, i, mark)
                        paid == recv_revenue(vault, q.open_fee)
                        p    == Increased(Blank(i.side), Refreshed(s), i.size, i.collateral,
                                          0, 0, mark)
                    IN  /\ q.open_fee = calc_open_fee(i.size, cfg.open_fee_bps)
                        /\ WithinUtilizationCap(i.size)
                        /\ CanRecvRevenue(vault, q.open_fee)
                        /\ CanReserve(paid, i.size)
                        /\ SlippageOk(i.side = "long", mark, q.acceptable_price)
                        /\ \A later \in Marks :
                              OnSafeSide(i.side, later, q.liquidation_price)
                                => ~Liquidatable(p, Refreshed(s), later)
  BY DEF OrdersHonoured
<1> DEFINE q == Quote(s, i, mark)
<1>1. /\ mark \in Nat \ {0} /\ Marks \subseteq Nat /\ PMTypeOK /\ Refreshed(s) \in Market
      /\ BPS \in Nat \ {0} /\ cfg \in Config
  BY MarksArePrices, RefreshedType, ConfigType DEF PMInv
<1>2. /\ i.side \in Sides /\ i.collateral \in Nat /\ i.size \in Nat \ {0}
      /\ i.slippage_bps \in Nat
  <2>1. s \in DOMAIN max_leverage /\ max_leverage[s] \in Int
    BY <1>1 DEF Intents, PMTypeOK
  <2>2. PICK side \in Sides, c \in Collaterals \ {0},
             leverage \in 1..max_leverage[s], b \in Slippages :
               i = [side |-> side, collateral |-> c, size |-> c * leverage, slippage_bps |-> b]
    BY <2>1 DEF Intents
  <2>3. c \in Nat \ {0} /\ leverage \in Nat \ {0} /\ b \in Nat
    BY <2>1, <2>2, PositionManagerAssumption, MirrorAssumption
  <2>4. c * leverage \in Nat \ {0}
    <3>1. (c - 1) * leverage \in Nat /\ c * leverage = (c - 1) * leverage + leverage
      BY <2>3
    <3> QED
      BY <2>3, <3>1
  <2> QED
    BY <2>2, <2>3, <2>4
<1>3. /\ q.open_fee = TruncDiv(i.size * cfg.open_fee_bps, BPS)
      /\ q.liquidation_price
           = liquidationPriceAtOpen(mark, i.collateral, i.size, i.side = "long",
                                    cfg.liquidation_threshold_bps)
      /\ q.acceptable_price = acceptablePrice(mark, i.side = "long", i.slippage_bps)
      /\ q.exceeds_liquidity
           <=> i.size > liquidityHeadroom(VaultRow, cfg.max_utilization_ratio)
  BY DEF Quote, evaluateIncrease
<1> HIDE DEF q
<1>4. q.open_fee = calc_open_fee(i.size, cfg.open_fee_bps) /\ q.open_fee \in Nat
  <2>1. i.size * cfg.open_fee_bps \in Nat
    BY <1>1, <1>2, ProductType DEF Config
  <2>2. TruncDiv(i.size * cfg.open_fee_bps, BPS) \in Nat
    BY <1>1, <2>1, TruncDivType
  <2> QED
    BY <1>2, <1>3, <2>2 DEF calc_open_fee
<1>5. /\ WithinUtilizationCap(i.size)
      /\ CanRecvRevenue(vault, q.open_fee)
      /\ CanReserve(recv_revenue(vault, q.open_fee), i.size)
  BY <1>2, <1>3, <1>4, HeadroomHolds DEF q
<1>6. SlippageOk(i.side = "long", mark, q.acceptable_price)
  <2>1. mark * i.slippage_bps \in Nat
    BY <1>1, <1>2, ProductType
  <2>2. TruncDiv(mark * i.slippage_bps, BPS) \in Nat
    BY <1>1, <2>1, TruncDivType
  <2> QED
    BY <1>1, <1>2, <1>3, <2>2 DEF acceptablePrice, SlippageOk
<1>7. ASSUME NEW later \in Marks, OnSafeSide(i.side, later, q.liquidation_price)
      PROVE  ~Liquidatable(Increased(Blank(i.side), Refreshed(s), i.size, i.collateral,
                                     0, 0, mark), Refreshed(s), later)
  <2>1. later \in Nat
    BY <1>1
  <2> QED
    BY <1>1, <1>2, <1>3, <1>7, <2>1, QuotedPriceHolds
<1> QED
  BY <1>4, <1>5, <1>6, <1>7 DEF q

(* The shares a withdrawal of a part of the stake costs are there, when the
   virtual shares the page leaves out weigh no more than a third of the others. *)
LEMMA PartOfStake ==
    ASSUME NEW n \in Nat, NEW S \in Nat \ {0}, NEW V \in Nat \ {0}, NEW bal \in Nat,
           NEW L \in Nat, NEW value \in Nat, NEW picked \in Nat,
           3 * V <= S, L <= bal, value * S <= n * L, 4 * picked <= 3 * value
    PROVE  picked * (S + V) <= n * (bal + 1)
<1>1. value * S <= n * bal
  <2>1. L * n <= bal * n /\ L * n = n * L /\ bal * n = n * bal
    <3>1. (bal - L) * n \in Nat /\ bal * n = L * n + (bal - L) * n /\ L * n \in Nat
      OBVIOUS
    <3> QED
      BY <3>1
  <2>2. n * L \in Nat /\ n * bal \in Nat /\ value * S \in Nat
    BY ProductType
  <2> QED
    BY <2>1, <2>2
<1>2. (4 * picked) * S <= (3 * value) * S
  <2>1. 3 * value - 4 * picked \in Nat /\ (3 * value - 4 * picked) * S \in Nat
    OBVIOUS
  <2>2. (3 * value) * S = (4 * picked) * S + (3 * value - 4 * picked) * S
    OBVIOUS
  <2>3. (4 * picked) * S \in Nat
    OBVIOUS
  <2> QED
    BY <2>1, <2>2, <2>3
<1>3. picked * (3 * V) <= picked * S
  <2>1. (S - 3 * V) * picked \in Nat
    OBVIOUS
  <2>2. picked * S = picked * (3 * V) + (S - 3 * V) * picked /\ picked * (3 * V) \in Nat
    OBVIOUS
  <2> QED
    BY <2>1, <2>2
<1>4. /\ (4 * picked) * S = 4 * (picked * S) /\ (3 * value) * S = 3 * (value * S)
      /\ picked * (3 * V) = 3 * (picked * V)
      /\ picked * (S + V) = picked * S + picked * V
      /\ n * (bal + 1) = n * bal + n
  OBVIOUS
<1>5. picked * S \in Nat /\ picked * V \in Nat /\ value * S \in Nat /\ n * bal \in Nat
  BY ProductType
<1> QED
  BY <1>1, <1>2, <1>3, <1>4, <1>5

(* The whole tens below a share of the amount. *)
LEMMA PickedPart ==
    ASSUME NEW most \in Nat, NEW pct \in {25, 50, 75}
    PROVE  LET amount == (most * pct) \div 100
               picked == amount - (amount % 10)
           IN  picked \in Nat /\ 4 * picked <= 3 * most /\ picked <= most
<1> DEFINE amount == (most * pct) \div 100
           picked == amount - (amount % 10)
<1>1. most * pct \in Nat /\ most * pct <= 75 * most
  OBVIOUS
<1>2. amount \in Nat /\ 100 * amount <= most * pct
  BY <1>1, QuotientBounds
<1> HIDE DEF amount
<1>3. amount % 10 \in 0..9 /\ picked \in Nat /\ picked <= amount
  <2>1. /\ amount \div 10 \in Nat /\ amount % 10 \in 0..9
        /\ amount = 10 * (amount \div 10) + (amount % 10)
    BY <1>2, DivisionFacts
  <2> QED
    BY <1>2, <2>1
<1> QED
  BY <1>1, <1>2, <1>3 DEF amount

LEMMA PicksAreHonoured ==
    ASSUME PMInv
    PROVE  PicksHonoured
<1> SUFFICES ASSUME NEW u \in LPs, NEW pct \in {25, 50, 75},
                    ~isLocked(u), canPickPercent(u), ~vault.is_paused,
                    supply >= 3 * VirtualShares
             PROVE  /\ LockupElapsed(u)
                    /\ pickWithdrawPercent(u, pct) <= AssetsFor(shares[u])
                    /\ pickWithdrawPercent(u, pct) <= free_liquidity(vault)
                    /\ SharesForUp(pickWithdrawPercent(u, pct)) <= shares[u]
  BY DEF PicksHonoured
<1> DEFINE n      == shares[u]
           bal    == vault.balance
           free   == free_liquidity(vault)
           value  == userValueUsdc(u)
           most   == maxWithdrawUsdc(u)
           assets == pickWithdrawPercent(u, pct)
<1>1. /\ VaultTypeOK /\ vault \in Ledger /\ vault.unclaimed_fees <= vault.balance
      /\ n \in Nat /\ supply \in Nat \ {0} /\ VirtualShares \in Nat \ {0}
  <2>1. VaultTypeOK /\ vault \in Ledger /\ vault.unclaimed_fees <= vault.balance
    BY DEF PMInv, VaultInv, VaultTypeOK, FeesFunded, Ledger
  <2>2. shares \in [LPs -> Nat] /\ supply \in Nat /\ VirtualShares \in Nat \ {0}
    BY <2>1, VaultAssumption DEF VaultTypeOK
  <2> QED
    BY <2>1, <2>2
<1>2. bal \in Nat /\ vault.reserved_usdc \in Nat /\ vault.unclaimed_fees \in Nat
  BY <1>1 DEF Ledger
<1>3. LockupElapsed(u)
  <2>1. expiry \in [LPs -> Nat] /\ now \in Nat
    BY <1>1 DEF VaultTypeOK
  <2> QED
    BY <2>1 DEF isLocked, LockupElapsed
<1>4. free \in Nat /\ (free > 0 => free <= bal - vault.reserved_usdc - vault.unclaimed_fees)
  BY <1>1, FreeLiquidityBound
<1>5. /\ lpTotal = free + vault.reserved_usdc
      /\ value = (n * lpTotal) \div supply
      /\ most = Least(value, free)
  BY <1>1 DEF lpTotal, userValueUsdc, maxWithdrawUsdc, VaultRow
<1>6. assets = (most * pct) \div 100 - (((most * pct) \div 100) % 10)
  BY DEF pickWithdrawPercent
<1>7. most > 0
  BY DEF canPickPercent
<1> HIDE DEF n, bal, free, value, most, assets
<1>8. lpTotal \in Nat /\ n * lpTotal \in Nat
  BY <1>1, <1>2, <1>4, <1>5, ProductType
<1>9. value \in Nat /\ value * supply <= n * lpTotal
  <2> DEFINE a == n * lpTotal
  <2>1. a \in Nat /\ value = a \div supply
    BY <1>5, <1>8
  <2> HIDE DEF a
  <2>2. a \div supply \in Nat /\ supply * (a \div supply) <= a
    BY <1>1, <2>1, QuotientBounds
  <2>3. value \in Nat /\ value * supply <= a
    BY <1>1, <2>1, <2>2
  <2> QED
    BY <2>3 DEF a
<1>10. most \in Nat /\ most <= value /\ most <= free
  BY <1>4, <1>5, <1>9 DEF Least
<1>11. lpTotal <= bal
  BY <1>2, <1>4, <1>5, <1>7, <1>10
<1>12. assets \in Nat /\ 4 * assets <= 3 * most /\ assets <= most
  BY <1>6, <1>10, PickedPart
<1>13. assets * (supply + VirtualShares) <= n * (bal + 1)
  <2>1. 4 * assets <= 3 * value
    BY <1>9, <1>10, <1>12
  <2>2. 3 * VirtualShares <= supply
    BY <1>1
  <2> QED
    BY <1>1, <1>2, <1>8, <1>9, <1>11, <1>12, <2>1, <2>2, PartOfStake
<1>14. /\ bal + 1 \in Nat \ {0} /\ supply + VirtualShares \in Nat \ {0}
       /\ SharesForUp(assets)
            = (assets * (supply + VirtualShares) + (bal + 1) - 1) \div (bal + 1)
       /\ AssetsFor(n) = (n * (bal + 1)) \div (supply + VirtualShares)
  BY <1>1, <1>12, ConversionQuotients DEF bal
<1> DEFINE B == bal + 1
           S == supply + VirtualShares
<1>15. /\ B \in Nat \ {0} /\ S \in Nat \ {0} /\ assets * S <= n * B
       /\ SharesForUp(assets) = (assets * S + B - 1) \div B
       /\ AssetsFor(n) = (n * B) \div S
  BY <1>13, <1>14
<1> HIDE DEF B, S
<1>16. SharesForUp(assets) <= n
  <2> DEFINE a == assets * S
  <2>1. a \in Nat /\ a <= B * n
    BY <1>1, <1>12, <1>15, ProductType
  <2> HIDE DEF a
  <2>2. (a + B - 1) \div B <= n
    BY <1>1, <1>15, <2>1, QuotientAtMost
  <2> QED
    BY <1>15, <2>2 DEF a
<1>17. assets <= AssetsFor(n)
  <2> DEFINE b == n * B
  <2>1. b \in Int /\ b >= 0 /\ assets * S <= b /\ AssetsFor(n) = b \div S
    BY <1>1, <1>15, ProductType
  <2> HIDE DEF b
  <2>2. assets <= TruncDiv(b, S)
    BY <1>12, <1>15, <2>1, TruncDivBounds
  <2> QED
    BY <2>1, <2>2 DEF TruncDiv
<1>18. assets <= free
  BY <1>4, <1>10, <1>12
<1> QED
  BY <1>3, <1>16, <1>17, <1>18 DEF assets, n, free

(* An order the form lets through passes the gates of the contract at the
   price it was quoted for, at the fee it was quoted, and is not liquidatable
   before the price it was shown; and the vault accepts a withdrawal of a part
   of the stake the page shows as free (quote.ts, OrderForm.tsx,
   VaultActions.tsx; do_increase_position, withdraw).                        *)
THEOREM QuotesAlwaysHonoured == MirrorSpec => []QuotesAreHonoured
<1>1. MirrorInv => QuotesAreHonoured
  BY OrdersAreHonoured, PicksAreHonoured DEF MirrorInv, QuotesAreHonoured
<1> QED
  BY <1>1, MirrorAlwaysInv, PTL
=============================================================================
