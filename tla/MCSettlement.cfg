SPECIFICATION Spec
CONSTANTS
    BPS = 100
    INDEX_PRECISION = 100
    SECONDS_PER_YEAR = 1
    Admins = {admin}
    Pausers = {}
    LPs = {lp}
    Amounts = {300}
    ShareAmounts = {}
    Cooldowns = {0}
    VirtualShares = 1
    PMAmounts = {}
    NetPnls = {}
    MaxTime = 2
    MaxAssets = 300
    MaxShares = 300
    Traders = {alice, bob}
    Symbols = {btc, eth}
    Keepers = {keeper}
    Sizes = {100}
    Collaterals = {50}
    Prices = {80, 125}
    AcceptablePrices = {0}
    OrderPrices = {0}
    Configs <- ModerateOnly
    Leverages = {4}
    MaxIncreases = 3
SYMMETRY MarketSymmetry
INVARIANTS ReservationsMatchOpenInterest LosingClosesNeverBlocked PnlLedgersAgree
PROPERTIES SolvencyPreserved
