SPECIFICATION Spec
CONSTANTS
    BPS = 100
    INDEX_PRECISION = 100
    SECONDS_PER_YEAR = 1
    Admins = {admin}
    Pausers = {}
    LPs = {lp}
    Amounts = {300}
    ShareAmounts = {}
    Cooldowns = {0}
    VirtualShares = 1
    PMAmounts = {}
    NetPnls = {}
    MaxTime = 1
    MaxAssets = 300
    MaxShares = 300
    Traders = {alice}
    Symbols = {btc}
    Keepers = {keeper}
    Sizes = {30, 70}
    Collaterals = {40}
    Prices = {100, 160}
    AcceptablePrices = {0, 130}
    OrderPrices = {0, 130}
    Configs <- OrderConfigs
    Leverages = {4}
    MaxIncreases = 2
INVARIANTS CustodyExact EscrowMatchesOrders
PROPERTIES PartialCloseKeepsLeverage
