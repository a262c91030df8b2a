SPECIFICATION Spec
CONSTANTS
    BPS = 100
    INDEX_PRECISION = 100
    SECONDS_PER_YEAR = 1
    Admins = {admin}
    Pausers = {}
    LPs = {lp}
    Amounts = {300}
    ShareAmounts = {}
    Cooldowns = {0}
    VirtualShares = 1
    PMAmounts = {}
    NetPnls = {}
    MaxTime = 1
    MaxAssets = 300
    MaxShares = 300
    Traders = {alice}
    Symbols = {btc}
    Keepers = {keeper}
    Sizes = {200}
    Collaterals = {50}
    Prices = {80, 150}
    AcceptablePrices = {0}
    OrderPrices = {0}
    Configs <- TimelessOnly
    Leverages = {4}
    MaxIncreases = 1
INVARIANTS AffordableExitsGoThrough
