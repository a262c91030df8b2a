SPECIFICATION MirrorSpec
CONSTANTS
    BPS = 100
    INDEX_PRECISION = 100
    SECONDS_PER_YEAR = 1
    Admins = {admin}
    Pausers = {pauser}
    LPs = {lp}
    Amounts = {570}
    ShareAmounts = {}
    Cooldowns = {0}
    VirtualShares = 1
    PMAmounts = {}
    NetPnls = {}
    MaxTime = 4
    MaxAssets = 570
    MaxShares = 570
    Traders = {alice}
    Symbols = {btc}
    Keepers = {keeper}
    Sizes = {200}
    Collaterals = {100}
    Prices = {100}
    AcceptablePrices = {0}
    OrderPrices = {0}
    Configs <- MCConfigs
    Leverages = {4}
    MaxIncreases = 2
    SECONDS_PER_DAY = 1
    Marks <- MCMarks
    Slippages = {5}
INVARIANTS
    LiveSecondsBilledAtMostOnce
    ProjectionIsRefresh CandidatesAreLiquidatable LiquidationPriceHolds QuotesAreHonoured
