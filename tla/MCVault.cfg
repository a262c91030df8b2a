SPECIFICATION VaultSpec
CONSTANTS
    BPS = 100
    INDEX_PRECISION = 100
    SECONDS_PER_YEAR = 1
    Admins = {admin}
    Pausers = {pauser}
    LPs = {lp1, lp2, lp3}
    Amounts = {1, 3}
    ShareAmounts = {1, 2}
    Cooldowns = {1, 2}
    VirtualShares = 2
    PMAmounts = {1, 2}
    NetPnls <- SomeNetPnls
    MaxTime = 2
    MaxAssets = 4
    MaxShares = 5
SYMMETRY Accounts
INVARIANTS SharesAddUp FeesFunded QuotesExecutable
PROPERTIES CooldownHonoured LockupCutOnlyByOwnDeposit OnlyReservingEndsSolvency NoDilution
