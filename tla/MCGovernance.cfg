SPECIFICATION GovSpec
CONSTANTS
    Accounts = {a1, a2, a3}
    Contracts = {vault, oracle}
    Timelocked = {vault}
    Hashes = {h1, h2}
    Timelocks = {0, 1, 2}
    MIN_UPGRADE_TIMELOCK = 1
    DEFAULT_UPGRADE_TIMELOCK = 1
    MaxTime = 4
SYMMETRY Interchangeable
INVARIANTS OneAdmin
PROPERTIES HandoverByConsent TimelockHonoured
