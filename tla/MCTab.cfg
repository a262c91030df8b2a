SPECIFICATION BrowserSpec
CONSTANTS
  Feeds = {"prices", "market", "vault", "trades", "positions", "walletBalance", "config", "none"}
  BufLen = 2
  MaxChanges = 3
  MaxNoise = 2
  MaxMounts = 1
  MaxFaults = 1
  Accounts = {alice, bob}
  NoAccount = nobody
  MaxSwitches = 1
  MaxHides = 1
  Markets = {xlm}
  Apps = {vault}
  MaxHistory = 3
  None = none
INVARIANTS ToastsAreFinal AskedWindowShows BackUndoesOneWindow
PROPERTIES HeardChangesShown AccountCatchesUp
CHECK_DEADLOCK FALSE
