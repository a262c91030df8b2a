SPECIFICATION KeeperSpec
CONSTANTS
  Positions = {pos}
  Markets = {btc}
  Situations <- MCSituations
  DEDUP_TTL = 2
  INDICES_DEDUP_TTL = 1
  TX_TIMEOUT = 1
  MaxMoves = 2
  MaxFaults = 1
INVARIANT PaysInVainOnlyAfterMove
PROPERTY DueGetsDone
