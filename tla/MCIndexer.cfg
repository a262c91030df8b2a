SPECIFICATION IndexerSpec
CONSTANTS
  Traders = {alice, bob}
  Prices = {1, 2}
  PageSize = 3
  MaxTxs = 2
  MaxPriceMoves = 1
  MaxFaults = 1
  Rejected = {}
INVARIANT OnlyArrivalsMissing
PROPERTIES ImplementsMirror CursorCatchesUp LatestPriceCatchesUp
