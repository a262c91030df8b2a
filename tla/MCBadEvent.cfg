SPECIFICATION IndexerSpec
CONSTANTS
  Traders = {alice}
  Prices = {1}
  PageSize = 3
  MaxTxs = 1
  MaxPriceMoves = 0
  MaxFaults = 0
  Rejected <- MCRejected
PROPERTY BadEventPassedOver
