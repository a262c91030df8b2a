SPECIFICATION PublisherSpec
CONSTANTS
  Tickers <- MCTickers
  Books <- MCBooks
  Markets <- MCMarkets
  STALENESS = 5
  BPS_DENOMINATOR = 10000
  pushOnDeltaBps = 5
  pushOnStale = 2
  maxDeltaBpsPerTick = 200
  minInterval = 1
  MaxMoves = 1
  MaxFaults = 2
PROPERTIES RestingMarketIsPublished LandsWithinReach
