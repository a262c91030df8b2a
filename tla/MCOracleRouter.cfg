SPECIFICATION RouterSpec
CONSTANTS
    f1 = f1
    f2 = f2
    f3 = f3
    Feeds = {f1, f2, f3}
    OwnFeeds = {f1}
    RawPrices = {0, 100, 104}
    Stamps = {1}
    Configs <- MCConfigs
    SourceLists <- MCSourceLists
    BPS = 100
    MAX_DEVIATION_BPS_CEILING = 100
    MAX_ORACLE_SOURCES = 3
    MIN_REQUIRED_SOURCES_FLOOR = 1
    MaxTime = 3
INVARIANTS QuorumOfDistinctFeeds AnswersAreRecent RemovedFeedForgotten MajorityBracketsPrice
PROPERTIES OnePriceASecond
