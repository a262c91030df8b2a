----------------------------- MODULE OracleRouter -----------------------------
(***************************************************************************)
(* The oracle router (contracts/oracle-router) for one symbol, and the     *)
(* feeds it reads: the repository's own Oracle contract                    *)
(* (contracts/oracle) and foreign SEP-40 feeds.                            *)
(*                                                                         *)
(* get_price answers from a cache or asks every source, drops what is      *)
(* unusable, and answers with the lower median if enough sources answered  *)
(* and agree.  In between, feeds report, break and lie about their         *)
(* timestamps, and the admin changes sources and thresholds; nothing of    *)
(* that touches the cache.                                                 *)
(***************************************************************************)
EXTENDS Integers, Sequences, FiniteSets, SequencesExt

CONSTANTS
    Feeds,          \* every feed the admin may configure
    OwnFeeds,       \* those that are this repository's Oracle contract
    RawPrices,      \* prices a feed may report: any i128
    Stamps,         \* timestamps a foreign feed may report: any u64
    Configs,        \* the thresholds the admin may try to set
    SourceLists,    \* the lists of feeds the admin may try to set
    BPS,
    MAX_DEVIATION_BPS_CEILING,
    MAX_ORACLE_SOURCES,
    MIN_REQUIRED_SOURCES_FLOOR,
    MaxTime         \* bound of the clock

ASSUME RouterAssumption ==
    /\ OwnFeeds \subseteq Feeds
    /\ RawPrices \subseteq Int
    /\ Stamps \subseteq Nat
    /\ Configs \subseteq [max_deviation_bps : Int, staleness_threshold : Nat,
                          cache_duration : Nat, min_required_sources : Nat]
    /\ SourceLists \subseteq Seq(Feeds)
    /\ BPS \in Nat \ {0}
    /\ MAX_DEVIATION_BPS_CEILING \in Nat
    /\ MAX_ORACLE_SOURCES \in Nat
    /\ MIN_REQUIRED_SOURCES_FLOOR \in Nat \ {0}
    /\ MaxTime \in Nat

VARIABLES
    now,        \* ledger timestamp
    feed,       \* what each feed would answer to get_price and last_update
    sources,    \* Sources(symbol): the configured feeds, in order
    config,     \* OracleConfig, absent until the admin sets it
    cache,      \* CachedPrice(symbol)
    basis,      \* history: the reports and thresholds the cache came from
    dropped,    \* history: when a feed was last removed from the sources
    served      \* history: the thresholds under which the last call of this
                \* second was answered

router == <<sources, config, cache>>
history == <<basis, dropped, served>>
routerVars == <<now, feed, router, history>>

None == [absent |-> TRUE]
Reports == [price : RawPrices, last_update : Stamps]

FeedsOf(list) == {f \in Feeds : \E i \in DOMAIN list : list[i] = f}

-----------------------------------------------------------------------------
(* Thresholds                                                                *)

validate(c) ==
    /\ c.max_deviation_bps > 0
    /\ c.max_deviation_bps <= MAX_DEVIATION_BPS_CEILING
    /\ c.staleness_threshold # 0
    /\ c.cache_duration # 0
    /\ c.cache_duration <= c.staleness_threshold
    /\ c.min_required_sources >= MIN_REQUIRED_SOURCES_FLOOR
    /\ c.min_required_sources <= MAX_ORACLE_SOURCES

(* Keeps every entry: a source listed twice would count twice.               *)
Doubled_dedup_sources(list) == list

KeptOnce(kept, s) == IF s \in FeedsOf(kept) THEN kept ELSE Append(kept, s)

(* The list without repetitions, first occurrences kept.                     *)
dedup_sources(list) == FoldLeft(KeptOnce, <<>>, list)

-----------------------------------------------------------------------------
(* The fetch pipeline                                                        *)

(* A report that survives the checks on presence, time and sign.             *)
Usable(report) ==
    /\ report # None
    /\ report.last_update <= now
    /\ now - report.last_update <= config.staleness_threshold
    /\ report.price > 0

AskedOnce(valid, s) == IF Usable(feed[s]) THEN Append(valid, s) ELSE valid

(* The sources that answer usefully, in order.                               *)
query_sources(list) == FoldLeft(AskedOnce, <<>>, list)

(* The same as a set, for the history.                                       *)
Answering(list) == {s \in FeedsOf(list) : Usable(feed[s])}

PricesOf(list) == [i \in DOMAIN list |-> feed[list[i]].price]

(* The key goes behind the prices that are not greater.                      *)
Inserted(sorted, key) ==
    InsertAt(sorted, 1 + Cardinality({i \in DOMAIN sorted : sorted[i] <= key}), key)

insertion_sort(prices) == FoldLeft(Inserted, <<>>, prices)

(* Half of the length less one, whether or not the length is even.           *)
Low_median_idx(n) == IF n = 1 THEN 0 ELSE (n \div 2) - 1

(* Index of the lower median, counted from 0 as in the code.                 *)
median_idx(n) == IF n % 2 = 1 THEN n \div 2 ELSE (n \div 2) - 1

(* The larger of the two one-sided deviations.                               *)
deviation_bps(median, min, max) ==
    LET upper == ((max - median) * BPS) \div median
        lower == ((median - min) * BPS) \div median
    IN  IF upper > lower THEN upper ELSE lower

(* What fetching from these sources would return, if it returns.             *)
Median(list) ==
    LET sorted == insertion_sort(PricesOf(query_sources(list)))
    IN  sorted[1 + median_idx(Len(sorted))]

(* The checks fetch_and_validate_price makes on a miss: there are sources,
   enough of them answer, and they agree.                                    *)
CanFetch(list) ==
    LET valid  == query_sources(list)
        sorted == insertion_sort(PricesOf(valid))
        n      == Len(sorted)
    IN  /\ n > 0
        /\ n >= config.min_required_sources
        /\ deviation_bps(Median(list), sorted[1], sorted[n])
             <= config.max_deviation_bps

-----------------------------------------------------------------------------
RouterInit ==
    /\ now = 0
    /\ feed = [f \in Feeds |-> None]
    /\ sources = <<>>
    /\ config = None
    /\ cache = None
    /\ basis = None
    /\ dropped = [f \in Feeds |-> 0]
    /\ served = None

Tick ==
    /\ now < MaxTime
    /\ now' = now + 1
    /\ served' = None
    /\ UNCHANGED <<feed, router, basis, dropped>>

(* A publisher pushes a price: set_price checks neither sign nor size and
   stamps the ledger time.                                                   *)
SetPrice(f, price) ==
    /\ feed' = [feed EXCEPT ![f] = [price |-> price, last_update |-> now]]
    /\ UNCHANGED <<now, router, history>>

(* A foreign feed reports what it likes, even from the future, or breaks.    *)
ForeignReport(f, report) ==
    /\ feed' = [feed EXCEPT ![f] = report]
    /\ UNCHANGED <<now, router, history>>

SetOracleSources(list) ==
    /\ Len(list) <= MAX_ORACLE_SOURCES
    /\ sources' = dedup_sources(list)
    /\ dropped' = [f \in Feeds |->
                      IF f \in FeedsOf(sources) \ FeedsOf(sources') THEN now
                      ELSE dropped[f]]
    /\ UNCHANGED <<now, feed, config, cache, basis, served>>

SetOracleConfig(c) ==
    /\ validate(c)
    /\ config' = c
    /\ UNCHANGED <<now, feed, sources, cache, history>>

(* Honours the cache as long as a report, not as long as a cached price.     *)
Long_CacheHit == cache # None /\ now <= cache.last_update + config.staleness_threshold

CacheHit == cache # None /\ now <= cache.last_update + config.cache_duration

(* Renews the entry at every use.                                            *)
Sliding_GetCachedPrice ==
    /\ config # None
    /\ CacheHit
    /\ cache' = [cache EXCEPT !.last_update = now]
    /\ served' = config
    /\ UNCHANGED <<now, feed, sources, config, basis, dropped>>

(* get_price within the cache's duration: nothing is asked, nothing stored.  *)
GetCachedPrice ==
    /\ config # None
    /\ CacheHit
    /\ served' = config
    /\ UNCHANGED <<now, feed, router, basis, dropped>>

(* The cache entry dated by its oldest report, not by the time of the fetch. *)
Backdated_NewEntry(list) ==
    [price |-> Median(list),
     last_update |-> Min({feed[s].last_update : s \in Answering(list)})]

NewEntry(list) == [price |-> Median(list), last_update |-> now]

(* get_price on a miss: ask, check, cache, answer.                           *)
FetchPrice ==
    /\ config # None
    /\ ~CacheHit
    /\ CanFetch(sources)
    /\ cache' = NewEntry(sources)
    /\ basis' = [reports |-> [s \in Answering(sources) |-> feed[s]],
                 config  |-> config]
    /\ served' = config
    /\ UNCHANGED <<now, feed, sources, config, dropped>>

RouterNext ==
    \/ Tick
    \/ \E f \in OwnFeeds, price \in RawPrices : SetPrice(f, price)
    \/ \E f \in Feeds \ OwnFeeds, report \in Reports \cup {None} : ForeignReport(f, report)
    \/ \E list \in SourceLists : SetOracleSources(list)
    \/ \E c \in Configs : SetOracleConfig(c)
    \/ GetCachedPrice
    \/ FetchPrice

RouterSpec == RouterInit /\ [][RouterNext]_routerVars

-----------------------------------------------------------------------------
(* Type invariant: what is stored has the form the code stores.              *)
RouterTypeOK ==
    /\ now \in 0..MaxTime
    /\ feed \in [Feeds -> [price : RawPrices, last_update : Stamps \cup 0..MaxTime] \cup {None}]
    /\ sources \in Seq(Feeds)
    /\ config \in Configs \cup {None}
    /\ cache \in [price : RawPrices, last_update : 0..MaxTime] \cup {None}
    /\ basis = None <=> cache = None
    /\ dropped \in [Feeds -> 0..MaxTime]
    /\ served \in Configs \cup {None}

(* The quorum counts independent feeds: behind a cached price stand at least
   min_required_sources different feeds, as many as were required when it was
   fetched (logic.rs, fetch_and_validate_price; dedup_sources).              *)
QuorumOfDistinctFeeds ==
    cache # None =>
        Cardinality(DOMAIN basis.reports) >= basis.config.min_required_sources

(* The answer is the majority's: whichever feeds lie, as long as those that
   do not are more than half of the reporting ones, the cached price lies
   between the prices of two that do not (logic.rs, the lower median).       *)
MajorityBracketsPrice ==
    cache # None =>
        \A honest \in SUBSET DOMAIN basis.reports :
            2 * Cardinality(honest) > Cardinality(DOMAIN basis.reports) =>
                \E f, g \in honest : /\ basis.reports[f].price <= cache.price
                                     /\ cache.price <= basis.reports[g].price

(* An answer is never based on a report older than the staleness threshold in
   force when it was fetched and the cache duration in force when it was given
   together, nor on one from the future, whatever the admin changes in
   between (logic.rs, fetch_and_validate_price).                             *)
AnswersAreRecent ==
    served # None =>
        \A f \in DOMAIN basis.reports :
            LET age == now - basis.reports[f].last_update
            IN  /\ age >= 0
                /\ age <= basis.config.staleness_threshold + served.cache_duration

(* A feed removed from the sources stops to influence answers: none given later
   than a cache duration after the removal rests on its report
   (contract.rs, set_oracle_sources leaves the cache alone).                 *)
RemovedFeedForgotten ==
    served # None =>
        \A f \in DOMAIN basis.reports \ FeedsOf(sources) :
            now <= dropped[f] + served.cache_duration

(* All calls of one second get the same price as long as the thresholds stay:
   every trade of a ledger settles at one price, even while feeds push and
   sources change (logic.rs, the cache written with the time of the fetch).  *)
OnePriceASecond ==
    [][(served # None /\ served' = served /\ now' = now)
         => cache'.price = cache.price]_routerVars

-----------------------------------------------------------------------------
(* The inductive invariant behind the properties about the cache.      *)

(* Thresholds in use are thresholds that were accepted.                      *)
ThresholdsTyped ==
    /\ now \in Nat
    /\ config \in Configs \cup {None}
    /\ served \in Configs \cup {None}

(* An entry was made from reports that were fresh and not ahead of time.     *)
EntryFromFreshReports ==
    cache # None =>
        /\ cache.last_update \in Nat
        /\ cache.last_update <= now
        /\ basis.config \in Configs
        /\ \A f \in DOMAIN basis.reports :
              /\ basis.reports[f].last_update \in Nat
              /\ basis.reports[f].last_update <= cache.last_update
              /\ cache.last_update - basis.reports[f].last_update
                    <= basis.config.staleness_threshold

(* Whoever stands behind the entry but is no source any more was removed after
   the fetch.                                                                *)
EntryOlderThanRemoval ==
    /\ dropped \in [Feeds -> Nat]
    /\ cache # None =>
          \A f \in DOMAIN basis.reports \ FeedsOf(sources) :
              f \in Feeds /\ cache.last_update <= dropped[f]

(* What answered in this second would still answer under the same thresholds. *)
ServedStillCached ==
    served # None => /\ cache # None
                     /\ now <= cache.last_update + served.cache_duration

(* No source is configured twice.                                            *)
SourcesDistinct ==
    /\ sources \in Seq(Feeds)
    /\ IsInjective(sources)

ReportsTyped ==
    feed \in [Feeds -> [price : RawPrices, last_update : Nat] \cup {None}]

RouterInv ==
    /\ ThresholdsTyped
    /\ ReportsTyped
    /\ SourcesDistinct
    /\ QuorumOfDistinctFeeds
    /\ MajorityBracketsPrice
    /\ EntryFromFreshReports
    /\ EntryOlderThanRemoval
    /\ ServedStillCached
==============================================================================
