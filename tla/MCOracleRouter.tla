---------------------------- MODULE MCOracleRouter ----------------------------
(* The oracle router on small instances. *)
EXTENDS OracleRouter

CONSTANTS f1, f2, f3

Thresholds(deviation, staleness, duration, required) ==
    [max_deviation_bps |-> deviation, staleness_threshold |-> staleness,
     cache_duration |-> duration, min_required_sources |-> required]

(* A narrow band with a quorum of two, a wide band with fresher reports, and
   thresholds whose cache would outlive its reports.                         *)
MCConfigs ==
    {Thresholds(3, 1, 1, 2), Thresholds(5, 2, 1, 1), Thresholds(5, 1, 2, 1)}
MCSourceLists == {<<f1, f2, f3>>, <<f2, f2, f3>>}
==============================================================================
