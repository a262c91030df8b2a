-------------------------- MODULE MCOraclePublisher --------------------------
(* Two tickers over one account.  From one market to the next it is 2, 197  *)
(* and 294 basis points; the filter for outliers is at 200.  The other two  *)
(* books are stale and crossed.                                             *)
EXTENDS OraclePublisher

MCTickers == <<"BTCUSD", "ETHUSD">>
MCMarkets == {[bid |-> 9999, ask |-> 10001, age |-> 0], [bid |-> 10001, ask |-> 10004, age |-> 1],
              [bid |-> 10199, ask |-> 10200, age |-> 0], [bid |-> 10500, ask |-> 10500, age |-> 0]}
MCBooks == MCMarkets \cup {[bid |-> 9000, ask |-> 9001, age |-> 6],
                           [bid |-> 10400, ask |-> 9000, age |-> 0]}
=============================================================================
