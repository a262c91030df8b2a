--------------------------- MODULE OraclePublisher ---------------------------
(***************************************************************************)
(* A price publisher (packages/oracle-base, run for one exchange by        *)
(* oracle-binance and oracle-kucoin): polls the exchange's best bid and    *)
(* ask for each ticker in turn and pushes the mid price to its own oracle  *)
(* contract, when it has moved enough or the last push is old enough.      *)
(*                                                                         *)
(* Prices are in units of 1/PRECISION dollar.  Ages are counted in units   *)
(* of the poll interval, up to pushOnStaleSec, so time needs no bound.     *)
(***************************************************************************)
EXTENDS Integers, Sequences, FiniteSets

CONSTANTS
  Tickers,                     \* in the order of the loop
  Books,                       \* what the exchange may answer: [bid, ask, age]
  Markets,                     \* those that the book of a ticker can truly be
  STALENESS,                   \* stalenessMs of the source
  BPS_DENOMINATOR,
  pushOnDeltaBps, pushOnStale, maxDeltaBpsPerTick, minInterval,   \* PushPolicy
  MaxMoves,                    \* bound: how often a book changes
  MaxFaults                    \* bound: failed or rogue answers, lost or late
                               \* transactions, restarts

ASSUME PublisherAssumption ==
  /\ Len(Tickers) \in Nat \ {0} /\ DOMAIN Tickers = 1..Len(Tickers)
  /\ Books \subseteq [bid : Int, ask : Int, age : Nat] /\ Markets \subseteq Books
  /\ BPS_DENOMINATOR \in Nat \ {0} /\ STALENESS \in Nat
  /\ {pushOnDeltaBps, maxDeltaBpsPerTick, minInterval, MaxMoves, MaxFaults} \subseteq Nat
  /\ pushOnStale \in Nat \ {0}

VARIABLES
  book,      \* [ticker -> Markets]: the exchange
  oracle,    \* [ticker -> NoReport or [price, age]]: the oracle contract
  lastPush,  \* [ticker -> NoReport or [price, age]]: what the loop remembers
  loop,      \* the ticker it is at, its step, the price it sends
  network,   \* transactions that may still be included
  moves, faults

vars == <<book, oracle, lastPush, loop, network, moves, faults>>

TickerSet == {Tickers[i] : i \in DOMAIN Tickers}
NoReport == [price |-> 0, age |-> pushOnStale]

-----------------------------------------------------------------------------
(* createBookTickerSource, scaleUsd and the thresholds.                    *)

\* Not older than the source allows, positive on both sides, not crossed.
UsableBook(b) == b.age <= STALENESS /\ b.bid > 0 /\ b.ask > 0 /\ b.ask >= b.bid

\* The mid of the book, rounded down to a unit.
scaleUsd(b) == (b.bid + b.ask) \div 2

absDeltaBps(a, b) ==
  IF b <= 0 THEN 0 ELSE ((IF a > b THEN a - b ELSE b - a) * BPS_DENOMINATOR) \div b

\* Faulty: no threshold on age.
Unaged_shouldPush(prev, next) ==
  prev = NoReport \/ absDeltaBps(next, prev.price) >= pushOnDeltaBps

shouldPush(prev, next) ==
  \/ prev = NoReport
  \/ prev.age >= pushOnStale
  \/ absDeltaBps(next, prev.price) >= pushOnDeltaBps

\* Faulty: no print is an outlier.
Trusting_InReach(prev, next) == TRUE

\* The print is no outlier against the last recorded push.
InReach(prev, next) == prev # NoReport => absDeltaBps(next, prev.price) <= maxDeltaBpsPerTick

Throttled(prev) == prev # NoReport /\ prev.age < minInterval

-----------------------------------------------------------------------------
(* The exchange, the ledger, time.                                         *)

BookMoves(t) ==
  /\ moves < MaxMoves /\ moves' = moves + 1
  /\ \E b \in Markets \ {book[t]} : book' = [book EXCEPT ![t] = b]
  /\ UNCHANGED <<oracle, lastPush, loop, network, faults>>

Faulted == faults < MaxFaults /\ faults' = faults + 1

\* set_price of the oracle contract.  Pending transactions carry the same
\* sequence number, so the others are void.
Include(tx) ==
  /\ tx \in network /\ network' = {}
  /\ oracle' = [oracle EXCEPT ![tx.ticker] = [price |-> tx.price, age |-> 0]]
  /\ loop' = IF loop.step = "sent" /\ ~tx.late THEN [loop EXCEPT !.step = "included"] ELSE loop
  /\ UNCHANGED <<book, lastPush, moves, faults>>

Lose(tx) ==
  /\ tx \in network /\ Faulted
  /\ network' = network \ {tx}
  /\ UNCHANGED <<book, oracle, lastPush, loop, moves>>

Older(r) == [r EXCEPT !.age = IF @ < pushOnStale THEN @ + 1 ELSE @]

TimePasses ==
  /\ oracle' = [t \in TickerSet |-> Older(oracle[t])]
  /\ lastPush' = [t \in TickerSet |-> Older(lastPush[t])]
  /\ loop' = IF loop.step = "sleep" THEN [loop EXCEPT !.step = "poll"] ELSE loop
  /\ UNCHANGED <<book, network, moves, faults>>

-----------------------------------------------------------------------------
(* The loop (loop.ts).                                                     *)

AtTicker == Tickers[loop.at]

\* tickOnce is done: the next ticker, or a sleep and the first one again.
NextTicker ==
  IF loop.at < Len(Tickers) THEN [at |-> loop.at + 1, step |-> "poll", price |-> 0]
                            ELSE [at |-> 1, step |-> "sleep", price |-> 0]

\* The exchange does not answer in time, or not with a book.
FetchFails ==
  /\ loop.step = "poll" /\ Faulted
  /\ loop' = NextTicker
  /\ UNCHANGED <<book, oracle, lastPush, network, moves>>

\* A print is dropped or, when it passes, sent in a new transaction.
Decide(b) ==
  LET prev == lastPush[AtTicker]
      next == scaleUsd(b)
  IN  IF UsableBook(b) /\ InReach(prev, next) /\ ~Throttled(prev) /\ shouldPush(prev, next)
      THEN /\ loop' = [loop EXCEPT !.step = "sent", !.price = next]
           /\ network' = network \cup {[ticker |-> AtTicker, price |-> next, late |-> FALSE]}
      ELSE loop' = NextTicker /\ UNCHANGED network

Poll ==
  /\ loop.step = "poll"
  /\ Decide(book[AtTicker])
  /\ UNCHANGED <<book, oracle, lastPush, moves, faults>>

\* A print that is not the book of the ticker.
RoguePrint ==
  /\ loop.step = "poll" /\ Faulted
  /\ \E b \in Books \ {book[AtTicker]} : Decide(b)
  /\ UNCHANGED <<book, oracle, lastPush, moves>>

\* setPrice returns.
Confirm ==
  /\ loop.step = "included"
  /\ lastPush' = [lastPush EXCEPT ![AtTicker] = [price |-> loop.price, age |-> 0]]
  /\ loop' = NextTicker
  /\ UNCHANGED <<book, oracle, network, moves, faults>>

\* setPrice throws: the transaction is lost or void, or the answer about it
\* is, in time or for good.  It may still be included, or have been.
SubmitFails ==
  /\ \/ loop.step = "sent" /\ (\A tx \in network : tx.late) /\ UNCHANGED faults
     \/ loop.step \in {"sent", "included"} /\ Faulted
  /\ network' = {[tx EXCEPT !.late = TRUE] : tx \in network}
  /\ loop' = NextTicker
  /\ UNCHANGED <<book, oracle, lastPush, moves>>

\* The process ends and is started again: the map of last pushes is empty.
Restart ==
  /\ Faulted
  /\ lastPush' = [t \in TickerSet |-> NoReport]
  /\ loop' = [at |-> 1, step |-> "poll", price |-> 0]
  /\ network' = {[tx EXCEPT !.late = TRUE] : tx \in network}
  /\ UNCHANGED <<book, oracle, moves>>

-----------------------------------------------------------------------------
(* The specification.                                                      *)

PublisherInit ==
  /\ book \in [TickerSet -> Markets]
  /\ oracle = [t \in TickerSet |-> NoReport] /\ lastPush = [t \in TickerSet |-> NoReport]
  /\ loop = [at |-> 1, step |-> "poll", price |-> 0]
  /\ network = {} /\ moves = 0 /\ faults = 0

PublisherNext ==
  \/ \E t \in TickerSet : BookMoves(t)
  \/ \E tx \in network : Include(tx) \/ Lose(tx)
  \/ TimePasses
  \/ FetchFails \/ Poll \/ RoguePrint \/ Confirm \/ SubmitFails \/ Restart

\* The loop goes on, time passes and the ledger takes what is pending.
PublisherFairness ==
  /\ WF_vars(Poll) /\ WF_vars(Confirm) /\ WF_vars(SubmitFails) /\ WF_vars(TimePasses)
  /\ WF_vars(\E tx \in network : Include(tx))

PublisherSpec == PublisherInit /\ [][PublisherNext]_vars /\ PublisherFairness

-----------------------------------------------------------------------------
(* Properties.                                                             *)

\* What the book of a ticker says is beyond the reach of the last push.
Outrun(t) == ~InReach(lastPush[t], scaleUsd(book[t]))

\* A market that comes to rest is published, and published again and again,
\* after any failed polls and submissions, rogue prints and restarts, unless
\* it has outrun the filter for outliers (loop.ts, tickOnce).
RestingMarketIsPublished ==
  \A t \in TickerSet :
    \/ <>[]Outrun(t)
    \/ <>[](oracle[t].price = scaleUsd(book[t])) /\ []<>(oracle[t].age = 0)

\* What lands in the oracle contract is in reach of the last push the loop has
\* recorded for the ticker, also when it lands after the loop has given it up,
\* or after it has pushed for other tickers.  That need not be what the
\* contract held before: a push that landed without the loop hearing of it is
\* not recorded, and after a restart nothing is (loop.ts:113-123).
LandsWithinReach ==
  [][\A t \in TickerSet :
       oracle'[t] # oracle[t] /\ oracle'[t].age = 0
         => absDeltaBps(oracle'[t].price, lastPush[t].price) <= maxDeltaBpsPerTick]_vars

-----------------------------------------------------------------------------
(* What makes LandsWithinReach hold (OracleProofs).                        *)

Report == [price : Int, age : Nat]

PublisherTypeOK ==
  /\ book \in [TickerSet -> Markets]
  /\ oracle \in [TickerSet -> Report] /\ lastPush \in [TickerSet -> Report]
  /\ loop \in [at : DOMAIN Tickers, step : {"poll", "sent", "included", "sleep"}, price : Int]
  /\ network \subseteq [ticker : TickerSet, price : Int, late : BOOLEAN]

\* A push is recorded only when nothing is under way any more.
NothingPendingAtRecord == loop.step = "included" => network = {}

\* What is under way is within reach of what is recorded by now.
PendingWithinReach ==
  \A tx \in network : absDeltaBps(tx.price, lastPush[tx.ticker].price) <= maxDeltaBpsPerTick

PublisherInv == PublisherTypeOK /\ NothingPendingAtRecord /\ PendingWithinReach
=============================================================================
