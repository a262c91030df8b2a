------------------------------- MODULE Keeper -------------------------------
(***************************************************************************)
(* The keeper bot (packages/keeper): a hot loop that liquidates, a cold    *)
(* loop that updates indices, executes orders and deleverages.  Both read  *)
(* what the indexer has mirrored, claim a key in a map of times to live    *)
(* and submit through one FIFO chain under one Stellar account.            *)
(*                                                                         *)
(* What is worth doing is the set due[p] of calls the contract would       *)
(* accept for a position now; the market moves it.  Times are counted in   *)
(* ticks and claims by what is left of them, so that time needs no bound.  *)
(***************************************************************************)
EXTENDS Integers, Sequences, FiniteSets

CONSTANTS
  Positions,          \* (trader, symbol) pairs
  Markets,            \* symbols; the key of a market is `indices:${symbol}`
  Situations,         \* bound: the sets of calls that can be due together
  DEDUP_TTL,          \* KEEPER_LIQUIDATION_DEDUP_TTL_MS
  INDICES_DEDUP_TTL,  \* KEEPER_INDEX_UPDATE_DEDUP_TTL_MS
  TX_TIMEOUT,         \* KEEPER_TX_TIMEOUT_SECONDS
  MaxMoves,           \* bound: how often the market moves
  MaxFaults           \* bound: RPC errors, lost transactions, stalls, crashes

Calls == {"liquidate_position", "execute_order", "deleverage_position"}

ASSUME KeeperAssumption ==
  /\ {DEDUP_TTL, INDICES_DEDUP_TTL, TX_TIMEOUT} \subseteq Nat \ {0}
  /\ {MaxMoves, MaxFaults} \subseteq Nat
  /\ Positions \cap Markets = {}
  /\ \A s \in Situations : s \subseteq Calls

VARIABLES
  due,      \* [Positions -> SUBSET Calls]: what the contract would accept now
  aged,     \* SUBSET Markets: live markets whose indices are over the threshold
  db,       \* the indexer's tables: [due, aged] as last mirrored; is it stalled
  claims,   \* TtlDedup: what is left of each key's claim; 0 is free
  todo,     \* [Loops -> SUBSET Op]: the rest of a loop's pass over its world
  line,     \* the serializer's chain; its head is being worked on
  exec,     \* where submitWithSim is with the head: phase, time left, answer
  network,  \* transactions sent and neither included nor void nor lost
  fees,     \* tally and rows kept; history: succeeded and wasted on chain
  moves, faults

vars == <<due, aged, db, claims, todo, line, exec, network, fees, moves, faults>>

Loops == {"hot", "cold"}
Keys  == Positions \cup Markets
Op    == [call : Calls, key : Positions] \cup [call : {"update_indices"}, key : Markets]

\* A transaction: late once the keeper has given it up, moved once the market
\* has touched its position after the simulation had passed.
Tx == [op : Op, late : BOOLEAN, moved : BOOLEAN]

\* What the serializer's chain holds, what the executor is at, what is counted.
Item   == [loop : Loops, op : Op]
Work   == [phase : {"idle", "built", "sent"}, left : 0..TX_TIMEOUT,
           answer : {"none", "ok", "failed"}, moved : BOOLEAN, void : BOOLEAN]
Counts == [tally : Nat, rows : Nat, succeeded : Nat, wasted : Nat]

KeeperTypeOK ==
  /\ due \in [Positions -> SUBSET Calls] /\ aged \in SUBSET Markets
  /\ db \in [due : [Positions -> SUBSET Calls], aged : SUBSET Markets, stalled : BOOLEAN]
  /\ claims \in [Keys -> Nat]
  /\ todo \in [Loops -> SUBSET Op]
  /\ line \in Seq(Item) /\ exec \in Work
  /\ network \in SUBSET Tx /\ fees \in Counts
  /\ moves \in 0..MaxMoves /\ faults \in 0..MaxFaults

Idle == [phase |-> "idle", left |-> 0, answer |-> "none", moved |-> FALSE, void |-> FALSE]

KeeperInit ==
  /\ due = [p \in Positions |-> {}] /\ aged = {}
  /\ db = [due |-> due, aged |-> aged, stalled |-> FALSE]
  /\ claims = [k \in Keys |-> 0]
  /\ todo = [l \in Loops |-> {}]
  /\ line = <<>> /\ exec = Idle /\ network = {}
  /\ fees = [tally |-> 0, rows |-> 0, succeeded |-> 0, wasted |-> 0]
  /\ moves = 0 /\ faults = 0

-----------------------------------------------------------------------------
(* The world outside: the market, the indexer, the chain, time.            *)

\* A position is opened, moved by its market, increased or closed by its
\* trader: what keepers may do with it becomes something else.
PositionMoves(p) ==
  /\ moves < MaxMoves /\ moves' = moves + 1
  /\ \E d \in Situations \ {due[p]} : due' = [due EXCEPT ![p] = d]
  /\ network' = {IF tx.op.key = p THEN [tx EXCEPT !.moved = TRUE] ELSE tx : tx \in network}
  /\ exec' = IF exec.phase = "built" /\ Head(line).op.key = p
             THEN [exec EXCEPT !.moved = TRUE] ELSE exec
  /\ UNCHANGED <<aged, db, claims, todo, line, fees, faults>>

MarketAges(m) ==
  /\ moves < MaxMoves /\ moves' = moves + 1
  /\ m \notin aged /\ aged' = aged \cup {m}
  /\ UNCHANGED <<due, db, claims, todo, line, exec, network, fees, faults>>

\* The indexer commits a page.  Prices come by another path than positions,
\* so a row may be mirrored while others are still old.
IndexerCommits ==
  /\ \/ \E p \in Positions : db' = [db EXCEPT !.due[p] = due[p], !.stalled = FALSE]
     \/ db' = [db EXCEPT !.aged = aged, !.stalled = FALSE]
  /\ db' # db
  /\ UNCHANGED <<due, aged, claims, todo, line, exec, network, fees, moves, faults>>

\* The last ledger the indexer has seen closed longer ago than staleHardSkipSec.
IndexerStalls ==
  /\ ~db.stalled /\ db' = [db EXCEPT !.stalled = TRUE]
  /\ faults < MaxFaults /\ faults' = faults + 1
  /\ UNCHANGED <<due, aged, claims, todo, line, exec, network, fees, moves>>

Accepted(op) == IF op.call = "update_indices" THEN op.key \in aged
                                              ELSE op.call \in due[op.key]

\* One of the pending transactions is included.  All carry the sequence
\* number the account had when they were built, so the others are void, and
\* so is what is built and not yet sent.  A call that fails in the ledger
\* is charged like one that succeeds.
Include(tx) ==
  /\ tx \in network
  /\ network' = {}
  /\ IF Accepted(tx.op)
     THEN /\ due' = IF tx.op.key \in Positions THEN [due EXCEPT ![tx.op.key] = {}] ELSE due
          /\ aged' = aged \ {tx.op.key}
          /\ fees' = [fees EXCEPT !.succeeded = @ + 1]
     ELSE /\ fees' = [fees EXCEPT !.wasted = IF tx.moved THEN @ ELSE @ + 1]
          /\ UNCHANGED <<due, aged>>
  /\ exec' = IF exec.phase = "sent" /\ ~tx.late
             THEN [exec EXCEPT !.answer = IF Accepted(tx.op) THEN "ok" ELSE "failed"]
             ELSE [exec EXCEPT !.void = exec.phase = "built"]
  /\ UNCHANGED <<db, claims, todo, line, moves, faults>>

Lose(tx) ==
  /\ tx \in network /\ faults < MaxFaults
  /\ network' = network \ {tx} /\ faults' = faults + 1
  /\ UNCHANGED <<due, aged, db, claims, todo, line, exec, fees, moves>>

\* Faulty: claims do not expire.
Endless_Tick ==
  /\ line = <<>> \/ (exec.phase = "sent" /\ exec.left > 0)
  /\ exec' = IF exec.phase = "sent" THEN [exec EXCEPT !.left = @ - 1] ELSE exec
  /\ UNCHANGED <<due, aged, db, claims, todo, line, network, fees, moves, faults>>

\* Only the wait for inclusion takes ticks: a simulation is over within one.
Tick ==
  /\ line = <<>> \/ (exec.phase = "sent" /\ exec.left > 0)
  /\ claims' = [k \in Keys |-> IF claims[k] > 0 THEN claims[k] - 1 ELSE 0]
  /\ exec' = IF exec.phase = "sent" THEN [exec EXCEPT !.left = @ - 1] ELSE exec
  /\ UNCHANGED <<due, aged, db, todo, line, network, fees, moves, faults>>

-----------------------------------------------------------------------------
(* TtlDedup and the serializer.                                            *)

Free(k) == claims[k] = 0
claim(k, ttl) == [claims EXCEPT ![k] = ttl]

\* release deletes the entry of the key, whoever made it.
release(k) == [claims EXCEPT ![k] = 0]

serialize(l, op) == Append(line, [loop |-> l, op |-> op])

-----------------------------------------------------------------------------
(* The loops.                                                              *)

\* The loop waits for the outcome of what it has put into the chain.
Waiting(l) == \E i \in DOMAIN line : line[i].loop = l

checkStaleness == ~db.stalled

Candidates(c) == {[call |-> c, key |-> p] : p \in {q \in Positions : c \in db.due[q]}}

\* A pass begins: the hot loop takes every position below the threshold ...
HotLoad ==
  /\ todo["hot"] = {} /\ ~Waiting("hot") /\ checkStaleness
  /\ todo' = [todo EXCEPT !["hot"] = Candidates("liquidate_position")]
  /\ todo' # todo
  /\ UNCHANGED <<due, aged, db, claims, line, exec, network, fees, moves, faults>>

\* ... the cold loop the aged markets, the triggered orders and one target
\* for the deleveraging, all from the same world.
ColdLoad ==
  /\ todo["cold"] = {} /\ ~Waiting("cold") /\ checkStaleness
  /\ LET adl    == Candidates("deleverage_position")
         others == [call : {"update_indices"}, key : db.aged] \cup Candidates("execute_order")
     IN  IF adl = {} THEN todo' = [todo EXCEPT !["cold"] = others]
         ELSE \E target \in adl : todo' = [todo EXCEPT !["cold"] = others \cup {target}]
  /\ todo' # todo
  /\ UNCHANGED <<due, aged, db, claims, line, exec, network, fees, moves, faults>>

\* Markets first, then orders, then the deleveraging.
Rank(op) == CASE op.call = "update_indices" -> 1
              [] op.call = "deleverage_position" -> 3
              [] OTHER -> 2

TtlOf(op) == IF op.call = "update_indices" THEN INDICES_DEDUP_TTL ELSE DEDUP_TTL

\* The next item is claimed and put into the chain, or skipped when the key
\* is claimed already.
NextItem(l) ==
  /\ ~Waiting(l)
  /\ \E op \in todo[l] :
       /\ \A other \in todo[l] : Rank(op) <= Rank(other)
       /\ todo' = [todo EXCEPT ![l] = @ \ {op}]
       /\ IF Free(op.key)
          THEN claims' = claim(op.key, TtlOf(op)) /\ line' = serialize(l, op)
          ELSE UNCHANGED <<claims, line>>
  /\ UNCHANGED <<due, aged, db, exec, network, fees, moves, faults>>

\* What a loop does with the outcome of its item: a submitted one keeps its
\* claim; a rejected one gives it back, except an update of indices that
\* was rejected as expected.
Settled(outcome) ==
  LET op == Head(line).op
  IN  /\ line' = Tail(line) /\ exec' = Idle
      /\ claims' = IF outcome = "submitted"
                      \/ (op.call = "update_indices" /\ outcome = "expected")
                   THEN claims ELSE release(op.key)

-----------------------------------------------------------------------------
(* The executor: submitWithSim on the head of the chain.                   *)

Working(phase) == line # <<>> /\ exec.phase = phase

\* Faulty: what the tables say is sent without a simulation.
Blind_SimulationPasses ==
  /\ Working("idle")
  /\ exec' = [exec EXCEPT !.phase = "built"]
  /\ UNCHANGED <<due, aged, db, claims, todo, line, network, fees, moves, faults>>

SimulationPasses ==
  /\ Working("idle") /\ Accepted(Head(line).op)
  /\ exec' = [exec EXCEPT !.phase = "built"]
  /\ UNCHANGED <<due, aged, db, claims, todo, line, network, fees, moves, faults>>

SimulationRejects ==
  /\ Working("idle") /\ ~Accepted(Head(line).op)
  /\ Settled("expected")
  /\ UNCHANGED <<due, aged, db, todo, network, fees, moves, faults>>

\* The node does not answer the simulation, or does not take the transaction.
RpcFails ==
  /\ Working("idle") \/ Working("built")
  /\ faults < MaxFaults /\ faults' = faults + 1
  /\ Settled("unexpected")
  /\ UNCHANGED <<due, aged, db, todo, network, fees, moves>>

Send ==
  /\ Working("built") /\ ~exec.void
  /\ network' = network \cup {[op |-> Head(line).op, late |-> FALSE, moved |-> exec.moved]}
  /\ exec' = [exec EXCEPT !.phase = "sent", !.left = TX_TIMEOUT]
  /\ UNCHANGED <<due, aged, db, claims, todo, line, fees, moves, faults>>

\* The node refuses a transaction whose sequence number has been used.
SendRefused ==
  /\ Working("built") /\ exec.void
  /\ Settled("unexpected")
  /\ UNCHANGED <<due, aged, db, todo, network, fees, moves, faults>>

\* signAndSend returns: the fee is tallied and a row inserted.  An insert
\* that fails is logged and nothing else.
Confirm ==
  /\ Working("sent") /\ exec.answer = "ok"
  /\ \/ /\ fees' = [fees EXCEPT !.tally = @ + 1, !.rows = @ + 1]
        /\ UNCHANGED faults
     \/ /\ faults < MaxFaults /\ faults' = faults + 1
        /\ fees' = [fees EXCEPT !.tally = @ + 1]
  /\ Settled("submitted")
  /\ UNCHANGED <<due, aged, db, todo, network, moves>>

GivenUp == {[tx EXCEPT !.late = TRUE] : tx \in network}

\* signAndSend throws: the call failed in the ledger after its simulation had
\* passed, or the time is over.  The transaction may still be pending then.
SubmitFails ==
  /\ Working("sent") /\ (exec.answer = "failed" \/ (exec.answer = "none" /\ exec.left = 0))
  /\ network' = GivenUp
  /\ Settled("unexpected")
  /\ UNCHANGED <<due, aged, db, todo, fees, moves, faults>>

\* rolloverIfNewDay: the tally is of the present day.
NewDay ==
  /\ fees.tally > 0 /\ fees' = [fees EXCEPT !.tally = 0]
  /\ UNCHANGED <<due, aged, db, claims, todo, line, exec, network, moves, faults>>

\* The process dies and is started again: claims, chain and tally are lost.
Restart ==
  /\ faults < MaxFaults /\ faults' = faults + 1
  /\ claims' = [k \in Keys |-> 0] /\ todo' = [l \in Loops |-> {}]
  /\ line' = <<>> /\ exec' = Idle
  /\ network' = GivenUp
  /\ fees' = [fees EXCEPT !.tally = 0]
  /\ UNCHANGED <<due, aged, db, moves>>

-----------------------------------------------------------------------------
(* The specification.                                                      *)

Market == (\E p \in Positions : PositionMoves(p)) \/ (\E m \in Markets : MarketAges(m))
Chain  == \E tx \in network : Include(tx) \/ Lose(tx)
Loop   == HotLoad \/ ColdLoad \/ \E l \in Loops : NextItem(l)
Executor == SimulationPasses \/ SimulationRejects \/ RpcFails \/ Send \/ SendRefused
              \/ Confirm \/ SubmitFails \/ NewDay \/ Restart

KeeperNext == Market \/ IndexerCommits \/ IndexerStalls \/ Chain \/ Tick \/ Loop \/ Executor

\* Both loops run for ever, a promise that is settled is awaited, time passes,
\* the indexer catches up and the ledger takes what is pending.  The market
\* and the faults owe nothing.
KeeperFairness ==
  /\ WF_vars(IndexerCommits) /\ WF_vars(Tick)
  /\ WF_vars(\E tx \in network : Include(tx))
  /\ WF_vars(HotLoad) /\ WF_vars(ColdLoad) /\ \A l \in Loops : WF_vars(NextItem(l))
  /\ WF_vars(SimulationPasses) /\ WF_vars(SimulationRejects) /\ WF_vars(Send)
  /\ WF_vars(SendRefused) /\ WF_vars(Confirm) /\ WF_vars(SubmitFails)

KeeperSpec == KeeperInit /\ [][KeeperNext]_vars /\ KeeperFairness

-----------------------------------------------------------------------------
(* Properties.                                                             *)

\* What the contract would accept of a keeper is done, or the market undoes
\* it: no order of claims, expiries, rejections, timeouts, late inclusions
\* and restarts leaves a position due for ever (loop.ts, dedup.ts).
DueGetsDone ==
  /\ \A p \in Positions, c \in Calls : (c \in due[p]) ~> (c \notin due[p])
  /\ \A m \in Markets : (m \in aged) ~> (m \notin aged)

\* The keeper pays for a call that fails only when the market moved after the
\* simulation: never for stale tables, for a second attempt at the same
\* position, or for a transaction that outlived its timeout (executor.ts).
PaysInVainOnlyAfterMove == fees.wasted = 0

\* Nothing is logged that did not happen: rows and tally stay within what
\* the chain has charged for, over timeouts and restarts (persistFee).
LoggedFeesWereCharged == fees.rows <= fees.succeeded /\ fees.tally <= fees.succeeded

-----------------------------------------------------------------------------
(* What makes the two invariants inductive (KeeperProofs).                 *)

\* The executor works on the head of the chain only.
WorksOnHead == exec.phase # "idle" => line # <<>>

\* What was simulated would still be accepted unless the market or another
\* transaction came in between, and so would everything on its way.
SimulatedIsAccepted ==
  /\ exec.phase = "built" /\ ~exec.moved /\ ~exec.void => Accepted(Head(line).op)
  /\ \A tx \in network : ~tx.moved => Accepted(tx.op)

\* An answer of success is a charge that is not logged yet.
ChargedBeforeLogged ==
  exec.answer = "ok" => fees.rows < fees.succeeded /\ fees.tally < fees.succeeded

KeeperInv ==
  /\ KeeperTypeOK /\ WorksOnHead /\ SimulatedIsAccepted /\ ChargedBeforeLogged
  /\ PaysInVainOnlyAfterMove /\ LoggedFeesWereCharged
=============================================================================
