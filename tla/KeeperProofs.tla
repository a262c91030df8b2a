----------------------------- MODULE KeeperProofs -----------------------------
(***************************************************************************)
(* Theorems about the keeper bot, for all positions, markets, situations,  *)
(* times to live and numbers of faults.                                    *)
(***************************************************************************)
EXTENDS Keeper, SequenceTheorems, TLAPS

LEMMA HeadTyped ==
  ASSUME line \in Seq(Item), line # <<>>
  PROVE  /\ Head(line) \in Item /\ Tail(line) \in Seq(Item)
         /\ Head(line).op \in Op /\ Head(line).op.key \in Keys
<1>1. Head(line) \in Item /\ Tail(line) \in Seq(Item)
  BY HeadTailProperties
<1> QED
  BY <1>1 DEF Item, Op, Keys

(* The outcome of the head leaves the rest of the chain and an idle executor. *)
LEMMA SettledTyped ==
  ASSUME KeeperTypeOK, line # <<>>, NEW outcome, Settled(outcome)
  PROVE  /\ line' \in Seq(Item)
         /\ claims' \in [Keys -> Nat]
         /\ exec' = Idle
<1>1. claims' \in [Keys -> Nat]
  BY DEF Settled, release, KeeperTypeOK
<1> QED
  BY <1>1, HeadTyped DEF Settled, KeeperTypeOK

(* An idle executor owes nothing.                                          *)
LEMMA IdleOwesNothing ==
  /\ Idle \in Work
  /\ Idle.phase = "idle" /\ Idle.answer = "none"
BY KeeperAssumption DEF Idle, Work

LEMMA GivenUpTyped ==
  ASSUME network \in SUBSET Tx
  PROVE  /\ GivenUp \in SUBSET Tx
         /\ \A tx \in GivenUp : \E old \in network : tx.op = old.op /\ tx.moved = old.moved
BY DEF GivenUp, Tx

LEMMA KeeperInitInv == KeeperInit => KeeperInv
<1> SUFFICES ASSUME KeeperInit PROVE KeeperInv
  OBVIOUS
<1> USE DEF KeeperInit
<1>1. KeeperTypeOK
  BY IdleOwesNothing, KeeperAssumption DEF KeeperTypeOK, Op, Counts
<1>2. WorksOnHead /\ SimulatedIsAccepted /\ ChargedBeforeLogged
  BY IdleOwesNothing DEF WorksOnHead, SimulatedIsAccepted, ChargedBeforeLogged
<1>3. PaysInVainOnlyAfterMove /\ LoggedFeesWereCharged
  BY DEF PaysInVainOnlyAfterMove, LoggedFeesWereCharged
<1> QED
  BY <1>1, <1>2, <1>3 DEF KeeperInv

(* The market moves: what is on its way to the position is marked.         *)
LEMMA MarketKeepsInv ==
  ASSUME KeeperInv, Market
  PROVE  KeeperInv'
<1> USE DEF KeeperInv
<1>1. ASSUME NEW p \in Positions, PositionMoves(p)
      PROVE  KeeperInv'
  <2> USE DEF PositionMoves
  <2>1. KeeperTypeOK'
    <3>1. due' \in [Positions -> SUBSET Calls]
      BY <1>1, KeeperAssumption DEF KeeperTypeOK
    <3>2. ASSUME NEW tx \in network
          PROVE  (IF tx.op.key = p THEN [tx EXCEPT !.moved = TRUE] ELSE tx) \in Tx
      BY DEF KeeperTypeOK, Tx
    <3>5. network' \in SUBSET Tx
      BY <1>1, <3>2
    <3>3. exec' \in Work
      BY <1>1 DEF KeeperTypeOK, Work
    <3>4. moves' \in 0..MaxMoves
      BY <1>1, KeeperAssumption DEF KeeperTypeOK
    <3> QED
      BY <1>1, <3>1, <3>3, <3>4, <3>5 DEF KeeperTypeOK
  <2>2. WorksOnHead' /\ ChargedBeforeLogged'
    BY <1>1 DEF WorksOnHead, ChargedBeforeLogged, KeeperTypeOK, Work
  <2>3. ASSUME NEW op \in Op, op.key # p, Accepted(op)
        PROVE  Accepted(op)'
    BY <1>1, <2>3 DEF Accepted, Op, KeeperTypeOK
  <2>4. ASSUME exec'.phase = "built", ~exec'.moved, ~exec'.void
        PROVE  Accepted(Head(line).op)'
    <3>1. exec' = exec /\ exec.phase = "built" /\ Head(line).op.key # p
      BY <1>1, <2>4 DEF KeeperTypeOK, Work
    <3>2. line \in Seq(Item) /\ line # <<>>
      BY <3>1 DEF KeeperTypeOK, WorksOnHead
    <3>3. Head(line).op \in Op /\ Accepted(Head(line).op)
      BY <2>4, <3>1, <3>2, HeadTyped DEF SimulatedIsAccepted
    <3> DEFINE op == Head(line).op
    <3>4. op \in Op /\ op.key # p /\ Accepted(op)
      BY <3>1, <3>3
    <3> HIDE DEF op
    <3>5. due'[op.key] = due[op.key] /\ aged' = aged
      BY <1>1, <3>4 DEF KeeperTypeOK
    <3>6. Accepted(op)'
      BY <3>4, <3>5, <1>1 DEF Accepted, op
    <3> QED
      BY <3>6 DEF op
  <2>5. ASSUME NEW tx \in network', ~tx.moved
        PROVE  Accepted(tx.op)'
    <3>1. tx \in network /\ tx.op.key # p
      BY <1>1, <2>5 DEF KeeperTypeOK, Tx
    <3>2. tx.op \in Op /\ Accepted(tx.op)
      BY <2>5, <3>1 DEF KeeperTypeOK, Tx, SimulatedIsAccepted
    <3> QED
      BY <2>3, <3>1, <3>2
  <2>6. SimulatedIsAccepted'
    BY <2>4, <2>5 DEF SimulatedIsAccepted
  <2>7. PaysInVainOnlyAfterMove' /\ LoggedFeesWereCharged'
    BY <1>1 DEF PaysInVainOnlyAfterMove, LoggedFeesWereCharged
  <2> QED
    BY <2>1, <2>2, <2>6, <2>7
<1>2. ASSUME NEW m \in Markets, MarketAges(m)
      PROVE  KeeperInv'
  <2> USE DEF MarketAges
  <2>1. KeeperTypeOK'
    BY <1>2, KeeperAssumption DEF KeeperTypeOK
  <2>2. SimulatedIsAccepted'
    BY <1>2 DEF SimulatedIsAccepted, Accepted
  <2>3. WorksOnHead' /\ ChargedBeforeLogged' /\ PaysInVainOnlyAfterMove' /\ LoggedFeesWereCharged'
    BY <1>2 DEF WorksOnHead, ChargedBeforeLogged, PaysInVainOnlyAfterMove, LoggedFeesWereCharged
  <2> QED
    BY <2>1, <2>2, <2>3
<1> QED
  BY <1>1, <1>2 DEF Market

(* Tables, claims and passes: what neither the executor nor the chain sees. *)
LEMMA QuietStepKeepsInv ==
  ASSUME KeeperInv,
         UNCHANGED <<due, aged, line, network, fees>>, KeeperTypeOK',
         \/ exec' = exec
         \/ exec.phase = "sent" /\ exec' = [exec EXCEPT !.left = @ - 1]
  PROVE  KeeperInv'
<1> USE DEF KeeperInv
<1>1. exec'.phase = exec.phase /\ exec'.answer = exec.answer
      /\ exec'.moved = exec.moved /\ exec'.void = exec.void
  BY DEF KeeperTypeOK, Work
<1>2. SimulatedIsAccepted'
  BY <1>1 DEF SimulatedIsAccepted, Accepted
<1>3. WorksOnHead' /\ ChargedBeforeLogged' /\ PaysInVainOnlyAfterMove' /\ LoggedFeesWereCharged'
  BY <1>1 DEF WorksOnHead, ChargedBeforeLogged, PaysInVainOnlyAfterMove, LoggedFeesWereCharged
<1> QED
  BY <1>2, <1>3

LEMMA IndexerAndTimeKeepInv ==
  ASSUME KeeperInv, IndexerCommits \/ IndexerStalls \/ Tick
  PROVE  KeeperInv'
<1> USE DEF KeeperInv
<1>1. CASE IndexerCommits
  <2>1. db' \in [due : [Positions -> SUBSET Calls], aged : SUBSET Markets, stalled : BOOLEAN]
    <3>1. ASSUME NEW p \in Positions, db' = [db EXCEPT !.due[p] = due[p], !.stalled = FALSE]
          PROVE  db' \in [due : [Positions -> SUBSET Calls], aged : SUBSET Markets, stalled : BOOLEAN]
      <4>1. [db.due EXCEPT ![p] = due[p]] \in [Positions -> SUBSET Calls]
        BY DEF KeeperTypeOK
      <4>2. db' = [db EXCEPT !.due = [db.due EXCEPT ![p] = due[p]], !.stalled = FALSE]
        BY <3>1 DEF KeeperTypeOK
      <4> QED
        BY <4>1, <4>2 DEF KeeperTypeOK
    <3>2. CASE db' = [db EXCEPT !.aged = aged, !.stalled = FALSE]
      BY <3>2 DEF KeeperTypeOK
    <3> QED
      BY <1>1, <3>1, <3>2 DEF IndexerCommits
  <2>2. KeeperTypeOK'
    BY <1>1, <2>1 DEF IndexerCommits, KeeperTypeOK
  <2> QED
    BY <1>1, <2>2, QuietStepKeepsInv DEF IndexerCommits
<1>2. CASE IndexerStalls
  <2>1. db' \in [due : [Positions -> SUBSET Calls], aged : SUBSET Markets, stalled : BOOLEAN]
    BY <1>2 DEF IndexerStalls, KeeperTypeOK
  <2>2. faults' \in 0..MaxFaults
    BY <1>2, KeeperAssumption DEF IndexerStalls, KeeperTypeOK
  <2>3. KeeperTypeOK'
    BY <1>2, <2>1, <2>2 DEF IndexerStalls, KeeperTypeOK
  <2> QED
    BY <1>2, <2>3, QuietStepKeepsInv DEF IndexerStalls
<1>3. CASE Tick
  <2>1. claims' \in [Keys -> Nat]
    BY <1>3 DEF Tick, KeeperTypeOK
  <2>2. exec' \in Work
    <3>1. CASE exec' = exec
      BY <3>1 DEF KeeperTypeOK
    <3>2. CASE exec.phase = "sent" /\ exec' = [exec EXCEPT !.left = @ - 1]
      <4>1. exec \in Work /\ exec.left > 0
        BY <1>3, <3>2 DEF Tick, WorksOnHead, KeeperTypeOK
      <4>2. exec.left - 1 \in 0..TX_TIMEOUT
        BY <4>1, KeeperAssumption DEF Work
      <4> QED
        BY <3>2, <4>1, <4>2 DEF Work
    <3> QED
      BY <1>3, <3>1, <3>2 DEF Tick
  <2>3. KeeperTypeOK'
    BY <1>3, <2>1, <2>2 DEF Tick, KeeperTypeOK
  <2> QED
    BY <1>3, <2>3, QuietStepKeepsInv DEF Tick
<1> QED
  BY <1>1, <1>2, <1>3

(* The ledger: a transaction no market has moved is still accepted.        *)
LEMMA ChainKeepsInv ==
  ASSUME KeeperInv, Chain
  PROVE  KeeperInv'
<1> USE DEF KeeperInv
<1>1. ASSUME NEW tx \in network, Include(tx)
      PROVE  KeeperInv'
  <2> USE DEF Include
  <2>0. tx \in Tx /\ tx.op \in Op /\ tx.moved \in BOOLEAN /\ tx.late \in BOOLEAN
    BY DEF KeeperTypeOK, Tx
  <2>1. fees' \in Counts
        /\ fees'.wasted = 0 /\ fees'.rows = fees.rows /\ fees'.tally = fees.tally
        /\ fees'.succeeded = IF Accepted(tx.op) THEN fees.succeeded + 1 ELSE fees.succeeded
    <3>1. CASE Accepted(tx.op)
      BY <1>1, <3>1 DEF KeeperTypeOK, PaysInVainOnlyAfterMove, Counts
    <3>2. CASE ~Accepted(tx.op)
      <4>1. tx.moved
        BY <3>2 DEF SimulatedIsAccepted
      <4> QED
        BY <1>1, <3>2, <4>1 DEF KeeperTypeOK, PaysInVainOnlyAfterMove, Counts
    <3> QED
      BY <3>1, <3>2
  <2>2. exec' \in Work
        /\ exec'.phase = exec.phase
        /\ (exec.phase = "built" => exec'.void)
        /\ (exec'.answer = "ok" => Accepted(tx.op) \/ exec.answer = "ok")
    BY <1>1, <2>0 DEF KeeperTypeOK, Work
  <2>3. due' \in [Positions -> SUBSET Calls] /\ aged' \in SUBSET Markets
    BY <1>1 DEF KeeperTypeOK
  <2>4. KeeperTypeOK'
    BY <1>1, <2>1, <2>2, <2>3 DEF KeeperTypeOK
  <2>5. WorksOnHead' /\ SimulatedIsAccepted'
    BY <1>1, <2>2 DEF WorksOnHead, SimulatedIsAccepted
  <2>6. ChargedBeforeLogged' /\ LoggedFeesWereCharged' /\ PaysInVainOnlyAfterMove'
    BY <2>1, <2>2 DEF ChargedBeforeLogged, LoggedFeesWereCharged, PaysInVainOnlyAfterMove, KeeperTypeOK, Counts
  <2> QED
    BY <2>4, <2>5, <2>6
<1>2. ASSUME NEW tx \in network, Lose(tx)
      PROVE  KeeperInv'
  <2> USE DEF Lose
  <2>1. KeeperTypeOK'
    BY <1>2, KeeperAssumption DEF KeeperTypeOK
  <2>2. SimulatedIsAccepted'
    BY <1>2 DEF SimulatedIsAccepted, Accepted
  <2>3. WorksOnHead' /\ ChargedBeforeLogged' /\ PaysInVainOnlyAfterMove' /\ LoggedFeesWereCharged'
    BY <1>2 DEF WorksOnHead, ChargedBeforeLogged, PaysInVainOnlyAfterMove, LoggedFeesWereCharged
  <2> QED
    BY <2>1, <2>2, <2>3
<1> QED
  BY <1>1, <1>2 DEF Chain

(* The loops put typed items behind the head, never before it.             *)
LEMMA LoopKeepsInv ==
  ASSUME KeeperInv, Loop
  PROVE  KeeperInv'
<1> USE DEF KeeperInv
<1>1. ASSUME NEW c \in Calls
      PROVE  Candidates(c) \subseteq Op
  BY DEF Candidates, Op
<1>2. CASE HotLoad
  <2>1. todo' \in [Loops -> SUBSET Op]
    BY <1>1, <1>2 DEF HotLoad, KeeperTypeOK, Calls
  <2>2. KeeperTypeOK'
    BY <1>2, <2>1 DEF HotLoad, KeeperTypeOK
  <2> QED
    BY <1>2, <2>2, QuietStepKeepsInv DEF HotLoad
<1>3. CASE ColdLoad
  <2>1. [call : {"update_indices"}, key : db.aged] \subseteq Op
    BY DEF KeeperTypeOK, Op
  <2> DEFINE others == [call : {"update_indices"}, key : db.aged] \cup Candidates("execute_order")
             adl == Candidates("deleverage_position")
  <2>4. others \subseteq Op /\ adl \subseteq Op
    BY <1>1, <2>1 DEF Calls
  <2>5. \E new \in SUBSET Op : todo' = [todo EXCEPT !["cold"] = new]
    <3> HIDE DEF others, adl
    <3>1. \/ todo' = [todo EXCEPT !["cold"] = others]
          \/ \E target \in adl : todo' = [todo EXCEPT !["cold"] = others \cup {target}]
      BY <1>3 DEF ColdLoad, others, adl
    <3> QED
      BY <2>4, <3>1
  <2>2. todo' \in [Loops -> SUBSET Op]
    BY <2>5 DEF KeeperTypeOK
  <2>3. KeeperTypeOK'
    BY <1>3, <2>2 DEF ColdLoad, KeeperTypeOK
  <2> QED
    BY <1>3, <2>3, QuietStepKeepsInv DEF ColdLoad
<1>4. ASSUME NEW l \in Loops, NextItem(l)
      PROVE  KeeperInv'
  <2>1. PICK op \in todo[l] :
          /\ todo' = [todo EXCEPT ![l] = @ \ {op}]
          /\ IF Free(op.key)
             THEN claims' = claim(op.key, TtlOf(op)) /\ line' = serialize(l, op)
             ELSE UNCHANGED <<claims, line>>
    BY <1>4 DEF NextItem
  <2>2. op \in Op /\ TtlOf(op) \in Nat
    <3>1. todo[l] \in SUBSET Op
      BY DEF KeeperTypeOK
    <3> QED
      BY <3>1, KeeperAssumption DEF TtlOf
  <2>3. claims' \in [Keys -> Nat] /\ todo' \in [Loops -> SUBSET Op]
    BY <2>1, <2>2 DEF KeeperTypeOK, claim
  <2>4. /\ line' \in Seq(Item)
        /\ line # <<>> => line' # <<>> /\ Head(line') = Head(line)
    <3> DEFINE item == [loop |-> l, op |-> op]
    <3>1. item \in Item /\ line \in Seq(Item)
      BY <2>2 DEF Item, KeeperTypeOK
    <3>2. line' = line \/ line' = Append(line, item)
      BY <2>1 DEF serialize
    <3> HIDE DEF item
    <3> QED
      BY <3>1, <3>2, AppendProperties, HeadTailAppend
  <2>5. UNCHANGED <<due, aged, db, exec, network, fees, moves, faults>>
    BY <1>4 DEF NextItem
  <2>6. KeeperTypeOK'
    BY <2>3, <2>4, <2>5 DEF KeeperTypeOK
  <2>7. WorksOnHead' /\ SimulatedIsAccepted'
    BY <2>4, <2>5 DEF WorksOnHead, SimulatedIsAccepted, Accepted
  <2>8. ChargedBeforeLogged' /\ PaysInVainOnlyAfterMove' /\ LoggedFeesWereCharged'
    BY <2>5 DEF ChargedBeforeLogged, PaysInVainOnlyAfterMove, LoggedFeesWereCharged
  <2> QED
    BY <2>6, <2>7, <2>8
<1> QED
  BY <1>2, <1>3, <1>4 DEF Loop

(* Whatever the outcome, an executor that has settled owes nothing.         *)
LEMMA SettlingKeepsInv ==
  ASSUME KeeperInv, line # <<>>, NEW outcome, Settled(outcome),
         UNCHANGED <<due, aged, db, todo, moves>>,
         faults' \in 0..MaxFaults,
         network' \in {network, GivenUp},
         fees' \in Counts,
         PaysInVainOnlyAfterMove', LoggedFeesWereCharged'
  PROVE  KeeperInv'
<1> USE DEF KeeperInv
<1>1. network' \in SUBSET Tx
      /\ \A tx \in network' : \E old \in network : tx.op = old.op /\ tx.moved = old.moved
  BY GivenUpTyped DEF KeeperTypeOK
<1>2. KeeperTypeOK'
  BY <1>1, SettledTyped, IdleOwesNothing DEF KeeperTypeOK
<1>3. exec'.phase = "idle" /\ exec'.answer = "none"
  BY SettledTyped, IdleOwesNothing
<1>4. WorksOnHead' /\ SimulatedIsAccepted' /\ ChargedBeforeLogged'
  BY <1>1, <1>3 DEF WorksOnHead, SimulatedIsAccepted, ChargedBeforeLogged, Accepted
<1> QED
  BY <1>2, <1>4

LEMMA ExecutorKeepsInv ==
  ASSUME KeeperInv, Executor
  PROVE  KeeperInv'
<1> USE DEF KeeperInv
<1>0. /\ fees \in Counts
      /\ faults \in 0..MaxFaults
  BY DEF KeeperTypeOK
<1>a. ASSUME UNCHANGED fees PROVE PaysInVainOnlyAfterMove' /\ LoggedFeesWereCharged'
  BY <1>a DEF PaysInVainOnlyAfterMove, LoggedFeesWereCharged
<1>1. CASE SimulationPasses
  <2> USE DEF SimulationPasses, Working
  <2>1. KeeperTypeOK'
    BY <1>1 DEF KeeperTypeOK, Work
  <2>2. WorksOnHead' /\ ChargedBeforeLogged'
    BY <1>1 DEF WorksOnHead, ChargedBeforeLogged, KeeperTypeOK, Work
  <2>3. SimulatedIsAccepted'
    BY <1>1 DEF SimulatedIsAccepted, Accepted
  <2> QED
    BY <1>1, <1>a, <2>1, <2>2, <2>3
<1>2. CASE SimulationRejects
  BY <1>0, <1>2, <1>a, SettlingKeepsInv DEF SimulationRejects, Working
<1>3. CASE RpcFails
  <2>1. faults' \in 0..MaxFaults
    BY <1>0, <1>3, KeeperAssumption DEF RpcFails
  <2> QED
    BY <1>0, <1>3, <1>a, <2>1, SettlingKeepsInv DEF RpcFails, Working
<1>4. CASE Send
  <2> USE DEF Send, Working
  <2> DEFINE new == [op |-> Head(line).op, late |-> FALSE, moved |-> exec.moved]
  <2>1. Head(line).op \in Op /\ new \in Tx
    BY <1>4, HeadTyped DEF KeeperTypeOK, Tx, Work
  <2>2. exec' \in Work
        /\ exec'.phase = "sent" /\ exec'.answer = exec.answer
    <3>1. exec \in Work /\ TX_TIMEOUT \in 0..TX_TIMEOUT
      BY KeeperAssumption DEF KeeperTypeOK
    <3>2. exec' = [exec EXCEPT !.phase = "sent", !.left = TX_TIMEOUT]
      BY <1>4
    <3> QED
      BY <3>1, <3>2 DEF Work
  <2>3. KeeperTypeOK'
    BY <1>4, <2>1, <2>2 DEF KeeperTypeOK
  <2>4. WorksOnHead' /\ ChargedBeforeLogged'
    BY <1>4, <2>2 DEF WorksOnHead, ChargedBeforeLogged
  <2>5. ~new.moved => Accepted(new.op)
    BY <1>4 DEF SimulatedIsAccepted
  <2>6. SimulatedIsAccepted'
    BY <1>4, <2>2, <2>5 DEF SimulatedIsAccepted, Accepted
  <2> QED
    BY <1>4, <1>a, <2>3, <2>4, <2>6
<1>5. CASE SendRefused
  BY <1>0, <1>5, <1>a, SettlingKeepsInv DEF SendRefused, Working
<1>6. CASE Confirm
  <2>1. fees.rows < fees.succeeded /\ fees.tally < fees.succeeded
    BY <1>6 DEF Confirm, ChargedBeforeLogged
  <2>2. /\ fees' \in Counts
        /\ PaysInVainOnlyAfterMove' /\ LoggedFeesWereCharged'
    <3>1. \/ fees' = [fees EXCEPT !.tally = @ + 1, !.rows = @ + 1]
          \/ fees' = [fees EXCEPT !.tally = @ + 1]
      BY <1>6 DEF Confirm
    <3>2. fees' \in Counts /\ fees'.wasted = fees.wasted /\ fees'.succeeded = fees.succeeded
          /\ fees'.tally = fees.tally + 1 /\ fees'.rows \in {fees.rows, fees.rows + 1}
      <4>1. CASE fees' = [fees EXCEPT !.tally = @ + 1, !.rows = @ + 1]
        <5>1. fees' = [tally |-> fees.tally + 1, rows |-> fees.rows + 1,
                       succeeded |-> fees.succeeded, wasted |-> fees.wasted]
          BY <1>0, <4>1 DEF Counts
        <5>2. fees.tally + 1 \in Nat /\ fees.rows + 1 \in Nat
              /\ fees.succeeded \in Nat /\ fees.wasted \in Nat
          BY <1>0 DEF Counts
        <5> QED
          BY <5>1, <5>2 DEF Counts
      <4>2. CASE fees' = [fees EXCEPT !.tally = @ + 1]
        BY <1>0, <4>2 DEF Counts
      <4> QED
        BY <3>1, <4>1, <4>2
    <3> QED
      BY <1>0, <2>1, <3>2 DEF PaysInVainOnlyAfterMove, LoggedFeesWereCharged, Counts
  <2>3. faults' \in 0..MaxFaults
    BY <1>0, <1>6, KeeperAssumption DEF Confirm
  <2> QED
    BY <1>6, <2>2, <2>3, SettlingKeepsInv DEF Confirm, Working
<1>7. CASE SubmitFails
  BY <1>0, <1>7, <1>a, SettlingKeepsInv DEF SubmitFails, Working
<1>8. CASE NewDay
  <2> USE DEF NewDay
  <2>1. KeeperTypeOK'
    BY <1>8 DEF KeeperTypeOK, Counts
  <2>2. WorksOnHead' /\ SimulatedIsAccepted'
    BY <1>8 DEF WorksOnHead, SimulatedIsAccepted, Accepted
  <2>3. ChargedBeforeLogged' /\ PaysInVainOnlyAfterMove' /\ LoggedFeesWereCharged'
    BY <1>0, <1>8 DEF ChargedBeforeLogged, PaysInVainOnlyAfterMove, LoggedFeesWereCharged, Counts
  <2> QED
    BY <2>1, <2>2, <2>3
<1>9. CASE Restart
  <2> USE DEF Restart
  <2>1. network' \in SUBSET Tx
        /\ \A tx \in network' : \E old \in network : tx.op = old.op /\ tx.moved = old.moved
    BY <1>9, GivenUpTyped DEF KeeperTypeOK
  <2>2. faults' \in 0..MaxFaults /\ todo' \in [Loops -> SUBSET Op]
    BY <1>0, <1>9, KeeperAssumption
  <2>7. fees' \in Counts /\ line' \in Seq(Item)
    BY <1>0, <1>9 DEF Counts
  <2>3. KeeperTypeOK'
    BY <1>9, <2>1, <2>2, <2>7, IdleOwesNothing DEF KeeperTypeOK
  <2>4. exec'.phase = "idle" /\ exec'.answer = "none"
    BY <1>9, IdleOwesNothing
  <2>5. WorksOnHead' /\ SimulatedIsAccepted' /\ ChargedBeforeLogged'
    BY <1>9, <2>1, <2>4 DEF WorksOnHead, SimulatedIsAccepted, ChargedBeforeLogged, Accepted
  <2>6. PaysInVainOnlyAfterMove' /\ LoggedFeesWereCharged'
    BY <1>0, <1>9 DEF PaysInVainOnlyAfterMove, LoggedFeesWereCharged, Counts
  <2> QED
    BY <2>3, <2>5, <2>6
<1> QED
  BY <1>1, <1>2, <1>3, <1>4, <1>5, <1>6, <1>7, <1>8, <1>9 DEF Executor

(* The inductive invariant of the keeper holds in every reachable state.   *)
THEOREM KeeperAlwaysInv == KeeperSpec => []KeeperInv
<1>1. ASSUME KeeperInv, [KeeperNext]_vars
      PROVE  KeeperInv'
  <2>1. CASE UNCHANGED vars
    <3>1. KeeperTypeOK'
      BY <1>1, <2>1 DEF vars, KeeperInv, KeeperTypeOK
    <3> QED
      BY <1>1, <2>1, <3>1, QuietStepKeepsInv DEF vars
  <2> QED
    BY <1>1, <2>1, MarketKeepsInv, IndexerAndTimeKeepInv, ChainKeepsInv, LoopKeepsInv,
       ExecutorKeepsInv DEF KeeperNext
<1> QED
  BY KeeperInitInv, <1>1, PTL DEF KeeperSpec

(* The keeper pays for a failing call only when the market has moved since *)
(* the call was simulated, however late the transaction is included and    *)
(* whatever was restarted or expired in between (executor.ts, dedup.ts).   *)
THEOREM NeverPaysInVain == KeeperSpec => []PaysInVainOnlyAfterMove
<1>1. KeeperInv => PaysInVainOnlyAfterMove
  BY DEF KeeperInv
<1> QED
  BY KeeperAlwaysInv, <1>1, PTL

(* No fee is tallied or stored that the chain has not charged (persistFee). *)
THEOREM LoggedFeesAlwaysCharged == KeeperSpec => []LoggedFeesWereCharged
<1>1. KeeperInv => LoggedFeesWereCharged
  BY DEF KeeperInv
<1> QED
  BY KeeperAlwaysInv, <1>1, PTL
=============================================================================
