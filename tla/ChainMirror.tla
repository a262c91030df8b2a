----------------------------- MODULE ChainMirror -----------------------------
(***************************************************************************)
(* What the indexer's database promises its readers (keeper, API): it      *)
(* shows what the events of the contracts tell of them up to some point of *)
(* the stream, that point only moves forward, and each trade is recorded   *)
(* once.  What no event tells, it does not promise.                        *)
(***************************************************************************)
EXTENDS Naturals, Sequences, SequencesExt

CONSTANT Blank      \* the rows of an empty database

VARIABLES
  log,      \* the events of the chain, oldest first; .closes and .after tell
            \* where a transaction ends and what the events tell there of
            \* what the contracts hold
  upto,     \* how much of it the database shows
  rows,     \* the rows that mirror the contracts
  history   \* the append-only rows, by position of their event in the log

mirrorVars == <<log, upto, rows, history>>

MirrorInit == log = <<>> /\ upto = 0 /\ rows = Blank /\ history = <<>>

ChainGrows ==
  /\ Len(log') > Len(log) /\ SubSeq(log', 1, Len(log)) = log
  /\ UNCHANGED <<upto, rows, history>>

InOrder(positions) == SetToSortSeq(positions, <)

Advance ==
  /\ upto' \in (upto + 1)..Len(log)
  /\ history' = history \o InOrder({i \in (upto + 1)..upto' : log[i].recorded})
  /\ log[upto'].closes => rows' = log[upto'].after
  /\ UNCHANGED log

MirrorSpec == MirrorInit /\ [][ChainGrows \/ Advance]_mirrorVars
=============================================================================
