------------------------------- MODULE MCVault -------------------------------
(* The vault on small instances. *)
EXTENDS Vault, TLC

(* LPs are interchangeable in the safety runs. *)
Accounts == Permutations(LPs)

(* Values of net_global_trader_pnl the position manager pushes: traders
   losing, flat, winning.                                                   *)
SomeNetPnls == {-1, 0, 2}
==============================================================================
