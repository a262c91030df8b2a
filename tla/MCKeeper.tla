------------------------------ MODULE MCKeeper ------------------------------
(* One position and one market: the loops compete for the chain, the claims *)
(* and the position, which is under water with its stop triggered, or a     *)
(* winner to be deleveraged.  A tick is a transaction timeout, 30 seconds.  *)
EXTENDS Keeper

MCSituations == {{}, {"liquidate_position", "execute_order"}, {"deleverage_position"}}
=============================================================================
