----------------------------- MODULE MCGovernance -----------------------------
(* Roles, handovers and upgrades on small instances. *)
EXTENDS Governance, TLC

Interchangeable == Permutations(Accounts) \cup Permutations(Hashes)
==============================================================================
