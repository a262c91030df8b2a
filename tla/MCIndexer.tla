------------------------------ MODULE MCIndexer ------------------------------
(* Two traders share a market.  Pages are shorter than the transactions of  *)
(* the contracts, so that a page ends within one.                           *)
EXTENDS Indexer

\* The configuration event is one the database cannot store.
MCRejected == {"limits"}
=============================================================================
