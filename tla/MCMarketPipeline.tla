--------------------------- MODULE MCMarketPipeline ---------------------------
(***************************************************************************)
(* Instances of MarketPipeline small enough for TLC.  The .cfg files give  *)
(* the sizes.                                                              *)
(***************************************************************************)
EXTENDS MarketPipeline

\* The first two ticks have the same timestamp.
MCTickTime == [n \in 1..MaxRecords |-> IF n <= 2 THEN 1 ELSE n]
=============================================================================
