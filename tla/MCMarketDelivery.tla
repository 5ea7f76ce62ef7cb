--------------------------- MODULE MCMarketDelivery ---------------------------
(***************************************************************************)
(* An instance of MarketDelivery small enough for TLC.                     *)
(***************************************************************************)
EXTENDS MarketDelivery

\* The first two ticks have the same timestamp.
MCTickTime == [n \in 1..MaxRecords |-> IF n <= 2 THEN 1 ELSE n]
=============================================================================
