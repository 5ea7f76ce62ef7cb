----------------------------- MODULE MCMarketData -----------------------------
(***************************************************************************)
(* An instance of MarketData for TLC: one symbol in upper case, one that is*)
(* not, and one of a market that is not asked for.                         *)
(***************************************************************************)
EXTENDS MarketData

MCActive == {[symbol |-> "R_100", market |-> "synthetic_index"],
             [symbol |-> "frxEURUSD", market |-> "forex"],
             [symbol |-> "OTC_AEX", market |-> "indices"]}
MCAllowlists == {{}, {"R_100"}}
MCMarkets == {"forex", "synthetic_index"}
MCUpperCase == [R_100 |-> "R_100", frxEURUSD |-> "FRXEURUSD", OTC_AEX |-> "OTC_AEX",
                UNKNOWN |-> "UNKNOWN", M1 |-> "M1", m1 |-> "M1", M5 |-> "M5", m5 |-> "M5"]
                   @@ ("60s" :> "60S") @@ ("300s" :> "300S")
=============================================================================
