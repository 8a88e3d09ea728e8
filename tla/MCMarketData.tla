----------------------------- MODULE MCMarketData -----------------------------
(* Instances of MarketData for TLC. *)
EXTENDS MarketData

CONSTANTS c1, c2

\* An agent's tools, and a page that refreshes its prices.
AgentAndPage ==
  [c \in Callers |-> IF c = c1 THEN {"ratio", "news"} ELSE {"quote", "intraday"}]

===============================================================================
